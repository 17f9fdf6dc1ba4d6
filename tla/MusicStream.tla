---------------------------- MODULE MusicStream ----------------------------
(***************************************************************************)
(* The events of a guild's music queue.  The producer registers the guild  *)
(* and appends to its stream (MusicStreamProducer.ts, fire and forget      *)
(* behind MusicQueueEventBridge.ts); the consumer of the bot's process     *)
(* runs two interval jobs over the stream (MusicStreamConsumer.ts): a loop *)
(* that reads new entries through the consumer group, and a reclaim that   *)
(* takes over entries left pending for a minute.  An entry that fails is   *)
(* acknowledged and republished, one that fails too often is sent to the   *)
(* dead letters.                                                           *)
(*                                                                         *)
(* One guild; an event is published at most once.  A process has handlers  *)
(* from its start on, or none at all (the bot itself registers none).      *)
(***************************************************************************)
EXTENDS Integers, Sequences, FiniteSets, FiniteSetsExt

CONSTANTS
  Events,
  ReadCount,         \* STREAM_CONFIG.READ_COUNT
  MaxRetryAttempts,  \* STREAM_CONFIG.MAX_RETRY_ATTEMPTS
  MaxFailures        \* bound: refused or unanswered calls and crashes

ASSUME MusicStreamAssumption ==
  /\ IsFiniteSet(Events)
  /\ ReadCount \in Nat \ {0}
  /\ MaxRetryAttempts \in Nat
  /\ MaxFailures \in Nat

Jobs == {"loop", "reclaim"}

VARIABLES
  published,   \* event -> where its publish stands
  registered,  \* is the guild in the registry, with a score of the last ten minutes?
  stream,      \* the entries, never trimmed
  group, delivered, pending,  \* the consumer group and its pending entries
  idle,        \* the pending entries nobody has touched for a minute
  deliveries,  \* how often each was delivered
  deadLetters, \* the events in the dead letter stream
  life,        \* of the bot's process: "down", "running" or "stopping"
  known,       \* knownGuildIds: the guild is in it
  handler,     \* is a handler registered?
  processed,   \* processedMessages
  pc, batch,   \* where the two jobs stand, and the entries they have left: a
               \* function from their ids to the deliveries counted so far
  handled,     \* for the properties: the successes of the handler, by entry
  forgotten,   \* ... the events a fault, or "$", has taken away
  together,    \* ... the entries both jobs had in hand at once
  cut,         \* ... the entries pending when a process ended
  failures

valkey  == <<registered, stream, group, delivered, pending, idle, deliveries, deadLetters>>
process == <<life, known, handler, processed>>
jobVars == <<pc, batch>>
ghosts  == <<handled, forgotten, together, cut>>
streamVars == <<published, valkey, process, jobVars, ghosts, failures>>

Ids == DOMAIN stream
Nothing == [i \in {} |-> 0]

StreamInit ==
  /\ published = [e \in Events |-> "no"]
  /\ registered = FALSE
  /\ stream = <<>>
  /\ group = FALSE
  /\ delivered = 0
  /\ pending = {} /\ idle = {}
  /\ deliveries = <<>>
  /\ deadLetters = {}
  /\ life = "down"
  /\ known = FALSE
  /\ handler = FALSE
  /\ processed = {}
  /\ pc = [t \in Jobs |-> "off"]
  /\ batch = [t \in Jobs |-> Nothing]
  /\ handled = <<>>
  /\ forgotten = {} /\ together = {} /\ cut = {}
  /\ failures = 0

Goto(t, s) == pc' = [pc EXCEPT ![t] = s]

Failure ==
  /\ failures < MaxFailures
  /\ failures' = failures + 1

NoFailure == UNCHANGED failures

-----------------------------------------------------------------------------
(* The producer: registerGuildStream, then XADD.                           *)

\* ZADD; its failure is swallowed.
Register(e) ==
  /\ life # "down"
  /\ published[e] = "no"
  /\ published' = [published EXCEPT ![e] = "registered"]
  /\ \/ /\ registered' = TRUE
        /\ NoFailure
     \/ /\ UNCHANGED registered
        /\ Failure
  /\ UNCHANGED <<stream, group, delivered, pending, idle, deliveries, deadLetters,
                 process, jobVars, ghosts>>

XAdd(e, retryCount) ==
  /\ stream' = Append(stream, [event |-> e, retryCount |-> retryCount])
  /\ deliveries' = Append(deliveries, 0)
  /\ handled' = Append(handled, 0)

Add(e) ==
  /\ published[e] = "registered"
  /\ published' = [published EXCEPT ![e] = "sent"]
  /\ XAdd(e, 0)
  /\ UNCHANGED <<registered, group, delivered, pending, idle, deadLetters, process,
                 jobVars, forgotten, together, cut, failures>>

\* XADD throws; publish logs it and answers null.
XAddFails(e) ==
  /\ published[e] = "registered"
  /\ published' = [published EXCEPT ![e] = "failed"]
  /\ Failure
  /\ UNCHANGED <<valkey, process, jobVars, ghosts>>

\* Ten minutes without an event.
Expire ==
  /\ registered
  /\ registered' = FALSE
  /\ UNCHANGED <<published, stream, group, delivered, pending, idle, deliveries,
                 deadLetters, process, jobVars, ghosts, failures>>

\* A minute passes over a pending entry.
Age(i) ==
  /\ i \in pending \ idle
  /\ idle' = idle \cup {i}
  /\ UNCHANGED <<published, registered, stream, group, delivered, pending, deliveries,
                 deadLetters, process, jobVars, ghosts, failures>>

-----------------------------------------------------------------------------
(* The process.                                                            *)

Start ==
  /\ life = "down"
  /\ life' = "running"
  /\ handler' \in BOOLEAN
  /\ Goto("loop", "boot")
  /\ UNCHANGED <<published, valkey, known, processed, batch, ghosts, failures>>

\* The intervals are cleared; a job under way goes on.
Shutdown ==
  /\ life = "running"
  /\ pc["loop"] \notin {"boot", "bootGroup"}
  /\ life' = "stopping"
  /\ Failure
  /\ UNCHANGED <<published, valkey, known, handler, processed, jobVars, ghosts>>

Republishing(t) == pc[t] = "republish"

\* Valkey answers in the order of the ids, and so the batch is walked.
Current(t) == Min(DOMAIN batch[t])
EventOf(i) == stream[i].event

ProcessEnds ==
  /\ life' = "down"
  /\ known' = FALSE
  /\ handler' = FALSE
  /\ processed' = {}
  /\ pc' = [t \in Jobs |-> "off"]
  /\ batch' = [t \in Jobs |-> Nothing]
  /\ published' = [e \in Events |->
                     IF published[e] = "registered" THEN "failed" ELSE published[e]]
  /\ forgotten' = forgotten \cup {EventOf(Current(t)) : t \in {s \in Jobs : Republishing(s)}}
  /\ cut' = cut \cup pending
  /\ UNCHANGED <<valkey, handled, together>>

\* The shutdown does not wait for the jobs either.
Exit ==
  /\ life = "stopping"
  /\ ProcessEnds
  /\ NoFailure

Crash ==
  /\ life # "down"
  /\ ProcessEnds
  /\ Failure

-----------------------------------------------------------------------------
(* Consumer groups: XGROUP CREATE ... "$" MKSTREAM.                        *)

\* An existing group is left alone (BUSYGROUP); what a new one finds it never reads.
GroupExists ==
  /\ group' = TRUE
  /\ delivered' = IF group THEN delivered ELSE Len(stream)
  /\ forgotten' = IF group THEN forgotten
                           ELSE forgotten \cup {EventOf(i) : i \in Ids}

\* getActiveGuildIds: an error reads as an empty registry.
ReadsRegistry(found) ==
  \/ found = registered /\ NoFailure
  \/ found = FALSE /\ registered /\ Failure

\* The reclaim's interval is set after the bootstrap, like the loop's.
Booted == pc' = [pc EXCEPT !["loop"] = "idle", !["reclaim"] = "idle"]

Boot ==
  /\ pc["loop"] = "boot"
  /\ \E found \in BOOLEAN :
       /\ ReadsRegistry(found)
       /\ IF found THEN Goto("loop", "bootGroup") ELSE Booted
  /\ UNCHANGED <<published, valkey, process, batch, ghosts>>

BootGroup ==
  /\ pc["loop"] = "bootGroup"
  /\ GroupExists
  /\ \/ known' = TRUE /\ NoFailure
     \/ UNCHANGED known /\ Failure                   \* the answer is lost
  /\ Booted
  /\ UNCHANGED <<published, registered, stream, pending, idle, deliveries, deadLetters,
                 life, handler, processed, batch, handled, together, cut>>

BootGroupFails ==
  /\ pc["loop"] = "bootGroup"
  /\ Failure
  /\ Booted
  /\ UNCHANGED <<published, valkey, process, batch, ghosts>>

-----------------------------------------------------------------------------
(* consumeLoop and reclaimPendingEntries, up to the entries they take.     *)

\* No tick starts a job whose last run is under way (consumeLoopInFlight, reclaimInFlight).
Tick(t) == life = "running" /\ pc[t] = "idle"

\* A guild is known before its group is created, and whether or not it is.
Refresh ==
  /\ Tick("loop")
  /\ \E found \in BOOLEAN :
       /\ ReadsRegistry(found)
       /\ known' = (known \/ found)
       /\ Goto("loop", IF found /\ ~known THEN "group" ELSE IF known THEN "read" ELSE "idle")
  /\ UNCHANGED <<published, valkey, life, handler, processed, batch, ghosts>>

CreateGroup ==
  /\ pc["loop"] = "group"
  /\ GroupExists
  /\ NoFailure
  /\ Goto("loop", "read")
  /\ UNCHANGED <<published, registered, stream, pending, idle, deliveries, deadLetters,
                 process, batch, handled, together, cut>>

CreateGroupFails ==
  /\ pc["loop"] = "group"
  /\ Failure
  /\ Goto("loop", "read")
  /\ UNCHANGED <<published, valkey, process, batch, ghosts>>

LastRead == Min({delivered + ReadCount, Len(stream)})
NewIds == (delivered + 1)..LastRead

\* XREADGROUP ">": what it delivers becomes pending.
Delivers ==
  /\ group
  /\ NewIds # {}
  /\ delivered' = LastRead
  /\ pending' = pending \cup NewIds
  /\ deliveries' = [i \in Ids |-> IF i \in NewIds THEN 1 ELSE deliveries[i]]

Read ==
  /\ pc["loop"] = "read"
  /\ Delivers
  /\ batch' = [batch EXCEPT !["loop"] = [i \in NewIds |-> 1]]
  /\ Goto("loop", "entry")
  /\ UNCHANGED <<published, registered, stream, group, idle, deadLetters, process,
                 ghosts, failures>>

\* Nothing new before BLOCK runs out, or NOGROUP.
ReadNothing ==
  /\ pc["loop"] = "read"
  /\ group => NewIds = {}
  /\ Goto("loop", "idle")
  /\ UNCHANGED <<published, valkey, process, batch, ghosts, failures>>

\* The call fails, or its answer is lost on the way.
ReadFails ==
  /\ pc["loop"] = "read"
  /\ Failure
  /\ \/ Delivers
     \/ UNCHANGED <<delivered, pending, deliveries>>
  /\ Goto("loop", "idle")
  /\ UNCHANGED <<published, registered, stream, group, idle, deadLetters, process,
                 batch, ghosts>>

\* XPENDING, and the filter on the idle time.
Stale == IF group THEN idle ELSE {}
Snapshot == [i \in Stale |-> deliveries[i]]

\* Mutant: with nothing to claim the run returns before the finally.
PendingKeepsFlag ==
  /\ Tick("reclaim")
  /\ known
  /\ batch' = [batch EXCEPT !["reclaim"] = Snapshot]
  /\ Goto("reclaim", IF Stale = {} THEN "stuck" ELSE "claim")
  /\ UNCHANGED <<published, valkey, process, ghosts, failures>>

Pending ==
  /\ Tick("reclaim")
  /\ known
  /\ batch' = [batch EXCEPT !["reclaim"] = Snapshot]
  /\ Goto("reclaim", IF Stale = {} THEN "idle" ELSE "claim")
  /\ UNCHANGED <<published, valkey, process, ghosts, failures>>

\* Where a job goes with what is left of its batch; the reclaim looks at the deliveries
\* XPENDING had counted.
Taking(t, left) ==
  CASE left = Nothing -> "idle"
    [] left # Nothing /\ t = "reclaim" /\ left[Min(DOMAIN left)] > MaxRetryAttempts -> "overdue"
    [] OTHER -> "entry"

\* XCLAIM looks at the idle time again, and counts a delivery.
Claimable == DOMAIN batch["reclaim"] \cap idle

Claims ==
  /\ idle' = idle \ Claimable
  /\ deliveries' = [i \in Ids |-> IF i \in Claimable THEN deliveries[i] + 1 ELSE deliveries[i]]

Claim ==
  /\ pc["reclaim"] = "claim"
  /\ Claims
  /\ LET mine == Restrict(batch["reclaim"], Claimable) IN
       /\ batch' = [batch EXCEPT !["reclaim"] = mine]
       /\ Goto("reclaim", Taking("reclaim", mine))
  /\ UNCHANGED <<published, registered, stream, group, delivered, pending, deadLetters,
                 process, ghosts, failures>>

ClaimFails ==
  /\ pc["reclaim"] = "claim"
  /\ Failure
  /\ \/ Claims
     \/ UNCHANGED <<idle, deliveries>>
  /\ batch' = [batch EXCEPT !["reclaim"] = Nothing]
  /\ Goto("reclaim", "idle")
  /\ UNCHANGED <<published, registered, stream, group, delivered, pending, deadLetters,
                 process, ghosts>>

-----------------------------------------------------------------------------
(* processEntry.                                                           *)

\* The next entry of the batch, or the end of the job.
NextEntry(t) ==
  LET left == Restrict(batch[t], DOMAIN batch[t] \ {Current(t)}) IN
  /\ batch' = [batch EXCEPT ![t] = left]
  /\ Goto(t, Taking(t, left))

\* processEntry returns; the reclaim acknowledges once more.
Returns(t) ==
  IF t = "loop" THEN NextEntry(t) ELSE Goto(t, "again") /\ UNCHANGED batch

Handling(t) == pc[t] \in {"handling", "ackHandled"}

\* Up to the first await: the duplicates, the retries, the missing handler.
ProcessEntry(t) ==
  /\ pc[t] = "entry"
  /\ LET i == Current(t) IN
     \/ /\ i \in processed
        /\ Goto(t, "ack")
        /\ UNCHANGED <<forgotten, together>>
     \/ /\ i \notin processed
        /\ stream[i].retryCount + 1 > MaxRetryAttempts
        /\ Goto(t, "deadLetter")
        /\ UNCHANGED <<forgotten, together>>
     \/ /\ i \notin processed
        /\ stream[i].retryCount + 1 <= MaxRetryAttempts
        /\ ~handler
        /\ Goto(t, "ack")
        /\ forgotten' = forgotten \cup {EventOf(i)}
        /\ UNCHANGED together
     \/ /\ i \notin processed
        /\ stream[i].retryCount + 1 <= MaxRetryAttempts
        /\ handler
        /\ Goto(t, "handling")
        /\ together' = IF \E s \in Jobs \ {t} : Handling(s) /\ Current(s) = i
                       THEN together \cup {i} ELSE together
        /\ UNCHANGED forgotten
  /\ UNCHANGED <<published, valkey, process, batch, handled, cut, failures>>

HandlerSucceeds(t) ==
  /\ pc[t] = "handling"
  /\ handled' = [handled EXCEPT ![Current(t)] = @ + 1]
  /\ Goto(t, "ackHandled")
  /\ UNCHANGED <<published, valkey, process, batch, forgotten, together, cut, failures>>

\* Mutant: the entry that failed is acknowledged and that is all.
HandlerFailsForGood(t) ==
  /\ pc[t] = "handling"
  /\ Goto(t, "ack")
  /\ UNCHANGED <<published, valkey, process, batch, ghosts, failures>>

HandlerFails(t) ==
  /\ pc[t] = "handling"
  /\ Goto(t, "ackFailed")
  /\ UNCHANGED <<published, valkey, process, batch, ghosts, failures>>

\* ackMessage swallows its error.
Acks(t) ==
  \/ /\ pending' = pending \ {Current(t)}
     /\ idle' = idle \ {Current(t)}
     /\ NoFailure
  \/ /\ Failure
     /\ UNCHANGED <<pending, idle>>

Ack(t) ==
  /\ pc[t] = "ack"
  /\ Acks(t)
  /\ Returns(t)
  /\ UNCHANGED <<published, registered, stream, group, delivered, deliveries,
                 deadLetters, process, handled, forgotten, together, cut>>

\* Mutant: a success is not remembered.
AckHandledForgets(t) ==
  /\ pc[t] = "ackHandled"
  /\ Acks(t)
  /\ Returns(t)
  /\ UNCHANGED <<published, registered, stream, group, delivered, deliveries,
                 deadLetters, process, handled, forgotten, together, cut>>

\* addToDedupe, whatever became of the acknowledgement.
AckHandled(t) ==
  /\ pc[t] = "ackHandled"
  /\ Acks(t)
  /\ processed' = processed \cup {Current(t)}
  /\ Returns(t)
  /\ UNCHANGED <<published, registered, stream, group, delivered, deliveries,
                 deadLetters, life, known, handler, handled, forgotten, together, cut>>

AckFailed(t) ==
  /\ pc[t] = "ackFailed"
  /\ Acks(t)
  /\ Goto(t, "republish")
  /\ UNCHANGED <<published, registered, stream, group, delivered, deliveries,
                 deadLetters, process, batch, handled, forgotten, together, cut>>

\* republishWithRetry, to the same guild's stream.
Republish(t) ==
  /\ pc[t] = "republish"
  /\ XAdd(EventOf(Current(t)), stream[Current(t)].retryCount + 1)
  /\ Returns(t)
  /\ UNCHANGED <<published, registered, group, delivered, pending, idle, deadLetters,
                 process, forgotten, together, cut, failures>>

RepublishFails(t) ==
  /\ pc[t] = "republish"
  /\ Failure
  /\ forgotten' = forgotten \cup {EventOf(Current(t))}
  /\ Returns(t)
  /\ UNCHANGED <<published, valkey, process, handled, together, cut>>

\* sendToDlq, which swallows its error; the reclaim has its own way there.
DeadLetter(t) ==
  /\ pc[t] \in {"deadLetter", "overdue"}
  /\ \/ /\ deadLetters' = deadLetters \cup {EventOf(Current(t))}
        /\ NoFailure
        /\ UNCHANGED forgotten
     \/ /\ Failure
        /\ forgotten' = forgotten \cup {EventOf(Current(t))}
        /\ UNCHANGED deadLetters
  /\ Goto(t, IF pc[t] = "overdue" THEN "ackOverdue" ELSE "ack")
  /\ UNCHANGED <<published, registered, stream, group, delivered, pending, idle,
                 deliveries, process, batch, handled, together, cut>>

\* The acknowledgement of an overdue entry, and the second one of a reclaimed entry.
AckAndAdvance(t) ==
  /\ pc[t] \in {"ackOverdue", "again"}
  /\ Acks(t)
  /\ NextEntry(t)
  /\ UNCHANGED <<published, registered, stream, group, delivered, deliveries,
                 deadLetters, process, handled, forgotten, together, cut>>

-----------------------------------------------------------------------------
Processing(t) ==
  \/ ProcessEntry(t) \/ HandlerSucceeds(t) \/ HandlerFails(t)
  \/ Ack(t) \/ AckHandled(t) \/ AckFailed(t)
  \/ Republish(t) \/ RepublishFails(t) \/ DeadLetter(t) \/ AckAndAdvance(t)

Loop ==
  \/ Boot \/ BootGroup \/ BootGroupFails
  \/ Refresh \/ CreateGroup \/ CreateGroupFails
  \/ Read \/ ReadNothing \/ ReadFails
  \/ Processing("loop")

Reclaim ==
  \/ Pending \/ Claim \/ ClaimFails
  \/ Processing("reclaim")

StreamNext ==
  \/ \E e \in Events : Register(e) \/ Add(e) \/ XAddFails(e)
  \/ Expire
  \/ \E i \in Ids : Age(i)
  \/ Start \/ Shutdown \/ Exit \/ Crash
  \/ Loop \/ Reclaim

StreamSpec == StreamInit /\ [][StreamNext]_streamVars

\* The intervals fire, calls are answered or fail, a process that is down is started.
StreamFairness ==
  /\ WF_streamVars(Start) /\ WF_streamVars(Exit)
  /\ WF_streamVars(Loop) /\ WF_streamVars(Reclaim)
  /\ \A i \in 1..(2 * Cardinality(Events) + MaxFailures) : WF_streamVars(i \in Ids /\ Age(i))

FairStreamSpec == StreamSpec /\ StreamFairness

-----------------------------------------------------------------------------
EntriesOf(e) == {i \in Ids : EventOf(i) = e}
Concluded(e) ==
  \/ \E i \in EntriesOf(e) : handled[i] > 0
  \/ e \in deadLetters \cup forgotten

(* An event that reached the stream is still to be delivered, pending,     *)
(* being republished, handled or among the dead letters; only a refused    *)
(* call, a crash between two steps, a missing handler or a group created   *)
(* behind it takes it away.                                                *)
NothingForgotten ==
  \A e \in Events : published[e] = "sent" =>
    \/ Concluded(e)
    \/ \E i \in EntriesOf(e) :
         i > delivered \/ i \in pending \/ \E t \in Jobs : Republishing(t) /\ Current(t) = i

(* The handler succeeds twice on one entry only if the two jobs have had   *)
(* it in hand at once, or a process ended with the entry pending: a lost   *)
(* acknowledgement alone is made up for by processedMessages.              *)
HandledOnce ==
  \A i \in Ids : handled[i] > 1 => i \in together \cup cut

(* Every event the group can see is handled, dead-lettered or lost to a    *)
(* fault in the end, whatever was refused, lost or restarted meanwhile,    *)
(* unless the guild drops out of the registry while no process knows it.   *)
Settles ==
  \A e \in Events :
    (published[e] = "sent" /\ group) ~> (Concluded(e) \/ (~known /\ ~registered))
=============================================================================
