-------------------------- MODULE LeaderboardStream --------------------------
(***************************************************************************)
(* The leaderboard.  A service that has committed a change of somebody's   *)
(* totals publishes an event (LeaderboardService.publishUpdate); a loop of *)
(* the bot reads the stream through a consumer group, computes the user's  *)
(* net profit and writes it to the Leaderboard row, one entry at a time,   *)
(* and acknowledges (LeaderboardStreamConsumer.ts).                        *)
(*                                                                         *)
(* The totals of a user are abstracted to the number of commits they are   *)
(* the result of; an entry remembers, for the properties alone, which      *)
(* commit it announces.  One process of the bot runs at a time.            *)
(***************************************************************************)
EXTENDS Integers, Sequences, FiniteSets

CONSTANTS
  Users,
  Loops,        \* the invocations of processLoop that may be under way
  BatchSize,    \* LEADERBOARD_STREAM_CONFIG.BATCH_SIZE
  MaxRetries,   \* LEADERBOARD_STREAM_CONFIG.MAX_RETRIES
  MaxCommits,   \* bound: commits per user
  MaxEntries,   \* bound: entries in the stream
  CanFail,      \* may Valkey and PostgreSQL refuse a call?
  CanStop       \* may the bot be shut down or die?

ASSUME LeaderboardAssumption ==
  /\ BatchSize \in Nat \ {0}
  /\ MaxRetries \in Nat
  /\ MaxCommits \in Nat
  /\ MaxEntries \in Nat
  /\ CanFail \in BOOLEAN
  /\ CanStop \in BOOLEAN

VARIABLES
  profit,        \* UserEconomy: the totals, as the number of their commits
  board,         \* Leaderboard: the commit a row shows
  owed,          \* commits whose publishUpdate has not sent its XADD yet
  stream,        \* the entries in Valkey, never trimmed
  group,         \* does the consumer group exist?
  delivered,     \* the group's last delivered entry
  pending,       \* the group's pending entries list
  booted,        \* has this process passed startLeaderboardStreamConsumer?
  isRunning, loopInFlight,
  pc,            \* where a loop stands
  next, last,    \* what is left of its batch
  read,          \* the totals it has read for the entry in hand
  lost           \* for the properties: the events nobody will ever read

economy  == <<profit, owed>>
consumer == <<group, delivered, pending>>
process  == <<booted, isRunning>>
loop     == <<loopInFlight, pc, next, last, read>>
vars     == <<profit, board, owed, stream, group, delivered, pending, booted,
              isRunning, loopInFlight, pc, next, last, read, lost>>

Event == [user : Users, version : 1..MaxCommits]

Init ==
  /\ profit = [u \in Users |-> 0]
  /\ board = [u \in Users |-> 0]
  /\ owed = {}
  /\ stream = <<>>
  /\ group = FALSE
  /\ delivered = 0
  /\ pending = {}
  /\ booted = FALSE
  /\ isRunning = FALSE
  /\ loopInFlight = FALSE
  /\ pc = [l \in Loops |-> "idle"]
  /\ next = [l \in Loops |-> 0]
  /\ last = [l \in Loops |-> 0]
  /\ read = [l \in Loops |-> 0]
  /\ lost = {}

Goto(l, s) == pc' = [pc EXCEPT ![l] = s]

-----------------------------------------------------------------------------
(* The process.                                                            *)

\* With Valkey out of reach the start is "deferred": nothing starts it later.
Start ==
  /\ ~booted
  /\ booted' = TRUE
  /\ isRunning' \in IF CanFail THEN BOOLEAN ELSE {TRUE}
  /\ UNCHANGED <<economy, board, stream, consumer, loop, lost>>

\* The loop in flight, if any, goes on.
Stop ==
  /\ CanStop
  /\ isRunning
  /\ isRunning' = FALSE
  /\ UNCHANGED <<economy, board, stream, consumer, booted, loop, lost>>

\* The process is gone, with the events it had not sent.
Crash ==
  /\ CanStop
  /\ booted
  /\ booted' = FALSE
  /\ isRunning' = FALSE
  /\ loopInFlight' = FALSE
  /\ pc' = [l \in Loops |-> "idle"]
  /\ next' = [l \in Loops |-> 0]
  /\ last' = [l \in Loops |-> 0]
  /\ read' = [l \in Loops |-> 0]
  /\ owed' = {}
  /\ lost' = lost \cup owed
  /\ UNCHANGED <<profit, board, stream, consumer>>

-----------------------------------------------------------------------------
(* EconomyService, RouletteService: commit, then publish without waiting.  *)

\* One user's totals, or both of a transfer's.
NewTotals(a, b) ==
  /\ booted
  /\ profit[a] < MaxCommits /\ profit[b] < MaxCommits
  /\ profit' = [u \in Users |-> IF u \in {a, b} THEN profit[u] + 1 ELSE profit[u]]

NewEvents(a, b) == {[user |-> u, version |-> profit[u] + 1] : u \in {a, b}}

\* Mutant: of a transfer, only the sender is announced.
CommitAnnouncesOne(a, b) ==
  /\ NewTotals(a, b)
  /\ Len(stream) + Cardinality(owed) + Cardinality({a, b}) <= MaxEntries
  /\ owed' = owed \cup NewEvents(a, a)
  /\ UNCHANGED <<board, stream, consumer, process, loop, lost>>

Commit(a, b) ==
  /\ NewTotals(a, b)
  /\ Len(stream) + Cardinality(owed) + Cardinality({a, b}) <= MaxEntries
  /\ owed' = owed \cup NewEvents(a, b)
  /\ UNCHANGED <<board, stream, consumer, process, loop, lost>>

\* The answer to COMMIT is lost: the service throws and publishes nothing.
CommitUnanswered(a, b) ==
  /\ CanFail
  /\ NewTotals(a, b)
  /\ lost' = lost \cup NewEvents(a, b)
  /\ UNCHANGED <<owed, board, stream, consumer, process, loop>>

Publish(o) ==
  /\ owed' = owed \ {o}
  /\ stream' = Append(stream, o)
  /\ UNCHANGED <<profit, board, consumer, process, loop, lost>>

\* Not connected, or XADD fails: "silently skip".
PublishFails(o) ==
  /\ CanFail
  /\ owed' = owed \ {o}
  /\ lost' = lost \cup {o}
  /\ UNCHANGED <<profit, board, stream, consumer, process, loop>>

-----------------------------------------------------------------------------
(* processLoop.                                                            *)

\* Mutant: the interval fires while the last invocation is still reading.
TickUnguarded(l) ==
  /\ isRunning
  /\ pc[l] = "idle"
  /\ loopInFlight' = TRUE
  /\ Goto(l, "group")
  /\ UNCHANGED <<economy, board, stream, consumer, process, next, last, read, lost>>

Tick(l) ==
  /\ isRunning
  /\ ~loopInFlight
  /\ pc[l] = "idle"
  /\ loopInFlight' = TRUE
  /\ Goto(l, "group")
  /\ UNCHANGED <<economy, board, stream, consumer, process, next, last, read, lost>>

\* The variables of the invocation that has returned.
Forget(l) ==
  /\ next' = [next EXCEPT ![l] = 0]
  /\ last' = [last EXCEPT ![l] = 0]
  /\ read' = [read EXCEPT ![l] = 0]

\* finally: loopInFlight = false.
EndLoop(l) ==
  /\ loopInFlight' = FALSE
  /\ Goto(l, "idle")
  /\ Forget(l)

\* A new group starts at "$": what the stream holds already is never read.
CreateGroup(l) ==
  /\ pc[l] = "group"
  /\ group' = TRUE
  /\ delivered' = IF group THEN delivered ELSE Len(stream)
  /\ lost' = IF group THEN lost ELSE lost \cup {stream[i] : i \in 1..Len(stream)}
  /\ Goto(l, "read")
  /\ UNCHANGED <<economy, board, stream, pending, process, loopInFlight, next, last, read>>

LastRead ==
  IF delivered + BatchSize < Len(stream) THEN delivered + BatchSize ELSE Len(stream)

\* XREADGROUP ">": the next new entries, which become pending.
Deliver ==
  /\ delivered' = LastRead
  /\ pending' = pending \cup ((delivered + 1)..LastRead)
  /\ UNCHANGED <<economy, board, stream, group, process, lost>>

ReadEntries(l) ==
  /\ pc[l] = "read"
  /\ delivered < Len(stream)
  /\ Deliver
  /\ next' = [next EXCEPT ![l] = delivered + 1]
  /\ last' = [last EXCEPT ![l] = LastRead]
  /\ Goto(l, "load")
  /\ UNCHANGED <<loopInFlight, read>>

\* Mutant: the way out for an empty answer forgets the flag.
ReadNothingKeepsFlag(l) ==
  /\ pc[l] = "read"
  /\ delivered = Len(stream)
  /\ Goto(l, "idle")
  /\ Forget(l)
  /\ UNCHANGED <<economy, board, stream, consumer, process, loopInFlight, lost>>

\* BLOCK runs out.
ReadNothing(l) ==
  /\ pc[l] = "read"
  /\ delivered = Len(stream)
  /\ EndLoop(l)
  /\ UNCHANGED <<economy, board, stream, consumer, process, lost>>

\* The call fails before Valkey has seen it, or its answer is lost.
LoopFails(l) ==
  /\ CanFail
  /\ pc[l] \in {"group", "read"}
  /\ EndLoop(l)
  /\ UNCHANGED <<economy, board, stream, consumer, process, lost>>

AnswerLost(l) ==
  /\ CanFail
  /\ pc[l] = "read"
  /\ delivered < Len(stream)
  /\ Deliver
  /\ EndLoop(l)

-----------------------------------------------------------------------------
(* One entry: processUpdate and the acknowledgement.                       *)

InHand(l) == stream[next[l]]

NextEntry(l) ==
  \/ /\ next[l] < last[l]
     /\ Goto(l, "load")
     /\ next' = [next EXCEPT ![l] = @ + 1]
     /\ read' = [read EXCEPT ![l] = 0]
     /\ UNCHANGED <<loopInFlight, last>>
  \/ /\ next[l] >= last[l]
     /\ EndLoop(l)

\* getEconomyUser.  The row exists: its totals have been committed.
LoadTotals(l) ==
  /\ pc[l] = "load"
  /\ read' = [read EXCEPT ![l] = profit[InHand(l).user]]
  /\ Goto(l, "upsert")
  /\ UNCHANGED <<economy, board, stream, consumer, process, loopInFlight, next, last, lost>>

Upsert(l) ==
  /\ pc[l] = "upsert"
  /\ board' = [board EXCEPT ![InHand(l).user] = read[l]]
  /\ Goto(l, "ack")
  /\ UNCHANGED <<economy, stream, consumer, process, loopInFlight, next, last, read, lost>>

Ack(l) ==
  /\ pc[l] = "ack"
  /\ pending' = pending \ {next[l]}
  /\ NextEntry(l)
  /\ UNCHANGED <<economy, board, stream, group, delivered, process, lost>>

\* Mutant: a failed entry is acknowledged like the others.
EntryFailsAcked(l) ==
  /\ CanFail
  /\ pc[l] \in {"load", "upsert", "ack"}
  /\ pending' = pending \ {next[l]}
  /\ NextEntry(l)
  /\ UNCHANGED <<economy, board, stream, group, delivered, process, lost>>

\* _retryCount is read from the entry and never written back to it: whatever
\* the number of failures, the count is 1.
RetryCount == 1

\* The catch of the loop: at the limit to the dead letters, else no XACK.
EntryFails(l) ==
  /\ CanFail
  /\ pc[l] \in {"load", "upsert", "ack"}
  /\ pending' = IF RetryCount >= MaxRetries THEN pending \ {next[l]} ELSE pending
  /\ lost' = IF RetryCount >= MaxRetries THEN lost \cup {InHand(l)} ELSE lost
  /\ NextEntry(l)
  /\ UNCHANGED <<economy, board, stream, group, delivered, process>>

-----------------------------------------------------------------------------
LoopStep(l) ==
  \/ CreateGroup(l) \/ ReadEntries(l) \/ ReadNothing(l) \/ LoopFails(l)
  \/ AnswerLost(l) \/ LoadTotals(l) \/ Upsert(l) \/ Ack(l) \/ EntryFails(l)

Next ==
  \/ Start \/ Stop \/ Crash
  \/ \E a, b \in Users : Commit(a, b) \/ CommitUnanswered(a, b)
  \/ \E o \in owed : Publish(o) \/ PublishFails(o)
  \/ \E l \in Loops : Tick(l) \/ LoopStep(l)

Spec == Init /\ [][Next]_vars

\* The interval fires, every call of a loop settles, and publishUpdate sends
\* its XADD in the tick that resumes the service after its commit.  Strong
\* fairness says that Valkey does not refuse the group or the read for ever.
FairSpec ==
  /\ Spec
  /\ WF_vars(\E l \in Loops : Tick(l))
  /\ \A l \in Loops : WF_vars(LoopStep(l))
  /\ WF_vars(\E o \in owed : Publish(o) \/ PublishFails(o))
  /\ \A l \in Loops : /\ SF_vars(CreateGroup(l))
                      /\ SF_vars(ReadEntries(l) \/ AnswerLost(l))

-----------------------------------------------------------------------------
TypeOK ==
  /\ profit \in [Users -> 0..MaxCommits]
  /\ board \in [Users -> 0..MaxCommits]
  /\ owed \subseteq Event
  /\ stream \in Seq(Event)
  /\ group \in BOOLEAN
  /\ delivered \in 0..Len(stream)
  /\ pending \subseteq 1..delivered
  /\ booted \in BOOLEAN
  /\ isRunning \in BOOLEAN
  /\ loopInFlight \in BOOLEAN
  /\ pc \in [Loops -> {"idle", "group", "read", "load", "upsert", "ack"}]
  /\ next \in [Loops -> Nat]
  /\ last \in [Loops -> Nat]
  /\ read \in [Loops -> 0..MaxCommits]
  /\ lost \subseteq Event

\* The event e is to be sent, to be read, or pending, or known to be lost.
Outstanding(e) ==
  \/ e \in owed \cup lost
  \/ \E i \in (delivered + 1)..Len(stream) : stream[i] = e
  \/ \E i \in pending : stream[i] = e

\* A row that does not show a commit has the very event that announced it on
\* its way, or a failed call has lost that event: with every event acknowledged
\* the leaderboard is right, although an entry carries no amount and totals go
\* on changing between the read and the upsert (processUpdate).
BoardFollows ==
  \A u \in Users : \A v \in 1..profit[u] :
    v <= board[u] \/ Outstanding([user |-> u, version |-> v])

\* A row never returns to older totals: no upsert overtakes another, which is
\* what the flag loopInFlight is for.
BoardNeverGoesBack == [][\A u \in Users : board'[u] >= board[u]]_vars

\* XACK is the consumer's word that the row shows the commit the entry
\* announced; the exception would be an entry moved to the dead letters.
AckedIsShown ==
  [][\A i \in pending \ pending' :
       stream[i].version <= board[stream[i].user] \/ RetryCount >= MaxRetries]_vars

\* Pending, and in no loop's hands: the group will not deliver it again.
Stranded(e) ==
  \E i \in pending : stream[i] = e /\ \A l \in Loops : i \notin next[l]..last[l]

Newest(u) == [user |-> u, version |-> profit[u]]

\* A consumer that stays up brings every row up to date, unless the event of
\* the user's last commit was lost or stranded by a failing call.
CatchesUp ==
  <>[]isRunning =>
    \A u \in Users :
      <>[](board[u] = profit[u] \/ Newest(u) \in lost \/ Stranded(Newest(u)))

\* LeaderboardStreamConsumer.ts:88: an entry that could not be processed "will
\* be retried on next loop", and so leaves the pending list in the end, for the
\* row or for the dead letters.
Retried ==
  \A i \in 1..MaxEntries :
    (\E l \in Loops : pc[l] = "load" /\ next[l] = i) ~> (i \notin pending)
=============================================================================
