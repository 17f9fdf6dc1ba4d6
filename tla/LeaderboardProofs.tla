-------------------------- MODULE LeaderboardProofs --------------------------
(***************************************************************************)
(* Theorems about LeaderboardStream for every set of users, every batch    *)
(* size and every number of commits.                                       *)
(***************************************************************************)
EXTENDS LeaderboardStream, TLAPS

-----------------------------------------------------------------------------
(* Shape: one loop at a time, whose batch is pending and delivered.        *)

Working(l) == pc[l] \in {"load", "upsert", "ack"}

Alone ==
  \A l \in Loops :
    pc[l] # "idle" => loopInFlight /\ \A k \in Loops : pc[k] # "idle" => k = l

BatchOK(l) ==
  Working(l) =>
    /\ 1 <= next[l] /\ next[l] <= last[l] /\ last[l] <= delivered
    /\ \A i \in next[l]..last[l] : i \in pending

Shape == TypeOK /\ Alone /\ \A l \in Loops : BatchOK(l)

LEMMA ShapeInit == Init => Shape
<1> SUFFICES ASSUME Init PROVE Shape OBVIOUS
<1>1. \A l \in Loops : pc[l] = "idle" BY DEF Init
<1>2. Alone /\ \A l \in Loops : BatchOK(l) BY <1>1 DEF Alone, BatchOK, Working
<1>3. stream \in Seq(Event) /\ Len(stream) = 0 BY DEF Init
<1>4. 0 \in 0..MaxCommits BY LeaderboardAssumption
<1>5. /\ profit \in [Users -> 0..MaxCommits] /\ board \in [Users -> 0..MaxCommits]
      /\ read \in [Loops -> 0..MaxCommits]
  BY <1>4 DEF Init
<1>6. /\ pc \in [Loops -> {"idle", "group", "read", "load", "upsert", "ack"}]
      /\ next \in [Loops -> Nat] /\ last \in [Loops -> Nat]
  BY DEF Init
<1>7. delivered \in 0..Len(stream) /\ pending \subseteq 1..delivered
  BY <1>3 DEF Init
<1>8. TypeOK BY <1>3, <1>5, <1>6, <1>7 DEF Init, TypeOK
<1> QED BY <1>2, <1>8 DEF Shape

\* The entry a working loop has in hand is an event of the stream.
LEMMA EntryInHand ==
  ASSUME Shape, NEW l \in Loops, Working(l)
  PROVE  /\ next[l] \in 1..Len(stream)
         /\ InHand(l) \in Event
         /\ next[l] \in pending
<1>1. next[l] \in 1..Len(stream) /\ next[l] \in pending
  BY DEF Shape, TypeOK, BatchOK
<1>2. stream \in Seq(Event) BY DEF Shape, TypeOK
<1> QED BY <1>1, <1>2 DEF InHand

LEMMA ShapeProcess ==
  ASSUME Shape, Start \/ Stop \/ Crash
  PROVE  Shape'
<1>1. CASE Start \/ Stop
  BY <1>1, LeaderboardAssumption
     DEF Start, Stop, Shape, TypeOK, Alone, BatchOK, Working, economy, consumer, loop
<1>2. CASE Crash
  <2>1. TypeOK'
    <3>1. 0 \in 0..MaxCommits BY LeaderboardAssumption
    <3>2. /\ pc' \in [Loops -> {"idle", "group", "read", "load", "upsert", "ack"}]
          /\ next' \in [Loops -> Nat] /\ last' \in [Loops -> Nat]
          /\ read' \in [Loops -> 0..MaxCommits]
      BY <1>2, <3>1 DEF Crash
    <3>3. owed' \subseteq Event /\ lost' \subseteq Event
      BY <1>2 DEF Crash, Shape, TypeOK
    <3>4. /\ booted' = FALSE /\ isRunning' = FALSE /\ loopInFlight' = FALSE
          /\ UNCHANGED <<profit, board, stream, group, delivered, pending>>
      BY <1>2 DEF Crash, consumer
    <3> QED BY <3>2, <3>3, <3>4 DEF Shape, TypeOK
  <2>2. \A l \in Loops : pc'[l] = "idle" BY <1>2 DEF Crash
  <2> QED BY <2>1, <2>2 DEF Shape, Alone, BatchOK, Working
<1> QED BY <1>1, <1>2

\* Two users' new totals and the events that go with them.
LEMMA Committed ==
  ASSUME Shape, NEW a \in Users, NEW b \in Users, NewTotals(a, b)
  PROVE  /\ profit' \in [Users -> 0..MaxCommits]
         /\ NewEvents(a, b) \subseteq Event
         /\ \A u \in Users : /\ profit[u] \in Nat /\ profit'[u] \in Nat
                             /\ profit[u] <= profit'[u]
         /\ \A u \in {a, b} : profit'[u] = profit[u] + 1
         /\ \A u \in Users : u \in {a, b} \/ profit'[u] = profit[u]
<1>1. profit' = [u \in Users |-> IF u \in {a, b} THEN profit[u] + 1 ELSE profit[u]]
  BY DEF NewTotals
<1>2. profit' \in [Users -> 0..MaxCommits]
  BY LeaderboardAssumption DEF NewTotals, Shape, TypeOK
<1>3. \A u \in {a, b} : profit[u] + 1 \in 1..MaxCommits
  BY LeaderboardAssumption DEF NewTotals, Shape, TypeOK
<1>4. NewEvents(a, b) \subseteq Event BY <1>3 DEF NewEvents, Event
<1>5. \A u \in Users : profit[u] \in Nat /\ profit'[u] \in Nat /\ profit[u] <= profit'[u]
  BY <1>1, LeaderboardAssumption DEF Shape, TypeOK
<1> QED BY <1>1, <1>2, <1>4, <1>5

LEMMA ShapeCommit ==
  ASSUME Shape, NEW a \in Users, NEW b \in Users,
         Commit(a, b) \/ CommitUnanswered(a, b)
  PROVE  Shape'
<1>1. NewTotals(a, b) BY DEF Commit, CommitUnanswered
<1>2. profit' \in [Users -> 0..MaxCommits] BY <1>1, Committed
<1>3. owed' \subseteq Event /\ lost' \subseteq Event
  BY <1>1, Committed DEF Commit, CommitUnanswered, Shape, TypeOK
<1>4. UNCHANGED <<board, stream, consumer, process, loop>>
  BY DEF Commit, CommitUnanswered
<1> QED
  BY <1>2, <1>3, <1>4
     DEF Shape, TypeOK, Alone, BatchOK, Working, consumer, process, loop

LEMMA ShapePublish ==
  ASSUME Shape, NEW o \in owed, Publish(o) \/ PublishFails(o)
  PROVE  Shape'
<1>1. o \in Event BY DEF Shape, TypeOK
<1>2. CASE Publish(o)
  <2>1. stream' \in Seq(Event) /\ Len(stream') = Len(stream) + 1
    BY <1>1, <1>2 DEF Publish, Shape, TypeOK
  <2> QED
    BY <1>2, <2>1
       DEF Publish, Shape, TypeOK, Alone, BatchOK, Working, consumer, process, loop
<1>3. CASE PublishFails(o)
  BY <1>1, <1>3
     DEF PublishFails, Shape, TypeOK, Alone, BatchOK, Working, consumer, process,
         loop, Event
<1> QED BY <1>2, <1>3

\* A loop that begins or ends, having changed nothing else that matters.
LEMMA ShapeTick ==
  ASSUME Shape, NEW l \in Loops, Tick(l)
  PROVE  Shape'
BY DEF Tick, Goto, Shape, TypeOK, Alone, BatchOK, Working, economy, consumer, process

LEMMA ShapeEnds ==
  ASSUME Shape, NEW l \in Loops, pc[l] # "idle", EndLoop(l)
  PROVE  /\ Alone' /\ \A k \in Loops : ~Working(k)'
         /\ loopInFlight' \in BOOLEAN
         /\ pc' \in [Loops -> {"idle", "group", "read", "load", "upsert", "ack"}]
         /\ next' \in [Loops -> Nat] /\ last' \in [Loops -> Nat]
         /\ read' \in [Loops -> 0..MaxCommits]
<1>1. \A k \in Loops : pc'[k] = "idle"
  BY DEF EndLoop, Goto, Shape, TypeOK, Alone
<1>2. Alone' /\ \A k \in Loops : ~Working(k)'
  BY <1>1 DEF Alone, Working
<1>3. loopInFlight' \in BOOLEAN BY DEF EndLoop
<1>4. pc' \in [Loops -> {"idle", "group", "read", "load", "upsert", "ack"}]
  BY DEF EndLoop, Goto, Shape, TypeOK
<1>5. next' \in [Loops -> Nat] /\ last' \in [Loops -> Nat]
  BY DEF EndLoop, Forget, Shape, TypeOK
<1>6. read' \in [Loops -> 0..MaxCommits]
  BY LeaderboardAssumption DEF EndLoop, Forget, Shape, TypeOK
<1> QED BY <1>2, <1>3, <1>4, <1>5, <1>6

LEMMA ShapeCreateGroup ==
  ASSUME Shape, NEW l \in Loops, CreateGroup(l)
  PROVE  Shape'
<1>1. delivered' \in 0..Len(stream) /\ delivered <= delivered'
  BY DEF CreateGroup, Shape, TypeOK
<1>2. lost' \subseteq Event
  <2>1. \A i \in 1..Len(stream) : stream[i] \in Event BY DEF Shape, TypeOK
  <2> QED BY <2>1 DEF CreateGroup, Shape, TypeOK
<1>3. pending' \subseteq 1..delivered'
  BY <1>1 DEF CreateGroup, Shape, TypeOK
<1>4. /\ Goto(l, "read") /\ pc[l] = "group" /\ group' \in BOOLEAN
      /\ UNCHANGED <<economy, board, stream, pending, process, loopInFlight, next, last, read>>
  BY DEF CreateGroup
<1> QED
  BY <1>1, <1>2, <1>3, <1>4
     DEF Goto, Shape, TypeOK, Alone, BatchOK, Working, economy, process

LEMMA Delivered ==
  ASSUME Shape, Deliver, delivered < Len(stream)
  PROVE  /\ LastRead \in (delivered + 1)..Len(stream)
         /\ delivered' = LastRead
         /\ pending' \subseteq 1..delivered'
         /\ pending \subseteq pending'
         /\ \A i \in (delivered + 1)..LastRead : i \in pending'
<1>1. LastRead \in (delivered + 1)..Len(stream)
  BY LeaderboardAssumption DEF LastRead, Shape, TypeOK
<1> QED BY <1>1 DEF Deliver, Shape, TypeOK

LEMMA ShapeRead ==
  ASSUME Shape, NEW l \in Loops, ReadEntries(l) \/ AnswerLost(l)
  PROVE  Shape'
<1>1. Deliver /\ delivered < Len(stream) /\ pc[l] = "read"
  BY DEF ReadEntries, AnswerLost
<1>2. UNCHANGED <<economy, board, stream, group, process, lost>>
  BY <1>1 DEF Deliver
<1>3. delivered' \in 0..Len(stream')
  BY <1>1, <1>2, Delivered DEF Shape, TypeOK
<1>4. CASE ReadEntries(l)
  <2>1. /\ next' = [next EXCEPT ![l] = delivered + 1]
        /\ last' = [last EXCEPT ![l] = LastRead]
        /\ pc' = [pc EXCEPT ![l] = "load"]
        /\ UNCHANGED <<loopInFlight, read>>
    BY <1>4 DEF ReadEntries, Goto
  <2>2. TypeOK'
    BY <1>1, <1>2, <1>3, <2>1, Delivered DEF Shape, TypeOK, economy, process
  <2>3. Alone' BY <1>1, <2>1 DEF Shape, TypeOK, Alone
  <2>4. \A k \in Loops : BatchOK(k)'
    <3>1. \A k \in Loops : k # l => ~Working(k)'
      BY <1>1, <2>1 DEF Shape, TypeOK, Alone, Working
    <3>2. BatchOK(l)'
      BY <1>1, <2>1, Delivered DEF Shape, TypeOK, BatchOK
    <3> QED BY <3>1, <3>2 DEF BatchOK
  <2> QED BY <2>2, <2>3, <2>4 DEF Shape
<1>5. CASE AnswerLost(l)
  <2>1. EndLoop(l) BY <1>5 DEF AnswerLost
  <2>2. TypeOK'
    BY <1>1, <1>2, <1>3, <2>1, Delivered, ShapeEnds DEF Shape, TypeOK, economy, process
  <2> QED BY <1>1, <2>1, <2>2, ShapeEnds DEF Shape, BatchOK
<1> QED BY <1>4, <1>5

LEMMA ShapeReturns ==
  ASSUME Shape, NEW l \in Loops, ReadNothing(l) \/ LoopFails(l)
  PROVE  Shape'
<1>1. /\ pc[l] # "idle" /\ EndLoop(l)
      /\ UNCHANGED <<economy, board, stream, consumer, process, lost>>
  BY DEF ReadNothing, LoopFails
<1>2. TypeOK' BY <1>1, ShapeEnds DEF Shape, TypeOK, economy, consumer, process
<1> QED BY <1>1, <1>2, ShapeEnds DEF Shape, BatchOK

LEMMA ShapeLoad ==
  ASSUME Shape, NEW l \in Loops, LoadTotals(l) \/ Upsert(l)
  PROVE  Shape'
<1>1. Working(l) BY DEF LoadTotals, Upsert, Working
<1>2. InHand(l) \in Event BY <1>1, EntryInHand
<1>3. CASE LoadTotals(l)
  <2>1. profit[InHand(l).user] \in 0..MaxCommits
    BY <1>2 DEF Shape, TypeOK, Event
  <2> QED
    BY <1>3, <2>1
       DEF LoadTotals, Goto, Shape, TypeOK, Alone, BatchOK, Working, economy,
           consumer, process
<1>4. CASE Upsert(l)
  <2>1. read[l] \in 0..MaxCommits BY DEF Shape, TypeOK
  <2> QED
    BY <1>4, <2>1
       DEF Upsert, Goto, Shape, TypeOK, Alone, BatchOK, Working, economy, consumer,
           process
<1> QED BY <1>3, <1>4

\* An acknowledgement or a failure takes at most the entry in hand from the
\* pending list, and what is left of the batch lies behind it.
LEMMA ShapeDone ==
  ASSUME Shape, NEW l \in Loops, Ack(l) \/ EntryFails(l)
  PROVE  Shape'
<1>1. /\ Working(l)
      /\ NextEntry(l)
      /\ pending \ {next[l]} \subseteq pending' /\ pending' \subseteq pending
      /\ UNCHANGED <<economy, board, stream, group, delivered, process>>
  BY DEF Ack, EntryFails, Working
<1>2. lost' \subseteq Event
  <2>1. InHand(l) \in Event BY <1>1, EntryInHand
  <2> QED BY <2>1 DEF Ack, EntryFails, Shape, TypeOK
<1>3. CASE next[l] < last[l]
  <2>1. /\ pc' = [pc EXCEPT ![l] = "load"]
        /\ next' = [next EXCEPT ![l] = next[l] + 1]
        /\ read' = [read EXCEPT ![l] = 0]
        /\ UNCHANGED <<loopInFlight, last>>
    BY <1>1, <1>3 DEF NextEntry, Goto, Shape, TypeOK
  <2>2. TypeOK'
    BY <1>1, <1>2, <2>1, LeaderboardAssumption DEF Shape, TypeOK, economy, process
  <2>3. Alone' BY <1>1, <2>1 DEF Shape, TypeOK, Alone, Working
  <2>4. \A k \in Loops : BatchOK(k)'
    <3>1. \A k \in Loops : k # l => ~Working(k)'
      BY <1>1, <2>1 DEF Shape, TypeOK, Alone, Working
    <3>2. next'[l] = next[l] + 1 /\ last'[l] = last[l] /\ delivered' = delivered
      BY <1>1, <2>1 DEF Shape, TypeOK
    <3>3. /\ next[l] \in Nat /\ last[l] \in Nat /\ last[l] <= delivered
          /\ \A i \in next[l]..last[l] : i \in pending
      BY <1>1 DEF Shape, TypeOK, BatchOK
    <3>4. \A i \in (next[l] + 1)..last[l] : i \in next[l]..last[l] /\ i # next[l]
      BY <3>3
    <3>5. \A i \in (next[l] + 1)..last[l] : i \in pending'
      BY <1>1, <3>3, <3>4
    <3>6. 1 <= next[l] + 1 /\ next[l] + 1 <= last[l]
      BY <1>3, <3>3
    <3>7. BatchOK(l)' BY <3>2, <3>3, <3>5, <3>6 DEF BatchOK
    <3> QED BY <3>1, <3>7 DEF BatchOK
  <2> QED BY <2>2, <2>3, <2>4 DEF Shape
<1>4. CASE ~(next[l] < last[l])
  <2>1. EndLoop(l) /\ pc[l] # "idle" BY <1>1, <1>4 DEF NextEntry, Working
  <2>2. TypeOK'
    BY <1>1, <1>2, <2>1, ShapeEnds DEF Shape, TypeOK, economy, process
  <2> QED BY <2>1, <2>2, ShapeEnds DEF Shape, BatchOK
<1> QED BY <1>3, <1>4

LEMMA ShapeStep == Shape /\ [Next]_vars => Shape'
<1> SUFFICES ASSUME Shape, [Next]_vars PROVE Shape' OBVIOUS
<1>1. CASE UNCHANGED vars
  BY <1>1 DEF vars, Shape, TypeOK, Alone, BatchOK, Working
<1> QED
  BY <1>1, ShapeProcess, ShapeCommit, ShapePublish, ShapeTick, ShapeCreateGroup,
     ShapeRead, ShapeReturns, ShapeLoad, ShapeDone DEF Next, LoopStep

\* Every variable keeps its type: no read of the group (streamReadGroup) ends
\* behind the stream, nothing is pending that was not delivered.
THEOREM LeaderboardTyped == Spec => []TypeOK
<1>1. Shape => TypeOK BY DEF Shape
<1> QED BY <1>1, ShapeInit, ShapeStep, PTL DEF Spec

-----------------------------------------------------------------------------
(* Contents: no event is forgotten, no row runs ahead or back.             *)

\* Totals read are no older than the commit the entry announces, nor than the
\* row, nor newer than the user's.
InHandOK(l) ==
  pc[l] \in {"upsert", "ack"} =>
    /\ InHand(l).version <= read[l]
    /\ read[l] <= profit[InHand(l).user]
    /\ board[InHand(l).user] <= read[l]
    /\ pc[l] = "ack" => board[InHand(l).user] = read[l]

Ahead ==
  /\ \A o \in owed : o.version <= profit[o.user]
  /\ \A i \in 1..Len(stream) : stream[i].version <= profit[stream[i].user]
  /\ \A u \in Users : board[u] <= profit[u]

Contents == Ahead /\ BoardFollows /\ \A l \in Loops : InHandOK(l)

LEMMA ContentsInit == Init => Contents
<1> SUFFICES ASSUME Init PROVE Contents OBVIOUS
<1>1. Ahead BY DEF Init, Ahead
<1>2. BoardFollows BY DEF Init, BoardFollows
<1>3. \A l \in Loops : InHandOK(l) BY DEF Init, InHandOK
<1> QED BY <1>1, <1>2, <1>3 DEF Contents

\* Rows follow the commits while no event is forgotten and no row goes back.
LEMMA FollowsKept ==
  ASSUME Shape, BoardFollows, profit' = profit,
         \A u \in Users : board'[u] \in Nat /\ board[u] <= board'[u],
         \A e \in Event : Outstanding(e) => Outstanding(e)'
  PROVE  BoardFollows'
<1>1. ASSUME NEW u \in Users, NEW v \in 1..profit[u]
      PROVE  v <= board'[u] \/ Outstanding([user |-> u, version |-> v])'
  <2>1. profit[u] \in 0..MaxCommits /\ board[u] \in Nat
    BY LeaderboardAssumption DEF Shape, TypeOK
  <2>2. v \in 1..MaxCommits BY <2>1, LeaderboardAssumption
  <2>3. [user |-> u, version |-> v] \in Event BY <2>2 DEF Event
  <2>4. v <= board[u] \/ Outstanding([user |-> u, version |-> v])
    BY DEF BoardFollows
  <2>5. CASE v <= board[u] BY <2>1, <2>2, <2>5
  <2>6. CASE Outstanding([user |-> u, version |-> v]) BY <2>3, <2>6
  <2> QED BY <2>4, <2>5, <2>6
<1> QED BY <1>1 DEF BoardFollows

\* An entry stays in hand while totals only grow.
LEMMA InHandKept ==
  ASSUME Shape, Contents, NEW l \in Loops,
         pc'[l] = pc[l], next'[l] = next[l], read'[l] = read[l], board' = board,
         \A i \in 1..Len(stream) : stream'[i] = stream[i],
         \A u \in Users : profit'[u] \in Nat /\ profit[u] <= profit'[u]
  PROVE  InHandOK(l)'
<1> SUFFICES ASSUME pc[l] \in {"upsert", "ack"} PROVE InHandOK(l)' BY DEF InHandOK
<1>1. Working(l) BY DEF Working
<1>2. next[l] \in 1..Len(stream) /\ InHand(l).user \in Users
  BY <1>1, EntryInHand DEF Event
<1>3. InHand(l)' = InHand(l) BY <1>2 DEF InHand
<1>4. InHandOK(l) BY DEF Contents
<1>5. PICK u \in Users : u = InHand(l).user BY <1>2
<1>6. read[l] <= profit[u] BY <1>4, <1>5 DEF InHandOK
<1>7. profit[u] \in Nat /\ read[l] \in Nat
  BY LeaderboardAssumption DEF Shape, TypeOK
<1>8. read[l] <= profit'[u] BY <1>6, <1>7
<1>9. u = InHand(l)'.user BY <1>3, <1>5
<1> QED BY <1>3, <1>4, <1>5, <1>8, <1>9 DEF InHandOK

\* Steps that change neither the totals nor the rows and forget nothing.
LEMMA ContentsKept ==
  ASSUME Shape, Contents,
         UNCHANGED <<profit, board, owed, stream, delivered>>,
         pending \subseteq pending', lost \subseteq lost',
         \A l \in Loops : \/ pc'[l] \notin {"upsert", "ack"}
                          \/ pc'[l] = pc[l] /\ next'[l] = next[l] /\ read'[l] = read[l]
  PROVE  Contents'
<1>1. Ahead' BY DEF Contents, Ahead
<1>2. \A u \in Users : /\ profit[u] \in Nat /\ profit'[u] = profit[u]
                       /\ board[u] \in Nat /\ board'[u] = board[u]
  BY LeaderboardAssumption DEF Shape, TypeOK
<1>3. \A e \in Event : Outstanding(e) => Outstanding(e)' BY DEF Outstanding
<1>4. BoardFollows' BY <1>2, <1>3, FollowsKept DEF Contents
<1>5. ASSUME NEW l \in Loops PROVE InHandOK(l)'
  <2>1. CASE pc'[l] \notin {"upsert", "ack"} BY <2>1 DEF InHandOK
  <2>2. CASE pc'[l] \in {"upsert", "ack"} BY <1>2, <2>2, InHandKept
  <2> QED BY <2>1, <2>2
<1> QED BY <1>1, <1>4, <1>5 DEF Contents

\* The steps of a loop that reads nothing.
LEMMA ContentsQuiet ==
  ASSUME Shape, Contents, NEW l \in Loops,
         Tick(l) \/ ReadNothing(l) \/ LoopFails(l)
  PROVE  Contents'
<1>1. UNCHANGED <<profit, board, owed, stream, delivered, pending, lost>>
  BY DEF Tick, ReadNothing, LoopFails, economy, consumer
<1>2. CASE Tick(l)
  BY <1>1, <1>2, ContentsKept DEF Tick, Goto, Shape, TypeOK
<1>3. CASE ReadNothing(l) \/ LoopFails(l)
  BY <1>1, <1>3, ContentsKept
     DEF ReadNothing, LoopFails, EndLoop, Forget, Goto, Shape, TypeOK
<1> QED BY <1>2, <1>3

LEMMA ContentsCrash ==
  ASSUME Shape, Contents, Crash
  PROVE  Contents'
<1>1. Ahead' BY DEF Crash, Contents, Ahead
<1>2. BoardFollows'
  BY DEF Crash, Contents, BoardFollows, Outstanding, consumer
<1>3. \A l \in Loops : InHandOK(l)' BY DEF Crash, InHandOK
<1> QED BY <1>1, <1>2, <1>3 DEF Contents

\* New totals come with the events that announce them.
LEMMA ContentsCommit ==
  ASSUME Shape, Contents, NEW a \in Users, NEW b \in Users,
         Commit(a, b) \/ CommitUnanswered(a, b)
  PROVE  Contents'
<1>1. NewTotals(a, b) BY DEF Commit, CommitUnanswered
<1>2. /\ UNCHANGED <<board, stream, delivered, pending, pc, next, read>>
      /\ owed \subseteq owed' /\ owed' \subseteq owed \cup NewEvents(a, b)
      /\ lost \subseteq lost'
      /\ NewEvents(a, b) \subseteq owed' \cup lost'
  BY DEF Commit, CommitUnanswered, consumer, loop
<1>3. /\ \A u \in Users : profit[u] \in Nat /\ profit'[u] \in Nat /\ profit[u] <= profit'[u]
      /\ \A u \in {a, b} : profit'[u] = profit[u] + 1
      /\ \A u \in Users : u \in {a, b} \/ profit'[u] = profit[u]
  BY <1>1, Committed
<1>4. Ahead'
  <2>1. \A o \in owed' : o.version <= profit'[o.user]
    <3>1. \A o \in owed : o.version \in Nat /\ o.user \in Users
      BY LeaderboardAssumption DEF Shape, TypeOK, Event
    <3>2. \A o \in owed : o.version <= profit'[o.user]
      BY <1>3, <3>1 DEF Contents, Ahead
    <3>3. \A o \in NewEvents(a, b) : o.version <= profit'[o.user]
      BY <1>3 DEF NewEvents
    <3> QED BY <1>2, <3>2, <3>3
  <2>2. \A i \in 1..Len(stream) : stream[i].version <= profit'[stream[i].user]
    <3>1. \A i \in 1..Len(stream) : stream[i] \in Event BY DEF Shape, TypeOK
    <3>2. \A i \in 1..Len(stream) : stream[i].version \in Nat /\ stream[i].user \in Users
      BY <3>1, LeaderboardAssumption DEF Event
    <3> QED BY <1>3, <3>2 DEF Contents, Ahead
  <2>3. \A u \in Users : board[u] <= profit'[u]
    BY <1>3, LeaderboardAssumption DEF Contents, Ahead, Shape, TypeOK
  <2> QED BY <1>2, <2>1, <2>2, <2>3 DEF Ahead
<1>5. BoardFollows'
  <2>1. ASSUME NEW u \in Users, NEW v \in 1..profit'[u]
        PROVE  v <= board'[u] \/ Outstanding([user |-> u, version |-> v])'
    <3>1. CASE v \in 1..profit[u]
      BY <1>2, <3>1 DEF Contents, BoardFollows, Outstanding
    <3>2. CASE v \notin 1..profit[u]
      <4>1. u \in {a, b} /\ v = profit[u] + 1 BY <1>3, <3>2
      <4>2. [user |-> u, version |-> v] \in NewEvents(a, b) BY <4>1 DEF NewEvents
      <4> QED BY <1>2, <4>2 DEF Outstanding
    <3> QED BY <3>1, <3>2
  <2> QED BY <2>1 DEF BoardFollows
<1>6. \A l \in Loops : InHandOK(l)' BY <1>2, <1>3, InHandKept
<1> QED BY <1>4, <1>5, <1>6 DEF Contents

\* An event that leaves the process is in the stream, behind the group.
LEMMA ContentsPublish ==
  ASSUME Shape, Contents, NEW o \in owed, Publish(o) \/ PublishFails(o)
  PROVE  Contents'
<1>1. o \in Event /\ stream \in Seq(Event) BY DEF Shape, TypeOK
<1>2. /\ owed' = owed \ {o}
      /\ UNCHANGED <<profit, board, delivered, pending, pc, next, read>>
  BY DEF Publish, PublishFails, consumer, loop
<1>3. /\ \A i \in 1..Len(stream) : i \in 1..Len(stream') /\ stream'[i] = stream[i]
      /\ \A i \in 1..Len(stream') : i \in 1..Len(stream) \/ stream'[i] = o
      /\ lost \subseteq lost'
      /\ \/ o \in lost'
         \/ Len(stream) + 1 \in 1..Len(stream') /\ stream'[Len(stream) + 1] = o
  <2>1. CASE Publish(o)
    <3>1. stream' = Append(stream, o) /\ lost' = lost BY <2>1 DEF Publish
    <3> QED BY <1>1, <3>1
  <2>2. CASE PublishFails(o)
    BY <1>1, <2>2 DEF PublishFails
  <2> QED BY <2>1, <2>2
<1>4. delivered \in 0..Len(stream) /\ pending \subseteq 1..delivered
  BY DEF Shape, TypeOK
<1>5. Len(stream) \in Nat /\ Len(stream') \in Nat
  <2>1. stream' \in Seq(Event) BY <1>1 DEF Publish, PublishFails
  <2> QED BY <1>1, <2>1
<1>6. ASSUME NEW e \in Event, Outstanding(e) PROVE Outstanding(e)'
  <2>1. \A i \in pending : stream'[i] = stream[i]
    BY <1>3, <1>4, <1>5
  <2>2. \A i \in (delivered + 1)..Len(stream) :
          i \in (delivered' + 1)..Len(stream') /\ stream'[i] = stream[i]
    BY <1>2, <1>3, <1>4, <1>5
  <2>3. o = e => e \in lost' \/ \E i \in (delivered' + 1)..Len(stream') : stream'[i] = e
    BY <1>2, <1>3, <1>4, <1>5
  <2> QED BY <1>2, <1>3, <1>6, <2>1, <2>2, <2>3 DEF Outstanding
<1>7. Ahead'
  BY <1>2, <1>3 DEF Contents, Ahead
<1>8. \A u \in Users : /\ profit[u] \in Nat /\ profit'[u] = profit[u]
                       /\ board[u] \in Nat /\ board'[u] = board[u]
  BY <1>2, LeaderboardAssumption DEF Shape, TypeOK
<1>9. BoardFollows' BY <1>2, <1>6, <1>8, FollowsKept DEF Contents
<1>10. \A l \in Loops : InHandOK(l)' BY <1>2, <1>3, <1>8, InHandKept
<1> QED BY <1>7, <1>9, <1>10 DEF Contents

\* What a new group skips is lost; no loop has an entry in hand.
LEMMA ContentsCreateGroup ==
  ASSUME Shape, Contents, NEW l \in Loops, CreateGroup(l)
  PROVE  Contents'
<1>1. /\ UNCHANGED <<profit, board, owed, stream, pending>>
      /\ pc[l] = "group" /\ pc' = [pc EXCEPT ![l] = "read"]
  BY DEF CreateGroup, Goto, economy
<1>2. Ahead' BY <1>1 DEF Contents, Ahead
<1>3. ASSUME NEW e \in Event, Outstanding(e) PROVE Outstanding(e)'
  <2>1. CASE group
    BY <1>1, <1>3, <2>1 DEF CreateGroup, Outstanding
  <2>2. CASE ~group
    <3>1. delivered \in 0..Len(stream) BY DEF Shape, TypeOK
    <3>2. lost' = lost \cup {stream[i] : i \in 1..Len(stream)}
      BY <2>2 DEF CreateGroup
    <3>3. \A i \in (delivered + 1)..Len(stream) : i \in 1..Len(stream) BY <3>1
    <3> QED BY <1>1, <1>3, <3>2, <3>3 DEF Outstanding
  <2> QED BY <2>1, <2>2
<1>4. \A u \in Users : board[u] \in Nat /\ board'[u] = board[u]
  BY <1>1, LeaderboardAssumption DEF Shape, TypeOK
<1>5. BoardFollows' BY <1>1, <1>3, <1>4, FollowsKept DEF Contents
<1>6. \A k \in Loops : pc'[k] \notin {"upsert", "ack"}
  BY <1>1 DEF Shape, TypeOK, Alone
<1>7. \A k \in Loops : InHandOK(k)' BY <1>6 DEF InHandOK
<1> QED BY <1>2, <1>5, <1>7 DEF Contents

\* A read moves entries from the stream to the pending list.
LEMMA ContentsRead ==
  ASSUME Shape, Contents, NEW l \in Loops, ReadEntries(l) \/ AnswerLost(l)
  PROVE  Contents'
<1>1. Deliver /\ delivered < Len(stream) /\ pc[l] = "read"
  BY DEF ReadEntries, AnswerLost
<1>2. UNCHANGED <<profit, board, owed, stream, lost>> BY <1>1 DEF Deliver, economy
<1>3. Ahead' BY <1>2 DEF Contents, Ahead
<1>4. ASSUME NEW e \in Event, Outstanding(e) PROVE Outstanding(e)'
  <2>1. \A i \in (delivered + 1)..Len(stream) :
          i \in pending' \/ i \in (delivered' + 1)..Len(stream)
    BY <1>1, Delivered DEF Shape, TypeOK
  <2>2. pending \subseteq pending' BY <1>1, Delivered
  <2> QED BY <1>2, <1>4, <2>1, <2>2 DEF Outstanding
<1>5. \A u \in Users : board[u] \in Nat /\ board'[u] = board[u]
  BY <1>2, LeaderboardAssumption DEF Shape, TypeOK
<1>6. BoardFollows' BY <1>2, <1>4, <1>5, FollowsKept DEF Contents
<1>7. \A k \in Loops : pc'[k] \notin {"upsert", "ack"}
  BY <1>1 DEF ReadEntries, AnswerLost, EndLoop, Goto, Shape, TypeOK, Alone
<1>8. \A k \in Loops : InHandOK(k)' BY <1>7 DEF InHandOK
<1> QED BY <1>3, <1>6, <1>8 DEF Contents

\* The totals read are the user's of this moment.
LEMMA ContentsLoad ==
  ASSUME Shape, Contents, NEW l \in Loops, LoadTotals(l)
  PROVE  Contents'
<1>1. /\ pc[l] = "load" /\ pc' = [pc EXCEPT ![l] = "upsert"]
      /\ read' = [read EXCEPT ![l] = profit[InHand(l).user]]
      /\ UNCHANGED <<profit, board, owed, stream, delivered, pending, next, lost>>
  BY DEF LoadTotals, Goto, economy, consumer
<1>2. Ahead' BY <1>1 DEF Contents, Ahead
<1>3. BoardFollows' BY <1>1 DEF Contents, BoardFollows, Outstanding
<1>4. \A k \in Loops : k # l => pc'[k] \notin {"upsert", "ack"}
  BY <1>1 DEF Shape, TypeOK, Alone
<1>5. InHandOK(l)'
  <2>1. Working(l) BY <1>1 DEF Working
  <2>2. InHand(l).user \in Users /\ next[l] \in 1..Len(stream)
    BY <2>1, EntryInHand DEF Event
  <2>3. InHand(l)' = InHand(l) BY <1>1 DEF InHand
  <2>4. InHand(l).version <= profit[InHand(l).user]
    BY <2>2 DEF Contents, Ahead, InHand
  <2>5. board[InHand(l).user] <= profit[InHand(l).user]
    BY <2>2 DEF Contents, Ahead
  <2>6. read'[l] = profit[InHand(l).user] /\ pc'[l] = "upsert"
    BY <1>1 DEF Shape, TypeOK
  <2>7. profit[InHand(l).user] \in Nat
    BY <2>2, LeaderboardAssumption DEF Shape, TypeOK
  <2> QED BY <1>1, <2>3, <2>4, <2>5, <2>6, <2>7 DEF InHandOK
<1>6. \A k \in Loops : InHandOK(k)' BY <1>4, <1>5 DEF InHandOK
<1> QED BY <1>2, <1>3, <1>6 DEF Contents

\* The row rises to the totals in hand.
LEMMA ContentsUpsert ==
  ASSUME Shape, Contents, NEW l \in Loops, Upsert(l)
  PROVE  Contents' /\ \A u \in Users : board'[u] >= board[u]
<1>1. /\ pc[l] = "upsert" /\ pc' = [pc EXCEPT ![l] = "ack"]
      /\ board' = [board EXCEPT ![InHand(l).user] = read[l]]
      /\ UNCHANGED <<profit, owed, stream, delivered, pending, next, read, lost>>
  BY DEF Upsert, Goto, economy, consumer
<1>2. Working(l) BY <1>1 DEF Working
<1>3. PICK u \in Users : u = InHand(l).user BY <1>2, EntryInHand DEF Event
<1>4. InHand(l).version <= read[l] /\ read[l] <= profit[u] /\ board[u] <= read[l]
  BY <1>1, <1>3 DEF Contents, InHandOK
<1>5. board'[u] = read[l] /\ \A v \in Users : v # u => board'[v] = board[v]
  BY <1>1, <1>3 DEF Shape, TypeOK
<1>6. Ahead' BY <1>1, <1>4, <1>5 DEF Contents, Ahead
<1>7. \A v \in Users : board'[v] \in Nat /\ board[v] <= board'[v] /\ board'[v] >= board[v]
  <2>1. \A v \in Users : board[v] \in Nat BY LeaderboardAssumption DEF Shape, TypeOK
  <2>2. read[l] \in Nat BY LeaderboardAssumption DEF Shape, TypeOK
  <2>3. board'[u] \in Nat /\ board[u] <= board'[u] /\ board'[u] >= board[u]
    BY <1>4, <1>5, <2>1, <2>2
  <2>4. ASSUME NEW v \in Users, v # u
        PROVE  board'[v] \in Nat /\ board[v] <= board'[v] /\ board'[v] >= board[v]
    BY <1>5, <2>1, <2>4
  <2> QED BY <2>3, <2>4
<1>8. \A e \in Event : Outstanding(e) => Outstanding(e)'
  BY <1>1 DEF Outstanding
<1>9. BoardFollows' BY <1>1, <1>7, <1>8, FollowsKept DEF Contents
<1>10. \A k \in Loops : k # l => pc'[k] \notin {"upsert", "ack"}
  BY <1>1 DEF Shape, TypeOK, Alone
<1>11. InHandOK(l)'
  <2>1. InHand(l)' = InHand(l) /\ u = InHand(l)'.user /\ read'[l] = read[l]
    BY <1>1, <1>3 DEF InHand
  <2>2. board'[u] = read[l] /\ read[l] \in Nat
    BY <1>5, LeaderboardAssumption DEF Shape, TypeOK
  <2> QED BY <1>1, <1>4, <2>1, <2>2 DEF InHandOK
<1>12. \A k \in Loops : InHandOK(k)' BY <1>10, <1>11 DEF InHandOK
<1> QED BY <1>6, <1>7, <1>9, <1>12 DEF Contents

\* An entry that leaves the pending list is shown, or goes to the dead letters.
LEMMA ContentsDone ==
  ASSUME Shape, Contents, NEW l \in Loops, Ack(l) \/ EntryFails(l)
  PROVE  /\ Contents'
         /\ \A i \in pending \ pending' :
              stream[i].version <= board[stream[i].user] \/ RetryCount >= MaxRetries
<1>1. /\ Working(l) /\ NextEntry(l)
      /\ UNCHANGED <<profit, board, owed, stream, delivered>>
  BY DEF Ack, EntryFails, Working, economy
<1>2. PICK e \in Event, n \in 1..Len(stream) : e = InHand(l) /\ n = next[l]
  BY <1>1, EntryInHand
<1>3. stream[n] = e /\ n \in pending
  BY <1>1, <1>2, EntryInHand DEF InHand
<1>4. /\ lost \subseteq lost'
      /\ \A i \in pending : i # n => i \in pending'
      /\ \/ n \in pending'
         \/ e \in lost' /\ RetryCount >= MaxRetries
         \/ pc[l] = "ack"
  <2>1. CASE Ack(l)
    <3>1. pending' = pending \ {n} /\ lost' = lost /\ pc[l] = "ack"
      BY <1>2, <2>1 DEF Ack
    <3> QED BY <3>1
  <2>2. CASE EntryFails(l) /\ RetryCount >= MaxRetries
    <3>1. pending' = pending \ {n} /\ lost' = lost \cup {e}
      BY <1>2, <2>2 DEF EntryFails
    <3> QED BY <2>2, <3>1
  <2>3. CASE EntryFails(l) /\ ~(RetryCount >= MaxRetries)
    <3>1. pending' = pending /\ lost' = lost BY <2>3 DEF EntryFails
    <3> QED BY <1>3, <3>1
  <2> QED BY <2>1, <2>2, <2>3
<1>5. pc[l] = "ack" => e.version <= board[e.user]
  <2>1. InHandOK(l) BY DEF Contents
  <2> QED BY <1>2, <2>1 DEF InHandOK
<1>6. Ahead' BY <1>1 DEF Contents, Ahead
<1>7. \A f \in Event : f # e => (Outstanding(f) => Outstanding(f)')
  BY <1>1, <1>3, <1>4 DEF Outstanding
<1>8. e.version <= board[e.user] \/ Outstanding(e)'
  <2>1. CASE n \in pending' BY <1>1, <1>3, <2>1 DEF Outstanding
  <2>2. CASE e \in lost' BY <2>2 DEF Outstanding
  <2> QED BY <1>4, <1>5, <2>1, <2>2
<1>9. BoardFollows'
  <2>1. ASSUME NEW u \in Users, NEW v \in 1..profit'[u]
        PROVE  v <= board'[u] \/ Outstanding([user |-> u, version |-> v])'
    <3>1. [user |-> u, version |-> v] \in Event
      <4>1. profit[u] \in 0..MaxCommits BY DEF Shape, TypeOK
      <4>2. v \in 1..MaxCommits BY <1>1, <4>1, LeaderboardAssumption
      <4> QED BY <4>2 DEF Event
    <3>2. PICK f \in Event : f = [user |-> u, version |-> v] BY <3>1
    <3>3. v <= board[u] \/ Outstanding(f)
      BY <1>1, <3>2 DEF Contents, BoardFollows
    <3>4. f.version = v /\ f.user = u BY <3>2
    <3>5. v <= board'[u] \/ Outstanding(f)'
      <4>1. CASE f = e BY <1>1, <1>8, <3>4, <4>1
      <4>2. CASE f # e BY <1>1, <1>7, <3>3, <4>2
      <4> QED BY <4>1, <4>2
    <3> QED BY <3>2, <3>5
  <2> QED BY <2>1 DEF BoardFollows
<1>10. \A k \in Loops : pc'[k] \notin {"upsert", "ack"}
  BY <1>1 DEF NextEntry, EndLoop, Goto, Working, Shape, TypeOK, Alone
<1>11. \A k \in Loops : InHandOK(k)' BY <1>10 DEF InHandOK
<1>12. \A i \in pending \ pending' :
         stream[i].version <= board[stream[i].user] \/ RetryCount >= MaxRetries
  BY <1>3, <1>4, <1>5
<1> QED BY <1>6, <1>9, <1>11, <1>12 DEF Contents

LEMMA ContentsStep == Shape /\ Contents /\ [Next]_vars => Contents'
<1> SUFFICES ASSUME Shape, Contents, [Next]_vars PROVE Contents' OBVIOUS
<1>1. CASE UNCHANGED vars \/ Start \/ Stop
  <2>1. /\ UNCHANGED <<profit, board, owed, stream, delivered, pending, lost>>
        /\ UNCHANGED <<pc, next, read>>
    BY <1>1 DEF vars, Start, Stop, economy, consumer, loop
  <2> QED BY <2>1, ContentsKept
<1> QED
  BY <1>1, ContentsQuiet, ContentsCrash, ContentsCommit, ContentsPublish,
     ContentsCreateGroup, ContentsRead, ContentsLoad, ContentsUpsert, ContentsDone
     DEF Next, LoopStep

\* A row that does not show a commit has that commit's event on its way or
\* known to be lost, however commits, reads, upserts, failures and crashes
\* interleave (LeaderboardService.processUpdate, the loop and its XACK).
THEOREM BoardCorrect == Spec => []BoardFollows
<1>1. Contents => BoardFollows BY DEF Contents
<1> QED
  BY <1>1, ShapeInit, ShapeStep, ContentsInit, ContentsStep, PTL DEF Spec

\* The upsert is the only write of the rows, and it has fresh totals in hand.
LEMMA NoStepBack ==
  Shape /\ Contents /\ [Next]_vars => [\A u \in Users : board'[u] >= board[u]]_vars
<1> SUFFICES ASSUME Shape, Contents, [Next]_vars, vars' # vars
             PROVE  \A u \in Users : board'[u] >= board[u]
  OBVIOUS
<1>1. ASSUME NEW l \in Loops, Upsert(l) PROVE \A u \in Users : board'[u] >= board[u]
  BY <1>1, ContentsUpsert
<1>2. (\E l \in Loops : Upsert(l)) \/ board' = board
  BY DEF Next, LoopStep, Start, Stop, Crash, Commit, CommitUnanswered, Publish,
         PublishFails, Tick, CreateGroup, ReadEntries, ReadNothing, LoopFails, AnswerLost, Deliver,
         LoadTotals, Ack, EntryFails
<1>3. \A u \in Users : board[u] \in Nat BY LeaderboardAssumption DEF Shape, TypeOK
<1> QED BY <1>1, <1>2, <1>3

\* A row never shows older totals than before: upserts of processUpdate do not
\* overtake one another, for loopInFlight lets one loop in at a time.
THEOREM NeverBack == Spec => BoardNeverGoesBack
BY NoStepBack, ShapeInit, ShapeStep, ContentsInit, ContentsStep, PTL
   DEF Spec, BoardNeverGoesBack

\* What takes an entry from the pending list.
LEMMA AckStep ==
  Shape /\ Contents /\ [Next]_vars =>
    [\A i \in pending \ pending' :
       stream[i].version <= board[stream[i].user] \/ RetryCount >= MaxRetries]_vars
<1> SUFFICES ASSUME Shape, Contents, [Next]_vars, vars' # vars
             PROVE  \A i \in pending \ pending' :
                      stream[i].version <= board[stream[i].user]
                        \/ RetryCount >= MaxRetries
  OBVIOUS
<1>1. (\E l \in Loops : Ack(l) \/ EntryFails(l)) \/ pending \subseteq pending'
  BY DEF Next, LoopStep, Start, Stop, Crash, Commit, CommitUnanswered, Publish,
         PublishFails, Tick, CreateGroup, ReadEntries, ReadNothing, LoopFails, AnswerLost, Deliver,
         LoadTotals, Upsert, consumer
<1> QED BY <1>1, ContentsDone

\* XACK comes after an upsert that shows what the entry announced, or after a
\* move to the dead letters, whose condition no count ever meets at the
\* configured limit of 3.
THEOREM AcksAreTrue == Spec => AckedIsShown
BY AckStep, ShapeInit, ShapeStep, ContentsInit, ContentsStep, PTL
   DEF Spec, AckedIsShown
=============================================================================
