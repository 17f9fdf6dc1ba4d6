---------------------------- MODULE MusicProofs ----------------------------
(***************************************************************************)
(* Theorems about the music of a guild: the player, for every number of    *)
(* songs, of calls on their way, of commands and of failures, and the      *)
(* stream of the queue's events, for every number of events and failures.  *)
(***************************************************************************)
EXTENDS MusicPlayer, MusicStream, TLAPS, FiniteSetTheorems

-----------------------------------------------------------------------------
(* The queue in memory.                                                    *)

LEMMA NoSongNoPlayer == NoSong \notin Songs /\ NoPlayer \notin Players
BY MusicQueueAssumption, MusicPlayerAssumption DEF NoPlayer

\* What dequeue answers is a song unless it answers none, and no song is
\* gone but the one it answers.
LEMMA DequeuedIs ==
  ASSUME songs \in Seq(Songs), currentSong \in Songs \cup {NoSong}, loopMode \in LoopModes
  PROVE  /\ Dequeued.song \in Songs \cup {NoSong} /\ Dequeued.rest \in Seq(Songs)
         /\ songs # <<>> => Dequeued.song # NoSong
         /\ \A i \in DOMAIN songs :
              \/ songs[i] = Dequeued.song
              \/ \E j \in DOMAIN Dequeued.rest : Dequeued.rest[j] = songs[i]
         /\ Dequeued.song = NoSong => Dequeued.rest = songs
         /\ loopMode = "none" =>
              IF songs = <<>> THEN Dequeued.song = NoSong
              ELSE Dequeued.song = Head(songs) /\ Dequeued.rest = Tail(songs)
<1>1. CASE songs = <<>>
  <2>1. Dequeued = [song |-> IF loopMode = "song" THEN currentSong ELSE NoSong, rest |-> songs]
    BY <1>1 DEF Dequeued
  <2> QED BY <1>1, <2>1
<1>2. CASE songs # <<>> /\ loopMode = "song"
  <2>1. Dequeued = [song |-> IF currentSong # NoSong THEN currentSong ELSE Head(songs),
                    rest |-> songs]
    BY <1>2 DEF Dequeued
  <2>2. Head(songs) \in Songs BY <1>2
  <2> QED BY <1>2, <2>1, <2>2, NoSongNoPlayer
<1>3. CASE songs # <<>> /\ loopMode = "queue"
  <2>1. Dequeued = [song |-> Head(songs), rest |-> Append(Tail(songs), Head(songs))]
    BY <1>3 DEF Dequeued
  <2>2. Head(songs) \in Songs /\ Append(Tail(songs), Head(songs)) \in Seq(Songs) BY <1>3
  <2>3. ASSUME NEW i \in DOMAIN songs, i # 1
        PROVE  \E j \in DOMAIN Append(Tail(songs), Head(songs)) :
                 Append(Tail(songs), Head(songs))[j] = songs[i]
    <3>1. i - 1 \in DOMAIN Append(Tail(songs), Head(songs)) BY <1>3, <2>3
    <3>2. Append(Tail(songs), Head(songs))[i - 1] = songs[i] BY <1>3, <2>3
    <3> QED BY <3>1, <3>2
  <2> QED BY <1>3, <2>1, <2>2, <2>3, NoSongNoPlayer
<1>4. CASE songs # <<>> /\ loopMode = "none"
  <2>1. Dequeued = [song |-> Head(songs), rest |-> Tail(songs)]
    BY <1>4 DEF Dequeued
  <2>2. Head(songs) \in Songs /\ Tail(songs) \in Seq(Songs) BY <1>4
  <2>3. ASSUME NEW i \in DOMAIN songs, i # 1
        PROVE  \E j \in DOMAIN Tail(songs) : Tail(songs)[j] = songs[i]
    <3>1. i - 1 \in DOMAIN Tail(songs) /\ Tail(songs)[i - 1] = songs[i] BY <1>4, <2>3
    <3> QED BY <3>1
  <2> QED BY <1>4, <2>1, <2>2, <2>3, NoSongNoPlayer
<1> QED BY <1>1, <1>2, <1>3, <1>4 DEF LoopModes

LEMMA SplicedIs ==
  ASSUME songs \in Seq(Songs), NEW n \in 1..(Len(songs) - 1)
  PROVE  /\ Spliced(n) \in Seq(Songs) /\ Len(Spliced(n)) = Len(songs) - 1
         /\ \A i \in DOMAIN songs : i <= n => Spliced(n)[i] = songs[i]
         /\ \A i \in DOMAIN songs : i > n + 1 => Spliced(n)[i - 1] = songs[i]
         /\ \A j \in DOMAIN Spliced(n) :
              Spliced(n)[j] = IF j <= n THEN songs[j] ELSE songs[j + 1]
<1> DEFINE m == Len(songs) - 1
<1>1. m \in Nat OBVIOUS
<1>2. Spliced(n) = [i \in 1..m |-> IF i <= n THEN songs[i] ELSE songs[i + 1]] BY DEF Spliced
<1>3. \A i \in 1..m : (IF i <= n THEN songs[i] ELSE songs[i + 1]) \in Songs OBVIOUS
<1>4. Spliced(n) \in Seq(Songs) /\ Len(Spliced(n)) = m /\ DOMAIN Spliced(n) = 1..m
  BY <1>1, <1>2, <1>3
<1> QED BY <1>1, <1>2, <1>4

-----------------------------------------------------------------------------
(* Types.                                                                  *)

\* A call on its way has the song it is about.
Carries(r) ==
  /\ r.pc \in {"fetching", "adding", "creating"} => r.song \in Songs
  /\ r.pc = "removing" => IF r.kind = "write" THEN r.song = NoSong ELSE r.song \in Songs
  /\ r.pc = "fetching" => r.kind # "write"

TypeInv ==
  /\ TypeOK
  /\ IsFiniteSet(rows)
  /\ \A t \in Tasks : Carries(task[t])

LEMMA TaskFields ==
  ASSUME NEW r \in TaskRecord
  PROVE  /\ \A k \in {"none", "play", "skip", "idle", "join", "write", "rewrite"} :
              [r EXCEPT !.kind = k] \in TaskRecord
         /\ \A q \in {"free", "joining", "resolving", "adding", "creating", "removing", "fetching",
                       "clearing", "done"} : [r EXCEPT !.pc = q] \in TaskRecord
         /\ \A p \in Players \cup {NoPlayer} : [r EXCEPT !.session = p] \in TaskRecord
         /\ \A b \in BOOLEAN : [r EXCEPT !.go = b] \in TaskRecord
         /\ \A s \in Songs \cup {NoSong} : [r EXCEPT !.song = s] \in TaskRecord
         /\ \A n \in Nat : [r EXCEPT !.position = n] \in TaskRecord /\ [r EXCEPT !.index = n] \in TaskRecord
BY DEF TaskRecord

LEMMA FinishedIs ==
  /\ Idle \in TaskRecord
  /\ \A t : /\ Finished(t) \in TaskRecord
            /\ Finished(t).pc = IF t \in Slots THEN "free" ELSE "done"
BY DEF Idle, TaskRecord, Finished, NoPlayer

LEMMA TypesInit == Init => TypeInv
<1> SUFFICES ASSUME Init PROVE TypeInv OBVIOUS
<1>1. task \in [Tasks -> TaskRecord] BY FinishedIs DEF Init
<1>2. \A t \in Tasks : Carries(task[t]) BY DEF Init, Carries, Idle
<1>3. /\ songs \in Seq(Songs) /\ loopMode \in LoopModes /\ isPlaying \in BOOLEAN
      /\ currentSong \in Songs \cup {NoSong} /\ rowLock \in Tasks \cup {NoSong}
      /\ rows \subseteq Rows /\ IsFiniteSet(rows)
  <2>1. songs = <<>> /\ loopMode = "none" /\ isPlaying = FALSE /\ currentSong = NoSong
          /\ rowLock = NoSong /\ rows = {}
    BY DEF Init, MusicQueueInit
  <2>2. IsFiniteSet(rows) BY <2>1, FS_EmptySet
  <2>3. songs \in Seq(Songs) BY <2>1
  <2>4. isPlaying \in BOOLEAN BY <2>1
  <2>5. loopMode \in LoopModes BY <2>1 DEF LoopModes
  <2>6. rows \subseteq Rows BY <2>1
  <2> QED BY <2>1, <2>2, <2>3, <2>4, <2>5, <2>6
<1>4. /\ session \in Players \cup {NoPlayer} /\ joined \subseteq Players
      /\ player \in [player : Players \cup {NoPlayer}, song : Songs \cup {NoSong},
                     playing : BOOLEAN, paused : BOOLEAN]
      /\ listening \in BOOLEAN
      /\ audio \in [Players -> [song : Songs \cup {NoSong},
                                status : {"idle", "buffering", "playing", "paused",
                                          "autopaused", "stopping"}]]
  BY DEF Init, NothingLoaded, Silent
<1>5. /\ commands \in 0..MaxCommands /\ faults \in 0..MaxFaults
      /\ {accepted, started, dropped, replayed} \subseteq SUBSET Songs
      /\ looped \in BOOLEAN
  <2>1. /\ commands = 0 /\ faults = 0 /\ looped = FALSE
        /\ accepted = {} /\ started = {} /\ dropped = {} /\ replayed = {}
    BY DEF Init
  <2>2. MaxCommands \in Nat /\ MaxFaults \in Nat BY MusicPlayerAssumption
  <2>3. {accepted, started, dropped, replayed} \subseteq SUBSET Songs BY <2>1
  <2>4. looped \in BOOLEAN BY <2>1
  <2>5. commands \in 0..MaxCommands /\ faults \in 0..MaxFaults BY <2>1, <2>2
  <2> QED BY <2>3, <2>4, <2>5
<1> QED BY <1>1, <1>2, <1>3, <1>4, <1>5 DEF TypeInv, TypeOK

\* What TypeOK says of all but the calls.
MemoryOK ==
  /\ songs \in Seq(Songs) /\ loopMode \in LoopModes
  /\ currentSong \in Songs \cup {NoSong} /\ isPlaying \in BOOLEAN
DatabaseOK ==
  /\ rows \subseteq Rows /\ IsFiniteSet(rows)
  /\ rowLock \in Tasks \cup {NoSong}
VoiceOK ==
  /\ session \in Players \cup {NoPlayer} /\ joined \subseteq Players
  /\ player \in [player : Players \cup {NoPlayer}, song : Songs \cup {NoSong},
                 playing : BOOLEAN, paused : BOOLEAN]
  /\ listening \in BOOLEAN
  /\ audio \in [Players -> [song : Songs \cup {NoSong},
                            status : {"idle", "buffering", "playing", "paused",
                                      "autopaused", "stopping"}]]
BoundsOK == commands \in 0..MaxCommands /\ faults \in 0..MaxFaults
HistoryOK ==
  /\ accepted \subseteq Songs /\ started \subseteq Songs /\ dropped \subseteq Songs
  /\ replayed \subseteq Songs /\ looped \in BOOLEAN
TasksOK == task \in [Tasks -> TaskRecord] /\ \A t \in Tasks : Carries(task[t])

LEMMA TypeParts ==
  /\ TypeInv <=> /\ MemoryOK /\ DatabaseOK /\ VoiceOK
                 /\ BoundsOK /\ HistoryOK /\ TasksOK
  /\ TypeInv' <=> /\ MemoryOK' /\ DatabaseOK' /\ VoiceOK'
                  /\ BoundsOK' /\ HistoryOK' /\ TasksOK'
<1>1. TypeInv <=> MemoryOK /\ DatabaseOK /\ VoiceOK /\ BoundsOK /\ HistoryOK /\ TasksOK
  BY DEF TypeInv, TypeOK, MemoryOK, DatabaseOK, VoiceOK, BoundsOK, HistoryOK, TasksOK
<1> QED BY <1>1, PTL

\* The call of t becomes r, and no other changes.
Becomes(t, r) == task' = [task EXCEPT ![t] = r] /\ r \in TaskRecord /\ Carries(r)

LEMMA BecomesOK ==
  ASSUME TasksOK, NEW t \in Tasks, NEW r, Becomes(t, r)
  PROVE  TasksOK' /\ task'[t] = r /\ \A u \in Tasks \ {t} : task'[u] = task[u]
BY DEF TasksOK, Becomes, Carries

\* A call has a song in hand that it has taken off the queue; the /play of a
\* song has not yet put it there.
Holds(r) == r.pc \in {"removing", "fetching"} /\ r.kind # "write"
Waits(r) == r.pc \in {"free", "joining", "resolving"}

\* What a call does when it advances the queue, and when there is nothing to
\* do.
Takes(t) ==
  /\ \E r : Becomes(t, r) /\ Holds(r) /\ r.song = Dequeued.song
  /\ Dequeued.song \in Songs
  /\ songs' = Dequeued.rest /\ currentSong' = Dequeued.song
Passes(t) ==
  /\ \E r : Becomes(t, r) /\ ~Holds(r) /\ (t \in Songs => ~Waits(r)) /\ r.pc # "creating"
  /\ UNCHANGED <<songs, currentSong>>

LEMMA AdvanceIs ==
  ASSUME TypeInv, NEW t \in Tasks, NEW kind \in {"play", "skip", "idle"},
         NEW s \in Players \cup {NoPlayer}, Advance(t, kind, s)
  PROVE  Takes(t) \/ (Passes(t) /\ Dequeued.song = NoSong)
<1> PICK song \in Songs \cup {NoSong} : song = Dequeued.song
  BY TypeParts, DequeuedIs DEF MemoryOK
<1>1. CASE song = NoSong
  <2>1. task' = [task EXCEPT ![t] = Finished(t)] /\ songs' = Dequeued.rest
          /\ currentSong' = currentSong
    BY <1>1 DEF Advance
  <2>2. songs' = songs BY <1>1, <2>1, TypeParts, DequeuedIs DEF MemoryOK
  <2>3. Becomes(t, Finished(t)) BY <2>1, FinishedIs DEF Becomes, Carries
  <2>4. ~Holds(Finished(t)) /\ (t \in Songs => ~Waits(Finished(t)))
          /\ Finished(t).pc # "creating"
    BY FinishedIs, MusicPlayerAssumption DEF Holds, Waits
  <2> QED BY <1>1, <2>1, <2>2, <2>3, <2>4 DEF Passes
<1>2. CASE song # NoSong
  <2> DEFINE r == [kind |-> kind, session |-> s, go |-> FALSE, song |-> song,
                   position |-> 0, index |-> 0,
                   pc |-> IF songs = <<>> THEN "fetching" ELSE "removing"]
  <2>1. task' = [task EXCEPT ![t] = r] /\ songs' = Dequeued.rest /\ currentSong' = song
    BY <1>2 DEF Advance
  <2>2. r \in TaskRecord BY DEF TaskRecord
  <2>3. /\ r.pc \in {"fetching", "removing"} /\ r.kind = kind /\ r.song = song
        /\ song \in Songs
    BY <1>2
  <2> HIDE DEF r
  <2>4. Becomes(t, r) /\ Holds(r) BY <2>1, <2>2, <2>3 DEF Becomes, Carries, Holds
  <2> QED BY <2>1, <2>3, <2>4 DEF Takes
<1> QED BY <1>1, <1>2

LEMMA NextToWriteIs ==
  ASSUME TypeInv, NEW t \in Tasks, NEW i \in Nat \ {0}
  PROVE  /\ NextToWrite(t, i) \in TaskRecord /\ Carries(NextToWrite(t, i))
         /\ NextToWrite(t, i).pc \in {"adding", IF t \in Slots THEN "free" ELSE "done"}
<1>1. CASE i <= Len(songs)
  <2> PICK song \in Songs : song = songs[i] BY <1>1, TypeParts DEF MemoryOK
  <2>1. NextToWrite(t, i) =
          [Idle EXCEPT !.kind = "rewrite", !.pc = "adding", !.song = song, !.index = i]
    BY <1>1 DEF NextToWrite
  <2>2. /\ [Idle EXCEPT !.kind = "rewrite"] \in TaskRecord
        /\ [Idle EXCEPT !.kind = "rewrite", !.pc = "adding"] \in TaskRecord
        /\ [Idle EXCEPT !.kind = "rewrite", !.pc = "adding", !.song = song] \in TaskRecord
        /\ [Idle EXCEPT !.kind = "rewrite", !.pc = "adding", !.song = song, !.index = i]
              \in TaskRecord
    <3>1. [Idle EXCEPT !.kind = "rewrite"] \in TaskRecord BY FinishedIs, TaskFields
    <3>2. [Idle EXCEPT !.kind = "rewrite", !.pc = "adding"] \in TaskRecord
      BY <3>1, TaskFields
    <3>3. [Idle EXCEPT !.kind = "rewrite", !.pc = "adding", !.song = song] \in TaskRecord
      BY <3>2, TaskFields
    <3> QED BY <3>1, <3>2, <3>3, TaskFields
  <2>3. /\ NextToWrite(t, i).pc = "adding" /\ NextToWrite(t, i).song = song
    BY <2>1 DEF Idle
  <2> QED BY <2>1, <2>2, <2>3 DEF Carries
<1>2. CASE ~(i <= Len(songs))
  BY <1>2, FinishedIs DEF NextToWrite, Carries
<1> QED BY <1>1, <1>2

LEMMA AddReturnedIs ==
  ASSUME TypeInv, NEW t \in Tasks, AddReturned(t)
  PROVE  Takes(t) \/ Passes(t)
<1>0. task[t] \in TaskRecord BY TypeParts DEF TasksOK
<1>1. CASE task[t].kind = "rewrite"
  <2>1. task' = [task EXCEPT ![t] = NextToWrite(t, task[t].index + 1)]
          /\ UNCHANGED <<songs, currentSong>>
    BY <1>1, TypeParts DEF AddReturned, TasksOK
  <2>2. task[t].index + 1 \in Nat \ {0} BY <1>0 DEF TaskRecord
  <2> PICK i \in Nat \ {0} : i = task[t].index + 1 BY <2>2
  <2>3. Becomes(t, NextToWrite(t, i)) BY <2>1, NextToWriteIs DEF Becomes
  <2>4. ~Holds(NextToWrite(t, i)) /\ (t \in Songs => ~Waits(NextToWrite(t, i)))
          /\ NextToWrite(t, i).pc # "creating"
    BY NextToWriteIs, MusicPlayerAssumption DEF Holds, Waits
  <2> QED BY <2>1, <2>3, <2>4 DEF Passes
<1>2. CASE task[t].kind # "rewrite" /\ task[t].kind = "play" /\ task[t].go /\ songs # <<>>
  <2>1. Advance(t, "play", task[t].session) BY <1>2 DEF AddReturned
  <2>2. task[t].session \in Players \cup {NoPlayer} BY <1>0 DEF TaskRecord
  <2> QED BY <2>1, <2>2, AdvanceIs
<1>3. CASE task[t].kind # "rewrite" /\ ~(task[t].kind = "play" /\ task[t].go /\ songs # <<>>)
  <2>1. task' = [task EXCEPT ![t] = Finished(t)] /\ UNCHANGED <<songs, currentSong>>
    BY <1>3 DEF AddReturned
  <2>2. Becomes(t, Finished(t)) BY <2>1, FinishedIs DEF Becomes, Carries
  <2>3. ~Holds(Finished(t)) /\ (t \in Songs => ~Waits(Finished(t)))
          /\ Finished(t).pc # "creating"
    BY FinishedIs, MusicPlayerAssumption DEF Holds, Waits
  <2> QED BY <2>1, <2>2, <2>3 DEF Passes
<1> QED BY <1>1, <1>2, <1>3

LEMMA AddGivenUpIs ==
  ASSUME TypeInv, NEW t \in Tasks, AddGivenUp(t)
  PROVE  Takes(t) \/ Passes(t)
<1>1. CASE AddReturned(t) BY <1>1, AddReturnedIs
<1>2. CASE task' = [task EXCEPT ![t] = Finished(t)] /\ UNCHANGED <<songs, currentSong>>
  <2>2. Becomes(t, Finished(t)) BY <1>2, FinishedIs DEF Becomes, Carries
  <2>3. ~Holds(Finished(t)) /\ (t \in Songs => ~Waits(Finished(t)))
          /\ Finished(t).pc # "creating"
    BY FinishedIs, MusicPlayerAssumption DEF Holds, Waits
  <2> QED BY <1>2, <2>2, <2>3 DEF Passes
<1> QED BY <1>1, <1>2 DEF AddGivenUp

\* Closing up the rows behind one that goes adds none.
LEMMA RowsShrink ==
  ASSUME DatabaseOK, NEW n \in Nat
  PROVE  /\ RowsWithout(n) \subseteq Rows /\ IsFiniteSet(RowsWithout(n))
         /\ Cardinality(RowsWithout(n)) \in Nat /\ Cardinality(rows) \in Nat
         /\ Cardinality(RowsWithout(n)) <= Cardinality(rows)
<1>0. rows \subseteq Rows /\ IsFiniteSet(rows) BY DEF DatabaseOK
<1>1. CASE \E r \in rows : r.position = n
  <2> DEFINE gone == CHOOSE r \in rows : r.position = n
             S == rows \ {gone}
             f == [x \in S |-> [x EXCEPT !.position = IF @ > n THEN @ - 1 ELSE @]]
             T == {f[x] : x \in S}
  <2>1. RowsWithout(n) = T BY <1>1 DEF RowsWithout
  <2>2. ASSUME NEW x \in S PROVE f[x] \in Rows
    <3>1. x \in Rows BY <1>0
    <3>2. x.position \in Nat BY <3>1 DEF Rows
    <3>3. (IF x.position > n THEN x.position - 1 ELSE x.position) \in Nat BY <3>2
    <3> QED BY <3>1, <3>3 DEF Rows
  <2>3. f \in Surjection(S, T) BY DEF Surjection
  <2>4. IsFiniteSet(S) /\ Cardinality(S) <= Cardinality(rows) /\ Cardinality(S) \in Nat
    BY <1>0, FS_Subset, FS_CardinalityType
  <2> HIDE DEF T, S, f
  <2>5. IsFiniteSet(T) /\ Cardinality(T) <= Cardinality(S)
    BY <2>3, <2>4, FS_Surjection
  <2>6. Cardinality(T) \in Nat /\ Cardinality(rows) \in Nat
    BY <1>0, <2>5, FS_CardinalityType
  <2> QED BY <2>1, <2>2, <2>4, <2>5, <2>6 DEF T
<1>2. CASE ~ \E r \in rows : r.position = n
  <2>1. RowsWithout(n) = rows BY <1>2 DEF RowsWithout
  <2> QED BY <1>0, <2>1, FS_CardinalityType
<1> QED BY <1>1, <1>2

LEMMA RowsGrow ==
  ASSUME DatabaseOK, NEW song \in Songs, NEW n \in Nat
  PROVE  /\ RowsWith(song, n) \subseteq Rows /\ IsFiniteSet(RowsWith(song, n))
         /\ Cardinality(RowsWith(song, n)) \in Nat /\ Cardinality(rows) \in Nat
         /\ Cardinality(RowsWith(song, n)) <= Cardinality(rows) + 1
<1>0. rows \subseteq Rows /\ IsFiniteSet(rows) BY DEF DatabaseOK
<1> DEFINE x == [song |-> song, position |-> n]
<1>1. x \in Rows BY DEF Rows
<1>2. /\ IsFiniteSet(rows \cup {x}) /\ Cardinality(rows) \in Nat
      /\ Cardinality(rows \cup {x}) = IF x \in rows THEN Cardinality(rows)
                                      ELSE Cardinality(rows) + 1
  BY <1>0, FS_AddElement, FS_CardinalityType
<1> QED BY <1>0, <1>1, <1>2 DEF RowsWith

LEMMA VoiceParts ==
  ASSUME VoiceOK
  PROVE  /\ \A p \in Players \cup {NoPlayer} :
              Halted(p) \in [Players -> [song : Songs \cup {NoSong},
                               status : {"idle", "buffering", "playing", "paused",
                                         "autopaused", "stopping"}]]
         /\ Wiped(player) \in [player : Players \cup {NoPlayer}, song : Songs \cup {NoSong},
                               playing : BOOLEAN, paused : BOOLEAN]
         /\ \A p \in Players \cup {NoPlayer}, song \in Songs :
              /\ Started(p, song) \in [player : Players \cup {NoPlayer},
                   song : Songs \cup {NoSong}, playing : BOOLEAN, paused : BOOLEAN]
              /\ Wiped(Started(p, song)) \in [player : Players \cup {NoPlayer},
                   song : Songs \cup {NoSong}, playing : BOOLEAN, paused : BOOLEAN]
BY DEF VoiceOK, Halted, Wiped, Started

-----------------------------------------------------------------------------
(* What a step does to the queue and to the calls that hold its songs.     *)

SameHistory == UNCHANGED <<accepted, started, dropped, replayed>>

\* No song moves.
Steady ==
  /\ UNCHANGED songs /\ SameHistory
  /\ \A u \in Tasks : /\ Holds(task'[u]) <=> Holds(task[u])
                      /\ Holds(task[u]) => task'[u].song = task[u].song
  /\ \A s \in Songs : Waits(task'[s]) => Waits(task[s])

QueueStep ==
  \/ Steady /\ loopMode' = loopMode /\ looped' = looped
  \/ \E mode \in LoopModes : SetLoop(mode)
  \/ \E s \in Songs : Enqueued(s)
  \/ \E t \in Tasks : /\ Takes(t) /\ ~Holds(task[t])
                      /\ SameHistory /\ loopMode' = loopMode /\ looped' = looped
  \/ \E t \in Tasks : Fetched(t) \/ FetchFails(t)
  \/ \E t \in Slots : Clear(t) \/ ThrownOut(t) \/ Shuffle(t)
  \/ \E t \in Slots, n \in 1..(Len(songs) - 1) : Remove(t, n)
  \/ Restart

\* No row moves, nor the lock, and nobody comes to hold it.
RowsStay ==
  /\ UNCHANGED <<rows, rowLock>>
  /\ \A t \in Tasks : task'[t].pc = "creating" => task[t].pc = "creating"

RowsStep ==
  \/ RowsStay
  \/ \E t \in Tasks : CountRows(t) \/ CreateRow(t) \/ AddFails(t) \/ RemoveRow(t) \/ ClearRows(t)
  \/ Restart

LEMMA StillSteady ==
  ASSUME TypeInv, task' = task
  PROVE  /\ TasksOK'
         /\ UNCHANGED songs /\ SameHistory => Steady
         /\ UNCHANGED <<rows, rowLock>> => RowsStay
BY TypeParts DEF TasksOK, Steady, RowsStay

LEMMA OneSteady ==
  ASSUME TypeInv, NEW t \in Tasks, NEW r, Becomes(t, r)
  PROVE  /\ TasksOK'
         /\ /\ UNCHANGED songs /\ SameHistory
            /\ Holds(r) <=> Holds(task[t])
            /\ Holds(r) => r.song = task[t].song
            /\ t \in Songs /\ Waits(r) => Waits(task[t])
            => Steady
         /\ UNCHANGED <<rows, rowLock>> /\ r.pc # "creating" => RowsStay
<1>1. TasksOK BY TypeParts
<1>2. TasksOK' /\ task'[t] = r /\ \A u \in Tasks \ {t} : task'[u] = task[u] BY <1>1, BecomesOK
<1>3. ASSUME UNCHANGED songs, SameHistory,
             Holds(r) <=> Holds(task[t]), Holds(r) => r.song = task[t].song,
             t \in Songs /\ Waits(r) => Waits(task[t])
      PROVE  Steady
  <2>1. \A u \in Tasks : /\ Holds(task'[u]) <=> Holds(task[u])
                         /\ Holds(task[u]) => task'[u].song = task[u].song
    BY <1>2, <1>3
  <2>2. \A s \in Songs : Waits(task'[s]) => Waits(task[s])
    BY <1>2, <1>3 DEF Tasks
  <2> QED BY <1>3, <2>1, <2>2 DEF Steady
<1>4. ASSUME UNCHANGED <<rows, rowLock>>, r.pc # "creating" PROVE RowsStay
  BY <1>2, <1>4 DEF RowsStay
<1> QED BY <1>2, <1>3, <1>4

\* A call that has returned.
LEMMA ReturnSteady ==
  ASSUME TypeInv, NEW t \in Tasks, task' = [task EXCEPT ![t] = Finished(t)],
         ~Holds(task[t])
  PROVE  /\ TasksOK'
         /\ UNCHANGED songs /\ SameHistory => Steady
         /\ UNCHANGED <<rows, rowLock>> => RowsStay
<1>1. Becomes(t, Finished(t)) BY FinishedIs DEF Becomes, Carries
<1>2. ~Holds(Finished(t)) /\ (t \in Songs => ~Waits(Finished(t)))
          /\ Finished(t).pc # "creating"
  BY FinishedIs, MusicPlayerAssumption DEF Holds, Waits
<1> QED BY <1>1, <1>2, OneSteady

LEMMA PassSteady ==
  ASSUME TypeInv, NEW t \in Tasks, Passes(t), ~Holds(task[t])
  PROVE  /\ TasksOK'
         /\ SameHistory => Steady
         /\ UNCHANGED <<rows, rowLock>> => RowsStay
BY OneSteady DEF Passes

LEMMA TakeTypes ==
  ASSUME TypeInv, NEW t \in Tasks, Takes(t)
  PROVE  /\ TasksOK' /\ songs' \in Seq(Songs) /\ currentSong' \in Songs \cup {NoSong}
         /\ UNCHANGED <<rows, rowLock>> => RowsStay
<1>1. PICK r : Becomes(t, r) /\ Holds(r) BY DEF Takes
<1>2. r.pc # "creating" BY <1>1 DEF Holds
<1>3. Dequeued.rest \in Seq(Songs) BY TypeParts, DequeuedIs DEF MemoryOK
<1>4. TasksOK' BY <1>1, OneSteady
<1>5. UNCHANGED <<rows, rowLock>> => RowsStay BY <1>1, <1>2, OneSteady
<1> QED BY <1>3, <1>4, <1>5 DEF Takes

LEMMA BoundsStep ==
  ASSUME TypeInv
  PROVE  /\ Command => BoundsOK'
         /\ Fault => BoundsOK'
         /\ UNCHANGED bounds => BoundsOK'
BY TypeParts, MusicPlayerAssumption DEF Command, Fault, BoundsOK, bounds

\* The parts a step leaves alone keep their types.
LEMMA PartsStay ==
  ASSUME TypeInv
  PROVE  /\ UNCHANGED memory => MemoryOK'
         /\ UNCHANGED database => DatabaseOK'
         /\ UNCHANGED voice /\ UNCHANGED playing => VoiceOK'
         /\ UNCHANGED history => HistoryOK' /\ SameHistory /\ looped' = looped
BY TypeParts DEF MemoryOK, DatabaseOK, VoiceOK, HistoryOK, memory, database, voice, playing,
                 history, SameHistory

\* The steps that leave all calls alone.
LEMMA PlayerSteps ==
  ASSUME TypeInv,
         \/ \E mode \in LoopChoices : SetLoop(mode)
         \/ Leave \/ Stop \/ Pause \/ ConnectionLost
         \/ \E p \in Players : Plays(p) \/ EndsQuietly(p) \/ PausesItself(p) \/ Breaks(p)
  PROVE  TypeInv' /\ QueueStep /\ RowsStep
<1>p. MemoryOK /\ DatabaseOK /\ VoiceOK /\ HistoryOK BY TypeParts
<1>s. ASSUME task' = task, songs' = songs, SameHistory, UNCHANGED <<rows, rowLock>>
      PROVE  TasksOK' /\ Steady /\ RowsStep
  BY <1>s, StillSteady DEF RowsStep
<1>a. \A p \in Players : audio[p] \in [song : Songs \cup {NoSong},
         status : {"idle", "buffering", "playing", "paused", "autopaused", "stopping"}]
  BY <1>p DEF VoiceOK
<1>1. ASSUME NEW mode \in LoopChoices, SetLoop(mode) PROVE TypeInv' /\ QueueStep /\ RowsStep
  <2>1. mode \in LoopModes BY MusicPlayerAssumption
  <2>2. TasksOK' /\ RowsStep BY <1>1, <1>s DEF SetLoop, SameHistory, database
  <2>3. BoundsOK' BY <1>1, BoundsStep DEF SetLoop
  <2>4. DatabaseOK' /\ VoiceOK' BY <1>1, PartsStay DEF SetLoop
  <2>5. MemoryOK' BY <1>1, <1>p, <2>1 DEF SetLoop, MemoryOK
  <2>6. HistoryOK' BY <1>1, <1>p DEF SetLoop, HistoryOK
  <2> QED BY <1>1, <2>1, <2>2, <2>3, <2>4, <2>5, <2>6, TypeParts DEF QueueStep
<1>2. ASSUME Leave \/ Stop \/ Pause \/ ConnectionLost
               \/ \E p \in Players : Plays(p) \/ PausesItself(p) \/ Breaks(p)
      PROVE  TypeInv' /\ QueueStep /\ RowsStep
  <2>1. /\ UNCHANGED <<memory, database, task, history>>
        /\ Command \/ Fault \/ UNCHANGED bounds
    BY <1>2 DEF Leave, Stop, Pause, ConnectionLost, Plays, PausesItself, Breaks
  <2>2. MemoryOK' /\ DatabaseOK' /\ BoundsOK' /\ HistoryOK' BY <2>1, PartsStay, BoundsStep
  <2>3. TasksOK' /\ Steady /\ RowsStep
    BY <2>1, <1>s DEF memory, database, history, SameHistory
  <2>4. VoiceOK'
    <3> DEFINE Sounds == {"idle", "buffering", "playing", "paused", "autopaused", "stopping"}
               A == [song : Songs \cup {NoSong}, status : Sounds]
               P == [player : Players \cup {NoPlayer}, song : Songs \cup {NoSong},
                     playing : BOOLEAN, paused : BOOLEAN]
    <3>0. /\ session \in Players \cup {NoPlayer} /\ joined \subseteq Players
          /\ player \in P /\ player.player \in Players \cup {NoPlayer}
          /\ listening \in BOOLEAN /\ audio \in [Players -> A]
      BY <1>p DEF VoiceOK
    <3>h. Halted(session) \in [Players -> A] /\ Halted(player.player) \in [Players -> A]
            /\ Wiped(player) \in P
      BY <1>p, <3>0, VoiceParts
    <3>a. ASSUME NEW a \in A, NEW s \in Sounds PROVE [a EXCEPT !.status = s] \in A OBVIOUS
    <3>b. ASSUME NEW b \in BOOLEAN, NEW c \in BOOLEAN
          PROVE  [player EXCEPT !.playing = b, !.paused = c] \in P
      BY <3>0
    <3>v. (/\ session' \in Players \cup {NoPlayer} /\ joined' \subseteq Players
           /\ player' \in P /\ listening' \in BOOLEAN /\ audio' \in [Players -> A])
          => VoiceOK'
      BY DEF VoiceOK
    <3> HIDE DEF A, P
    <3>s. ASSUME NEW p \in Players, NEW s \in Sounds, audio' = [audio EXCEPT ![p].status = s]
          PROVE  audio' \in [Players -> A]
      <4>0. audio[p] \in A BY <3>0
      <4>1. [audio[p] EXCEPT !.status = s] \in A BY <4>0, <3>a
      <4>2. audio' = [audio EXCEPT ![p] = [audio[p] EXCEPT !.status = s]] BY <3>0, <3>s
      <4> QED BY <3>0, <4>1, <4>2
    <3>1. Leave \/ Stop \/ ConnectionLost => VoiceOK'
      BY <3>0, <3>h, <3>v DEF Leave, Stop, ConnectionLost, CleanupSession, voice
    <3>2. ASSUME Pause PROVE VoiceOK'
      <4>1. /\ UNCHANGED <<voice, listening>>
            /\ audio' = [audio EXCEPT ![player.player].status = "paused"]
            /\ player' = [player EXCEPT !.playing = FALSE, !.paused = TRUE]
        BY <3>2 DEF Pause
      <4>2. player' \in P BY <3>b, <4>1
      <4>3. audio' \in [Players -> A]
        <5>1. CASE player.player \in Players BY <3>s, <4>1, <5>1
        <5>2. CASE player.player = NoPlayer
          <6>1. audio' = audio BY <3>0, <4>1, <5>2, NoSongNoPlayer
          <6> QED BY <3>0, <6>1
        <5> QED BY <3>0, <5>1, <5>2
      <4> QED BY <3>0, <3>v, <4>1, <4>2, <4>3 DEF voice
    <3>3. ASSUME NEW p \in Players, Plays(p) \/ PausesItself(p) PROVE VoiceOK'
      <4>1. /\ UNCHANGED <<voice, listening>>
            /\ \/ audio' = [audio EXCEPT ![p].status = "playing"]
               \/ audio' = [audio EXCEPT ![p].status = "autopaused"]
            /\ \/ player' = player
               \/ player' = [player EXCEPT !.playing = TRUE, !.paused = FALSE]
               \/ player' = [player EXCEPT !.playing = FALSE, !.paused = TRUE]
        BY <3>3 DEF Plays, PausesItself
      <4>2. player' \in P BY <3>0, <3>b, <4>1
      <4>3. audio' \in [Players -> A] BY <3>s, <4>1
      <4> QED BY <3>0, <3>v, <4>1, <4>2, <4>3 DEF voice
    <3>4. ASSUME NEW p \in Players, Breaks(p) PROVE VoiceOK'
      <4>1. Silent \in [song : Songs \cup {NoSong},
               status : {"idle", "buffering", "playing", "paused", "autopaused", "stopping"}]
        BY DEF Silent
      <4> QED BY <3>4, <4>1, <1>p, VoiceParts DEF Breaks, VoiceOK, voice
    <3> QED BY <1>2, <3>1, <3>2, <3>3, <3>4
  <2>5. loopMode' = loopMode /\ looped' = looped BY <2>1 DEF memory, history
  <2> QED BY <2>2, <2>3, <2>4, <2>5, TypeParts DEF QueueStep
<1>3. ASSUME NEW p \in Players, EndsQuietly(p) PROVE TypeInv' /\ QueueStep /\ RowsStep
  <2>1. /\ UNCHANGED <<songs, loopMode, database, voice, listening, task, bounds, history>>
        /\ currentSong' \in {currentSong, NoSong} /\ isPlaying' \in {isPlaying, FALSE}
        /\ player' \in {player, Wiped(player)}
        /\ audio' = [audio EXCEPT ![p] = Silent]
    BY <1>3 DEF EndsQuietly, Ends
  <2>2. DatabaseOK' /\ BoundsOK' /\ HistoryOK' BY <2>1, PartsStay, BoundsStep
  <2>3. TasksOK' /\ Steady /\ RowsStep
    BY <2>1, <1>s DEF database, history, SameHistory
  <2>4. VoiceOK'
    <3>1. Silent \in [song : Songs \cup {NoSong},
             status : {"idle", "buffering", "playing", "paused", "autopaused", "stopping"}]
      BY DEF Silent
    <3> QED BY <2>1, <3>1, <1>p, VoiceParts DEF VoiceOK, voice
  <2>5. MemoryOK' BY <2>1, <1>p DEF MemoryOK
  <2>6. looped' = looped /\ loopMode' = loopMode BY <2>1 DEF history
  <2> QED BY <2>2, <2>3, <2>4, <2>5, <2>6, TypeParts DEF QueueStep
<1> QED BY <1>1, <1>2, <1>3

\* The steps of the calls under way that write to the rows or give up.
LEMMA WriteSteps ==
  ASSUME TypeInv, NEW t \in Tasks,
         \/ CountRows(t) \/ CreateRow(t) \/ AddRefused(t) \/ AddFails(t)
         \/ RemoveRow(t) \/ RemoveRowFails(t) \/ ClearRows(t) \/ JoinFails(t) \/ SearchFails(t)
  PROVE  TypeInv' /\ QueueStep /\ RowsStep
<1>p. MemoryOK /\ DatabaseOK /\ VoiceOK /\ HistoryOK BY TypeParts
<1>t. task \in [Tasks -> TaskRecord] /\ task[t] \in TaskRecord /\ Carries(task[t])
  BY TypeParts DEF TasksOK
\* What is said of the queue, and what is said of the rows, is enough.
<1>q. ASSUME (Takes(t) \/ Passes(t)), ~Holds(task[t]), SameHistory,
             loopMode' = loopMode, looped' = looped
      PROVE  TasksOK' /\ QueueStep /\ songs' \in Seq(Songs) /\ currentSong' \in Songs \cup {NoSong}
  <2>1. CASE Takes(t) BY <1>q, <2>1, TakeTypes DEF QueueStep
  <2>2. CASE Passes(t)
    <3>1. TasksOK' /\ Steady BY <1>q, <2>2, PassSteady
    <3>2. songs' \in Seq(Songs) /\ currentSong' \in Songs \cup {NoSong}
      BY <2>2, <1>p DEF Passes, MemoryOK
    <3> QED BY <1>q, <3>1, <3>2 DEF QueueStep
  <2> QED BY <1>q, <2>1, <2>2
<1>1. CASE CountRows(t)
  <2> PICK n \in Nat : n = Cardinality(rows)
    BY <1>p, FS_CardinalityType DEF DatabaseOK
  <2> DEFINE r == [task[t] EXCEPT !.pc = "creating", !.position = n]
  <2>1. task' = [task EXCEPT ![t] = r] BY <1>1, <1>t DEF CountRows
  <2>2. r \in TaskRecord
    <3>1. [task[t] EXCEPT !.pc = "creating"] \in TaskRecord BY <1>t, TaskFields
    <3> QED BY <3>1, TaskFields
  <2>3. r.pc = "creating" /\ r.song = task[t].song /\ task[t].pc = "adding"
    BY <1>1, <1>t DEF CountRows, TaskRecord
  <2>4. Becomes(t, r) BY <1>t, <2>1, <2>2, <2>3 DEF Becomes, Carries
  <2>5. UNCHANGED <<memory, rows, voice, playing, bounds, history>> /\ rowLock' = t
    BY <1>1 DEF CountRows
  <2>6. MemoryOK' /\ VoiceOK' /\ BoundsOK' /\ HistoryOK' /\ SameHistory /\ looped' = looped
    BY <2>5, PartsStay, BoundsStep
  <2>7. DatabaseOK' BY <2>5, <1>p DEF DatabaseOK
  <2>8. TasksOK' /\ Steady
    <3>1. ~Holds(r) /\ ~Waits(r) /\ ~Holds(task[t]) BY <2>3 DEF Holds, Waits
    <3> HIDE DEF r
    <3> QED BY <2>4, <2>5, <2>6, <3>1, OneSteady DEF memory
  <2>9. RowsStep BY <1>1 DEF RowsStep
  <2> QED BY <2>5, <2>6, <2>7, <2>8, <2>9, TypeParts DEF QueueStep, memory
<1>2. CASE CreateRow(t)
  <2>1. /\ UNCHANGED <<loopMode, isPlaying, voice, playing, bounds, history>>
        /\ rows' = RowsWith(task[t].song, task[t].position) /\ rowLock' = NoSong
        /\ task[t].pc = "creating" /\ AddReturned(t)
    BY <1>2 DEF CreateRow
  <2>2. ~Holds(task[t]) BY <2>1 DEF Holds
  <2>3. VoiceOK' /\ BoundsOK' /\ HistoryOK' /\ SameHistory /\ looped' = looped
    BY <2>1, PartsStay, BoundsStep
  <2>4. /\ TasksOK' /\ QueueStep
        /\ songs' \in Seq(Songs) /\ currentSong' \in Songs \cup {NoSong}
    BY <1>q, <2>1, <2>2, <2>3, AddReturnedIs
  <2>5. MemoryOK' BY <1>p, <2>1, <2>4 DEF MemoryOK
  <2>6. task[t].song \in Songs /\ task[t].position \in Nat
    BY <1>t, <2>1 DEF Carries, TaskRecord
  <2>7. DatabaseOK' BY <1>p, <2>1, <2>6, RowsGrow DEF DatabaseOK
  <2>8. RowsStep BY <1>2 DEF RowsStep
  <2> QED BY <2>3, <2>4, <2>5, <2>7, <2>8, TypeParts
<1>3. CASE AddRefused(t) \/ AddFails(t)
  <2>1. /\ UNCHANGED <<loopMode, isPlaying, rows, voice, playing, history>>
        /\ rowLock' \in {rowLock, NoSong}
        /\ task[t].pc \in {"adding", "creating"} /\ AddGivenUp(t)
        /\ Fault \/ UNCHANGED bounds
    BY <1>3 DEF AddRefused, AddFails, database
  <2>2. ~Holds(task[t]) BY <2>1 DEF Holds
  <2>3. VoiceOK' /\ BoundsOK' /\ HistoryOK' /\ SameHistory /\ looped' = looped
    BY <2>1, PartsStay, BoundsStep
  <2>g. Takes(t) \/ Passes(t) BY <2>1, AddGivenUpIs
  <2>4. /\ TasksOK' /\ QueueStep
        /\ songs' \in Seq(Songs) /\ currentSong' \in Songs \cup {NoSong}
    BY <1>q, <2>1, <2>2, <2>3, <2>g
  <2>5. MemoryOK' BY <1>p, <2>1, <2>4 DEF MemoryOK
  <2>7. DatabaseOK' BY <1>p, <2>1 DEF DatabaseOK
  <2>8. RowsStep
    <3>1. CASE AddFails(t) BY <3>1 DEF RowsStep
    <3>2. CASE AddRefused(t)
      <4>1. UNCHANGED <<rows, rowLock>> BY <3>2 DEF AddRefused, database
      <4>2. RowsStay
        <5>1. CASE Takes(t) BY <4>1, <5>1, TakeTypes
        <5>2. CASE Passes(t) BY <2>2, <4>1, <5>2, PassSteady
        <5> QED BY <2>g, <5>1, <5>2
      <4> QED BY <4>2 DEF RowsStep
    <3> QED BY <1>3, <3>1, <3>2
  <2> QED BY <2>3, <2>4, <2>5, <2>7, <2>8, TypeParts
<1>4. CASE RemoveRow(t) \/ RemoveRowFails(t)
  <2>1. /\ UNCHANGED <<memory, rowLock, voice, playing, history>>
        /\ rows' \in {rows, RowsWithout(task[t].position)}
        /\ Fault \/ UNCHANGED bounds
        /\ task[t].pc = "removing"
    BY <1>4 DEF RemoveRow, RemoveRowFails, memory, database
  <2>2. MemoryOK' /\ VoiceOK' /\ BoundsOK' /\ HistoryOK' /\ SameHistory /\ looped' = looped
    BY <2>1, PartsStay, BoundsStep
  <2>3. task[t].position \in Nat BY <1>t DEF TaskRecord
  <2>4. DatabaseOK' BY <1>p, <2>1, <2>3, RowsShrink DEF DatabaseOK
  <2>5. TasksOK' /\ Steady /\ (UNCHANGED <<rows, rowLock>> => RowsStay)
    <3>1. CASE task[t].kind = "write"
      <4>1. task' = [task EXCEPT ![t] = Finished(t)]
        BY <1>4, <1>t, <3>1 DEF RemoveRow, RemoveRowFails
      <4>2. ~Holds(task[t]) BY <3>1 DEF Holds
      <4> QED BY <2>1, <2>2, <4>1, <4>2, ReturnSteady DEF memory
    <3>2. CASE task[t].kind # "write"
      <4> DEFINE r == [task[t] EXCEPT !.pc = "fetching"]
      <4>1. task' = [task EXCEPT ![t] = r]
        BY <1>4, <1>t, <3>2 DEF RemoveRow, RemoveRowFails
      <4>2. r \in TaskRecord BY <1>t, TaskFields
      <4>3. r.pc = "fetching" /\ r.song = task[t].song /\ r.kind = task[t].kind
        BY <1>t DEF TaskRecord
      <4>4. Becomes(t, r) BY <1>t, <2>1, <3>2, <4>1, <4>2, <4>3 DEF Becomes, Carries
      <4>5. Holds(r) /\ Holds(task[t]) /\ ~Waits(r) /\ r.song = task[t].song
              /\ r.pc # "creating"
        BY <2>1, <3>2, <4>3 DEF Holds, Waits
      <4> HIDE DEF r
      <4> QED BY <2>1, <2>2, <4>4, <4>5, OneSteady DEF memory
    <3> QED BY <3>1, <3>2
  <2>6. RowsStep
    <3>1. CASE RemoveRow(t) BY <3>1 DEF RowsStep
    <3>2. CASE RemoveRowFails(t)
      BY <2>5, <3>2 DEF RemoveRowFails, RowsStep, database
    <3> QED BY <1>4, <3>1, <3>2
  <2> QED BY <2>1, <2>2, <2>4, <2>5, <2>6, TypeParts DEF QueueStep, memory
<1>5. CASE ClearRows(t)
  <2>1. /\ UNCHANGED <<memory, rowLock, voice, playing, bounds, history>>
        /\ rows' = {} /\ task[t].pc = "clearing"
    BY <1>5 DEF ClearRows
  <2>2. MemoryOK' /\ VoiceOK' /\ BoundsOK' /\ HistoryOK' /\ SameHistory /\ looped' = looped
    BY <2>1, PartsStay, BoundsStep
  <2>3. DatabaseOK' BY <1>p, <2>1, FS_EmptySet DEF DatabaseOK
  <2>4. TasksOK' /\ Steady
    <3>0. ~Holds(task[t]) BY <2>1 DEF Holds
    <3>1. CASE task[t].kind = "rewrite"
      <4>1. task' = [task EXCEPT ![t] = NextToWrite(t, 1)]
        BY <1>5, <1>t, <3>1 DEF ClearRows
      <4>2. Becomes(t, NextToWrite(t, 1)) BY <4>1, NextToWriteIs DEF Becomes
      <4>3. ~Holds(NextToWrite(t, 1)) /\ (t \in Songs => ~Waits(NextToWrite(t, 1)))
        BY NextToWriteIs, MusicPlayerAssumption DEF Holds, Waits
      <4> QED BY <2>1, <2>2, <3>0, <4>2, <4>3, OneSteady DEF memory
    <3>2. CASE task[t].kind # "rewrite"
      <4>1. task' = [task EXCEPT ![t] = Finished(t)] BY <1>5, <1>t, <3>2 DEF ClearRows
      <4> QED BY <2>1, <2>2, <3>0, <4>1, ReturnSteady DEF memory
    <3> QED BY <3>1, <3>2
  <2>5. RowsStep BY <1>5 DEF RowsStep
  <2> QED BY <2>1, <2>2, <2>3, <2>4, <2>5, TypeParts DEF QueueStep, memory
<1>6. CASE JoinFails(t) \/ SearchFails(t)
  <2>1. /\ UNCHANGED <<memory, database, voice, playing, history>> /\ Fault
        /\ task' = [task EXCEPT ![t] = Finished(t)]
        /\ task[t].pc \in {"joining", "resolving"}
    BY <1>6 DEF JoinFails, SearchFails, GivesUp
  <2>2. /\ MemoryOK' /\ VoiceOK' /\ BoundsOK' /\ HistoryOK' /\ SameHistory /\ looped' = looped
        /\ DatabaseOK'
    BY <2>1, PartsStay, BoundsStep
  <2>3. ~Holds(task[t]) BY <2>1 DEF Holds
  <2>4. TasksOK' /\ Steady /\ RowsStay
    BY <2>1, <2>2, <2>3, ReturnSteady DEF memory, database
  <2> QED BY <2>1, <2>2, <2>4, TypeParts DEF QueueStep, RowsStep, memory
<1> QED BY <1>1, <1>2, <1>3, <1>4, <1>5, <1>6

\* The calls that begin, and what /skip and the Idle handler take.
LEMMA BeginSteps ==
  ASSUME TypeInv,
         \/ \E s \in Songs : PlayBegins(s)
         \/ \E t \in Tasks, p \in Players : Joined(t, p)
         \/ \E t \in Slots : JoinBegins(t) \/ Skip(t)
         \/ \E t \in Slots, p \in Players : EndsWithNext(p, t)
  PROVE  TypeInv' /\ QueueStep /\ RowsStep
<1>p. MemoryOK /\ DatabaseOK /\ VoiceOK /\ HistoryOK BY TypeParts
<1>t. \A t \in Tasks : task[t] \in TaskRecord /\ Carries(task[t])
  BY TypeParts DEF TasksOK
<1>c. \A s \in Tasks, p \in Players :
        /\ PlayCalled(s, p) \in TaskRecord
        /\ PlayCalled(s, p).pc = "resolving"
  <2> SUFFICES ASSUME NEW s \in Tasks, NEW p \in Players
               PROVE  PlayCalled(s, p) \in TaskRecord /\ PlayCalled(s, p).pc = "resolving"
    OBVIOUS
  <2>0. player.playing \in BOOLEAN BY <1>p DEF VoiceOK
  <2>1. (~player.playing) \in BOOLEAN BY <2>0
  <2> PICK b \in BOOLEAN : b = ~player.playing BY <2>1
  <2>2. PlayCalled(s, p) =
          [Idle EXCEPT !.kind = "play", !.pc = "resolving", !.session = p, !.go = b]
    BY DEF PlayCalled
  <2>3. [Idle EXCEPT !.kind = "play"] \in TaskRecord BY FinishedIs, TaskFields
  <2>4. [Idle EXCEPT !.kind = "play", !.pc = "resolving"] \in TaskRecord BY <2>3, TaskFields
  <2>5. [Idle EXCEPT !.kind = "play", !.pc = "resolving", !.session = p] \in TaskRecord
    BY <2>4, TaskFields
  <2>6. [Idle EXCEPT !.kind = "play", !.pc = "resolving", !.session = p, !.go = b] \in TaskRecord
    BY <2>5, TaskFields
  <2> QED BY <2>2, <2>6 DEF Idle
<1>i. \A k \in {"play", "join"} :
        /\ [Idle EXCEPT !.kind = k, !.pc = "joining"] \in TaskRecord
        /\ [Idle EXCEPT !.kind = k, !.pc = "joining"].pc = "joining"
  <2>1. \A k \in {"play", "join"} : [Idle EXCEPT !.kind = k] \in TaskRecord
    BY FinishedIs, TaskFields
  <2> QED BY <2>1, TaskFields DEF Idle
\* A call that is not past its search, and still is not.
<1>w. ASSUME NEW t \in Tasks, NEW r, task' = [task EXCEPT ![t] = r], r \in TaskRecord,
             r.pc \in {"joining", "resolving"}, Waits(task[t]),
             UNCHANGED <<memory, database, playing, history>>,
             session' \in Players \cup {NoPlayer}, joined' \subseteq Players,
             Command \/ UNCHANGED bounds
      PROVE  TypeInv' /\ QueueStep /\ RowsStep
  <2>1. Becomes(t, r) BY <1>w DEF Becomes, Carries
  <2>2. MemoryOK' /\ DatabaseOK' /\ BoundsOK' /\ HistoryOK' /\ SameHistory /\ looped' = looped
    BY <1>w, PartsStay, BoundsStep
  <2>3. VoiceOK' BY <1>w, <1>p DEF VoiceOK, playing
  <2>4. ~Holds(r) /\ ~Holds(task[t]) /\ r.pc # "creating" BY <1>w DEF Holds, Waits
  <2>5. TasksOK' /\ Steady /\ RowsStay
    BY <1>w, <2>1, <2>2, <2>4, OneSteady DEF memory, database
  <2>6. loopMode' = loopMode BY <1>w DEF memory
  <2> QED BY <2>2, <2>3, <2>5, <2>6, TypeParts DEF QueueStep, RowsStep
<1>1. ASSUME NEW s \in Songs, PlayBegins(s) PROVE TypeInv' /\ QueueStep /\ RowsStep
  <2>0. s \in Tasks /\ session \in Players \cup {NoPlayer} /\ joined \subseteq Players
    BY <1>p DEF Tasks, VoiceOK
  <2> DEFINE r == IF session = NoPlayer THEN [Idle EXCEPT !.kind = "play", !.pc = "joining"]
                  ELSE PlayCalled(s, session)
  <2>1. /\ task' = [task EXCEPT ![s] = r] /\ Waits(task[s])
        /\ UNCHANGED <<memory, database, voice, playing, bounds, history>>
    BY <1>1 DEF PlayBegins, Waits
  <2>2. r \in TaskRecord /\ r.pc \in {"joining", "resolving"} BY <2>0, <1>i, <1>c
  <2> HIDE DEF r
  <2>3. session' = session /\ joined' = joined BY <2>1 DEF voice
  <2> QED BY <2>0, <2>1, <2>2, <2>3, <1>w
<1>2. ASSUME NEW t \in Tasks, NEW p \in Players, Joined(t, p)
      PROVE  TypeInv' /\ QueueStep /\ RowsStep
  <2>1. /\ UNCHANGED <<memory, database, playing, bounds, history>>
        /\ session' = p /\ joined' = joined \cup {p} /\ task[t].pc = "joining"
    BY <1>2 DEF Joined, Join
  <2>2. session' \in Players \cup {NoPlayer} /\ joined' \subseteq Players
    BY <1>p, <2>1 DEF VoiceOK
  <2>3. task' = [task EXCEPT ![t] = IF task[t].kind = "play" THEN PlayCalled(t, p)
                                    ELSE Finished(t)]
    BY <1>2, TypeParts DEF Joined, TasksOK
  <2>4. CASE task[t].kind = "play"
    <3>1. PlayCalled(t, p) \in TaskRecord /\ PlayCalled(t, p).pc = "resolving"
      BY <1>c
    <3>2. task' = [task EXCEPT ![t] = PlayCalled(t, p)] BY <2>3, <2>4
    <3>3. Waits(task[t]) BY <2>1 DEF Waits
    <3> QED BY <2>1, <2>2, <3>1, <3>2, <3>3, <1>w
  <2>5. CASE task[t].kind # "play"
    <3>1. task' = [task EXCEPT ![t] = Finished(t)] BY <2>3, <2>5
    <3>2. ~Holds(task[t]) BY <2>1 DEF Holds
    <3>3. /\ MemoryOK' /\ DatabaseOK' /\ BoundsOK' /\ HistoryOK' /\ SameHistory
          /\ looped' = looped
      BY <2>1, PartsStay, BoundsStep
    <3>4. VoiceOK' BY <2>1, <2>2, <1>p DEF VoiceOK, playing
    <3>5. TasksOK' /\ Steady /\ RowsStay
      BY <2>1, <3>1, <3>2, <3>3, ReturnSteady DEF memory, database
    <3>6. loopMode' = loopMode BY <2>1 DEF memory
    <3> QED BY <3>3, <3>4, <3>5, <3>6, TypeParts DEF QueueStep, RowsStep
  <2> QED BY <2>4, <2>5
<1>3. ASSUME NEW t \in Slots, JoinBegins(t) PROVE TypeInv' /\ QueueStep /\ RowsStep
  <2> DEFINE r == [Idle EXCEPT !.kind = "join", !.pc = "joining"]
  <2>0. t \in Tasks /\ session \in Players \cup {NoPlayer} /\ joined \subseteq Players
    BY <1>p DEF Tasks, VoiceOK
  <2>1. /\ task' = [task EXCEPT ![t] = r] /\ Waits(task[t]) /\ Command
        /\ UNCHANGED <<memory, database, voice, playing, history>>
    BY <1>3 DEF JoinBegins, Waits
  <2>2. r \in TaskRecord /\ r.pc = "joining" BY <1>i
  <2> HIDE DEF r
  <2>3. session' = session /\ joined' = joined BY <2>1 DEF voice
  <2> QED BY <2>0, <2>1, <2>2, <2>3, <1>w
<1>4. ASSUME NEW t \in Slots, NEW kind \in {"skip", "idle"}, Advance(t, kind, session),
             task[t].pc = "free", VoiceOK',
             UNCHANGED <<loopMode, isPlaying, database, history>>,
             Command \/ UNCHANGED bounds
      PROVE  TypeInv' /\ QueueStep /\ RowsStep
  <2>0. t \in Tasks /\ session \in Players \cup {NoPlayer} BY <1>p DEF Tasks, VoiceOK
  <2>1. Takes(t) \/ Passes(t) BY <2>0, <1>4, AdvanceIs
  <2>2. ~Holds(task[t]) BY <1>4 DEF Holds
  <2>3. DatabaseOK' /\ BoundsOK' /\ HistoryOK' /\ SameHistory /\ looped' = looped
    BY <1>4, PartsStay, BoundsStep
  <2>4. UNCHANGED <<rows, rowLock>> BY <1>4 DEF database
  <2>5. CASE Takes(t)
    <3>1. /\ TasksOK' /\ RowsStay
          /\ songs' \in Seq(Songs) /\ currentSong' \in Songs \cup {NoSong}
      BY <2>0, <2>4, <2>5, TakeTypes
    <3>2. MemoryOK' BY <1>4, <1>p, <3>1 DEF MemoryOK
    <3> QED BY <1>4, <2>0, <2>2, <2>3, <2>5, <3>1, <3>2, TypeParts DEF QueueStep, RowsStep
  <2>6. CASE Passes(t)
    <3>1. TasksOK' /\ Steady /\ RowsStay BY <2>0, <2>2, <2>3, <2>4, <2>6, PassSteady
    <3>2. MemoryOK' BY <1>4, <1>p, <2>6 DEF MemoryOK, Passes
    <3> QED BY <1>4, <2>3, <3>1, <3>2, TypeParts DEF QueueStep, RowsStep
  <2> QED BY <2>1, <2>5, <2>6
<1>5. ASSUME NEW t \in Slots, Skip(t) PROVE TypeInv' /\ QueueStep /\ RowsStep
  <2>1. /\ Advance(t, "skip", session) /\ task[t].pc = "free" /\ Command
        /\ UNCHANGED <<loopMode, isPlaying, database, history>>
        /\ UNCHANGED <<voice, listening>>
        /\ audio' \in {audio, Halted(player.player)} /\ player' \in {player, Wiped(player)}
    BY <1>5 DEF Skip
  <2>2. player.player \in Players \cup {NoPlayer} BY <1>p DEF VoiceOK
  <2>3. VoiceOK' BY <1>p, <2>1, <2>2, VoiceParts DEF VoiceOK, voice
  <2> QED BY <1>4, <2>1, <2>3
<1>6. ASSUME NEW t \in Slots, NEW p \in Players, EndsWithNext(p, t)
      PROVE  TypeInv' /\ QueueStep /\ RowsStep
  <2>1. /\ Advance(t, "idle", session) /\ task[t].pc = "free"
        /\ UNCHANGED <<loopMode, isPlaying, database, bounds, history>>
        /\ UNCHANGED <<voice, player, listening>>
        /\ audio' = [audio EXCEPT ![p] = Silent]
    BY <1>6 DEF EndsWithNext, Ends
  <2>2. Silent \in [song : Songs \cup {NoSong},
          status : {"idle", "buffering", "playing", "paused", "autopaused", "stopping"}]
    BY DEF Silent
  <2>3. VoiceOK' BY <1>p, <2>1, <2>2 DEF VoiceOK, voice
  <2>4. UNCHANGED <<loopMode, isPlaying, database, history>> /\ UNCHANGED bounds BY <2>1
  <2> QED BY <1>4, <2>1, <2>3, <2>4
<1> QED BY <1>1, <1>2, <1>3, <1>5, <1>6

\* The steps that move songs into the queue or out of a call.
LEMMA SongSteps ==
  ASSUME TypeInv,
         \/ \E s \in Songs : Enqueued(s)
         \/ \E t \in Tasks : Fetched(t) \/ FetchFails(t)
         \/ \E t \in Slots : Clear(t) \/ ThrownOut(t) \/ Shuffle(t)
         \/ \E t \in Slots, n \in 1..(Len(songs) - 1) : Remove(t, n)
         \/ Restart
  PROVE  TypeInv' /\ QueueStep /\ RowsStep
<1>p. MemoryOK /\ DatabaseOK /\ VoiceOK /\ HistoryOK /\ TasksOK BY TypeParts
<1>t. \A t \in Tasks : task[t] \in TaskRecord /\ Carries(task[t]) BY <1>p DEF TasksOK
<1>k. InQueue \subseteq Songs /\ \A i \in DOMAIN songs : songs[i] \in Songs
  BY <1>p DEF InQueue, MemoryOK
<1>0. QueueStep BY DEF QueueStep
<1>1. ASSUME NEW s \in Songs, Enqueued(s) PROVE TypeInv' /\ RowsStep
  <2> DEFINE r == [task[s] EXCEPT !.pc = "adding", !.song = s]
  <2>0. s \in Tasks BY DEF Tasks
  <2>1. /\ task' = [task EXCEPT ![s] = r] /\ songs' = Append(songs, s)
        /\ accepted' = accepted \cup {s}
        /\ UNCHANGED <<loopMode, currentSong, isPlaying, database, voice, playing, bounds,
                       started, dropped, replayed, looped>>
    BY <1>1, <1>p, <2>0 DEF Enqueued, TasksOK
  <2>2. r \in TaskRecord /\ r.pc = "adding" /\ r.song = s
    <3>1. [task[s] EXCEPT !.pc = "adding"] \in TaskRecord BY <1>t, <2>0, TaskFields
    <3>2. r \in TaskRecord BY <3>1, TaskFields
    <3> QED BY <1>t, <2>0, <3>2 DEF TaskRecord
  <2> HIDE DEF r
  <2>3. Becomes(s, r) BY <2>1, <2>2 DEF Becomes, Carries
  <2>4. DatabaseOK' /\ VoiceOK' /\ BoundsOK' BY <2>1, PartsStay, BoundsStep
  <2>5. MemoryOK' BY <1>p, <2>1 DEF MemoryOK
  <2>6. HistoryOK' BY <1>p, <2>1 DEF HistoryOK
  <2>7. TasksOK' /\ RowsStay BY <2>0, <2>1, <2>2, <2>3, OneSteady DEF database
  <2> QED BY <2>4, <2>5, <2>6, <2>7, TypeParts DEF RowsStep
\* The call returns.
<1>r. ASSUME NEW t \in Tasks, task' = [task EXCEPT ![t] = Finished(t)],
             UNCHANGED database
      PROVE  TasksOK' /\ DatabaseOK' /\ RowsStay
  <2>1. Becomes(t, Finished(t)) BY <1>r, FinishedIs DEF Becomes, Carries
  <2>2. Finished(t).pc # "creating" BY FinishedIs
  <2>3. UNCHANGED <<rows, rowLock>> BY <1>r DEF database
  <2> QED BY <1>r, <2>1, <2>2, <2>3, OneSteady, PartsStay
<1>2. ASSUME NEW t \in Tasks, Fetched(t) PROVE TypeInv' /\ RowsStep
  <2> PICK song \in Songs : song = task[t].song BY <1>2, <1>t DEF Fetched, Carries
  <2> PICK s \in Players \cup {NoPlayer} : s = task[t].session BY <1>t DEF TaskRecord
  <2>1. /\ isPlaying' = TRUE /\ currentSong' = song
        /\ player' \in {Started(s, song), Wiped(Started(s, song))}
        /\ listening' = (listening \/ player.player = NoPlayer)
        /\ audio' = [audio EXCEPT ![s] = [song |-> song, status |-> "buffering"]]
        /\ started' = started \cup {song} /\ replayed' \in {replayed \cup {song}, replayed}
        /\ task' = [task EXCEPT ![t] = Finished(t)]
        /\ UNCHANGED <<songs, loopMode, database, voice, bounds, accepted, dropped, looped>>
    BY <1>2 DEF Fetched
  <2>2. TasksOK' /\ DatabaseOK' /\ RowsStay BY <1>r, <2>1
  <2>3. MemoryOK' BY <1>p, <2>1 DEF MemoryOK
  <2>4. HistoryOK' BY <1>p, <2>1 DEF HistoryOK
  <2>5. BoundsOK' BY <2>1, BoundsStep
  <2>6. VoiceOK'
    <3> DEFINE A == [song : Songs \cup {NoSong},
                     status : {"idle", "buffering", "playing", "paused", "autopaused", "stopping"}]
    <3>1. [song |-> song, status |-> "buffering"] \in A OBVIOUS
    <3> HIDE DEF A
    <3>2. audio' \in [Players -> A]
      <4>1. audio \in [Players -> A] BY <1>p DEF VoiceOK, A
      <4> QED BY <2>1, <3>1, <4>1
    <3>3. player' \in [player : Players \cup {NoPlayer}, song : Songs \cup {NoSong},
                       playing : BOOLEAN, paused : BOOLEAN]
      <4> DEFINE P == [player : Players \cup {NoPlayer}, song : Songs \cup {NoSong},
                       playing : BOOLEAN, paused : BOOLEAN]
      <4>1. Started(s, song) \in P /\ Wiped(Started(s, song)) \in P BY <1>p, VoiceParts
      <4>2. player' = Started(s, song) \/ player' = Wiped(Started(s, song)) BY <2>1
      <4> HIDE DEF P
      <4>3. player' \in P BY <4>1, <4>2
      <4> QED BY <4>3 DEF P
    <3>4. listening' \in BOOLEAN BY <1>p, <2>1 DEF VoiceOK
    <3>5. session' \in Players \cup {NoPlayer} /\ joined' \subseteq Players
      BY <1>p, <2>1 DEF VoiceOK, voice
    <3> QED BY <3>2, <3>3, <3>4, <3>5 DEF VoiceOK, A
  <2> QED BY <2>2, <2>3, <2>4, <2>5, <2>6, TypeParts DEF RowsStep
<1>3. ASSUME NEW t \in Tasks, FetchFails(t) PROVE TypeInv' /\ RowsStep
  <2>1. task[t].song \in Songs BY <1>3, <1>t DEF FetchFails, Carries
  <2>2. /\ Fault /\ player' \in {player, Wiped(player)} /\ dropped' = dropped \cup {task[t].song}
        /\ task' = [task EXCEPT ![t] = Finished(t)]
        /\ UNCHANGED <<memory, database, voice, listening, audio, accepted, started, replayed,
                       looped>>
    BY <1>3 DEF FetchFails
  <2>3. TasksOK' /\ DatabaseOK' /\ RowsStay BY <1>r, <2>2
  <2>4. MemoryOK' /\ BoundsOK' BY <2>2, PartsStay, BoundsStep
  <2>5. HistoryOK' BY <1>p, <2>1, <2>2 DEF HistoryOK
  <2>6. VoiceOK' BY <1>p, <2>2, VoiceParts DEF VoiceOK, voice
  <2> QED BY <2>3, <2>4, <2>5, <2>6, TypeParts DEF RowsStep
\* A slot is given a call that has no song.
<1>g. ASSUME NEW t \in Slots, NEW k \in {"write", "rewrite"}, NEW q \in {"clearing", "removing"},
             NEW n \in Nat, q = "removing" => k = "write",
             \/ task' = [task EXCEPT ![t] = [Idle EXCEPT !.kind = k, !.pc = q, !.position = n]]
             \/ task' = [task EXCEPT ![t] = [Idle EXCEPT !.kind = k, !.pc = q]],
             UNCHANGED database
      PROVE  TasksOK' /\ DatabaseOK' /\ RowsStay
  <2> DEFINE a == [Idle EXCEPT !.kind = k, !.pc = q]
             b == [Idle EXCEPT !.kind = k, !.pc = q, !.position = n]
  <2>1. [Idle EXCEPT !.kind = k] \in TaskRecord BY FinishedIs, TaskFields
  <2>2. a \in TaskRecord BY <2>1, TaskFields
  <2>3. b \in TaskRecord BY <2>2, TaskFields
  <2>4. /\ a.pc = q /\ b.pc = q /\ a.kind = k /\ b.kind = k
        /\ a.song = NoSong /\ b.song = NoSong
    BY DEF Idle
  <2> HIDE DEF a, b
  <2>5. PICK r : Becomes(t, r) /\ r.pc # "creating"
    <3>1. Carries(a) /\ Carries(b) /\ a.pc # "creating" /\ b.pc # "creating"
      BY <1>g, <2>4 DEF Carries
    <3>2. task' = [task EXCEPT ![t] = a] \/ task' = [task EXCEPT ![t] = b] BY <1>g DEF a, b
    <3> QED BY <2>2, <2>3, <3>1, <3>2 DEF Becomes
  <2>6. t \in Tasks /\ UNCHANGED <<rows, rowLock>> BY <1>g DEF database, Tasks
  <2> QED BY <1>g, <2>5, <2>6, OneSteady, PartsStay
<1>4. ASSUME NEW t \in Slots, Clear(t) PROVE TypeInv' /\ RowsStep
  <2>1. /\ Command /\ songs' = <<>> /\ currentSong' = NoSong /\ dropped' = dropped \cup InQueue
        /\ task' = [task EXCEPT ![t] =
                      [Idle EXCEPT !.kind = "write", !.pc = "clearing", !.position = 0]]
        /\ UNCHANGED <<loopMode, isPlaying, database, voice, playing, accepted, started, replayed,
                       looped>>
    BY <1>4 DEF Clear, Write
  <2>2. TasksOK' /\ DatabaseOK' /\ RowsStay BY <1>g, <2>1
  <2>3. BoundsOK' /\ VoiceOK' BY <2>1, PartsStay, BoundsStep
  <2>4. MemoryOK' BY <1>p, <2>1 DEF MemoryOK
  <2>5. HistoryOK' BY <1>p, <1>k, <2>1 DEF HistoryOK
  <2> QED BY <2>2, <2>3, <2>4, <2>5, TypeParts DEF RowsStep
<1>5. ASSUME NEW t \in Slots, ThrownOut(t) PROVE TypeInv' /\ RowsStep
  <2>1. /\ Fault /\ songs' = <<>> /\ currentSong' = NoSong /\ dropped' = dropped \cup InQueue
        /\ task' = [task EXCEPT ![t] = [Idle EXCEPT !.kind = "write", !.pc = "clearing"]]
        /\ UNCHANGED <<loopMode, isPlaying, database, accepted, started, replayed, looped>>
        /\ session' = NoPlayer /\ UNCHANGED <<joined, player>>
        /\ listening' = (listening /\ player.player # session)
        /\ audio' = Halted(session)
    BY <1>5 DEF ThrownOut, CleanupSession
  <2>2. TasksOK' /\ DatabaseOK' /\ RowsStay BY <1>g, <2>1
  <2>3. BoundsOK' BY <2>1, BoundsStep
  <2>4. MemoryOK' BY <1>p, <2>1 DEF MemoryOK
  <2>5. HistoryOK' BY <1>p, <1>k, <2>1 DEF HistoryOK
  <2>6. VoiceOK' BY <1>p, <2>1, VoiceParts DEF VoiceOK
  <2> QED BY <2>2, <2>3, <2>4, <2>5, <2>6, TypeParts DEF RowsStep
<1>6. ASSUME NEW t \in Slots, Shuffle(t) PROVE TypeInv' /\ RowsStep
  <2>1. /\ Command /\ songs' \in [DOMAIN songs -> InQueue]
        /\ task' = [task EXCEPT ![t] = [Idle EXCEPT !.kind = "rewrite", !.pc = "clearing"]]
        /\ UNCHANGED <<loopMode, currentSong, isPlaying, database, voice, playing, history>>
    BY <1>6 DEF Shuffle
  <2>2. TasksOK' /\ DatabaseOK' /\ RowsStay BY <1>g, <2>1
  <2>3. BoundsOK' /\ VoiceOK' /\ HistoryOK' BY <2>1, PartsStay, BoundsStep
  <2>4. songs' \in Seq(Songs)
    <3>1. Len(songs) \in Nat /\ DOMAIN songs = 1..Len(songs) BY <1>p DEF MemoryOK
    <3>2. songs' \in [1..Len(songs) -> Songs] BY <1>k, <2>1, <3>1
    <3> QED BY <3>1, <3>2
  <2>5. MemoryOK' BY <1>p, <2>1, <2>4 DEF MemoryOK
  <2> QED BY <2>2, <2>3, <2>5, TypeParts DEF RowsStep
<1>7. ASSUME NEW t \in Slots, NEW n \in 1..(Len(songs) - 1), Remove(t, n)
      PROVE  TypeInv' /\ RowsStep
  <2>1. /\ Command /\ songs' = Spliced(n) /\ dropped' = dropped \cup {songs[n + 1]}
        /\ task' = [task EXCEPT ![t] =
                      [Idle EXCEPT !.kind = "write", !.pc = "removing", !.position = n]]
        /\ UNCHANGED <<loopMode, currentSong, isPlaying, database, voice, playing,
                       accepted, started, replayed, looped>>
    BY <1>7 DEF Remove, Write
  <2>2. n \in Nat /\ songs[n + 1] \in Songs /\ songs \in Seq(Songs) BY <1>p DEF MemoryOK
  <2>3. TasksOK' /\ DatabaseOK' /\ RowsStay BY <1>g, <2>1, <2>2
  <2>4. BoundsOK' /\ VoiceOK' BY <2>1, PartsStay, BoundsStep
  <2>5. MemoryOK' BY <1>p, <2>1, <2>2, SplicedIs DEF MemoryOK
  <2>6. HistoryOK' BY <1>p, <2>1, <2>2 DEF HistoryOK
  <2> QED BY <2>3, <2>4, <2>5, <2>6, TypeParts DEF RowsStep
<1>8. ASSUME Restart PROVE TypeInv' /\ RowsStep
  <2>1. /\ Fault
        /\ songs' = <<>> /\ loopMode' = "none" /\ currentSong' = NoSong /\ isPlaying' = FALSE
        /\ session' = NoPlayer /\ player' = NothingLoaded /\ listening' = FALSE
        /\ audio' = [p \in Players |-> Silent]
        /\ rowLock' = NoSong
        /\ task' = [t \in Tasks |-> IF task[t].pc = "free" THEN Idle ELSE Finished(t)]
        /\ dropped' = dropped \cup (accepted \ started)
        /\ UNCHANGED <<rows, joined, accepted, started, replayed, looped>>
    BY <1>8 DEF Restart
  <2>2. BoundsOK' BY <2>1, BoundsStep
  <2>3. MemoryOK'
    <3>1. songs' \in Seq(Songs) BY <2>1
    <3>2. loopMode' \in LoopModes BY <2>1 DEF LoopModes
    <3>3. isPlaying' \in BOOLEAN /\ currentSong' \in Songs \cup {NoSong} BY <2>1
    <3> QED BY <3>1, <3>2, <3>3 DEF MemoryOK
  <2>4. HistoryOK' BY <1>p, <2>1 DEF HistoryOK
  <2>5. DatabaseOK' BY <1>p, <2>1 DEF DatabaseOK
  <2>6. VoiceOK' BY <1>p, <2>1 DEF VoiceOK, NothingLoaded, Silent
  <2>7. TasksOK'
    <3>1. Carries(Idle) /\ \A t : Carries(Finished(t)) BY FinishedIs DEF Carries, Idle
    <3> QED BY <2>1, <3>1, FinishedIs DEF TasksOK
  <2>8. RowsStep BY <1>8 DEF RowsStep
  <2> QED BY <2>2, <2>3, <2>4, <2>5, <2>6, <2>7, <2>8, TypeParts
<1> QED BY <1>0, <1>1, <1>2, <1>3, <1>4, <1>5, <1>6, <1>7, <1>8

\* Every step keeps the types, and is one of the steps of the queue and one
\* of the steps of the rows.
LEMMA EveryStep ==
  ASSUME TypeInv, [Next]_vars
  PROVE  TypeInv' /\ QueueStep /\ RowsStep
<1>1. CASE UNCHANGED vars
  <2>1. /\ UNCHANGED memory /\ UNCHANGED database /\ UNCHANGED voice /\ UNCHANGED playing
        /\ UNCHANGED bounds /\ UNCHANGED history /\ task' = task
    BY <1>1 DEF vars, memory, database, voice, playing, bounds, history
  <2>2. /\ MemoryOK' /\ DatabaseOK' /\ VoiceOK' /\ BoundsOK' /\ HistoryOK'
        /\ SameHistory /\ looped' = looped
    BY <2>1, PartsStay, BoundsStep
  <2>3. TasksOK' /\ Steady /\ RowsStay BY <2>1, <2>2, StillSteady DEF memory, database
  <2> QED BY <2>1, <2>2, <2>3, TypeParts DEF QueueStep, RowsStep, memory
<1>2. CASE \E s \in Songs : PlayBegins(s) \/ Enqueued(s) BY <1>2, BeginSteps, SongSteps
<1>3. CASE \E t \in Tasks : TaskStep(t) \/ TaskFails(t)
  BY <1>3, BeginSteps, SongSteps, WriteSteps DEF TaskStep, TaskFails
<1>4. CASE \E t \in Slots : SlotCommand(t)
  <2> PICK t \in Slots : SlotCommand(t) BY <1>4
  <2>1. CASE JoinBegins(t) \/ Skip(t) BY <2>1, BeginSteps
  <2>2. CASE Clear(t) \/ Shuffle(t) \/ ThrownOut(t) BY <2>2, SongSteps
  <2>3. CASE \E n \in 1..Len(songs) : Remove(t, n)
    <3> PICK n \in 1..Len(songs) : Remove(t, n) BY <2>3
    <3>1. n \in 1..(Len(songs) - 1) BY DEF Remove
    <3> QED BY <3>1, SongSteps
  <2> QED BY <2>1, <2>2, <2>3 DEF SlotCommand
<1>5. CASE \/ \E mode \in LoopChoices : SetLoop(mode)
           \/ Leave \/ Stop \/ Pause \/ ConnectionLost
  BY <1>5, PlayerSteps
<1>6. CASE Restart BY <1>6, SongSteps
<1>7. CASE \E p \in Players : AudioStep(p) \/ PausesItself(p) \/ Breaks(p)
  <2> PICK p \in Players : AudioStep(p) \/ PausesItself(p) \/ Breaks(p) BY <1>7
  <2>1. CASE Plays(p) \/ EndsQuietly(p) \/ PausesItself(p) \/ Breaks(p) BY <2>1, PlayerSteps
  <2>2. CASE \E t \in Slots : EndsWithNext(p, t) BY <2>2, BeginSteps
  <2> QED BY <2>1, <2>2 DEF AudioStep
<1> QED BY <1>1, <1>2, <1>3, <1>4, <1>5, <1>6, <1>7 DEF Next

-----------------------------------------------------------------------------
(* Theorems.                                                               *)

LEMMA AlwaysTyped == Spec => []TypeInv
<1>1. Init => TypeInv BY TypesInit
<1>2. TypeInv /\ [Next]_vars => TypeInv' BY EveryStep
<1> QED BY <1>1, <1>2, PTL DEF Spec

\* Every variable has its type in every state: a call on its way has the song
\* it is about, the queue never holds anything but songs, and the entry of the
\* player names a player or none.
THEOREM PlayerTyped == Spec => []TypeOK
<1>1. TypeInv => TypeOK BY DEF TypeInv
<1> QED BY <1>1, AlwaysTyped, PTL

\* The call that has counted the rows holds the lock until it has written its
\* own, and there is room for it.
LockInv ==
  /\ Cardinality(rows) <= MaxQueueSize
  /\ \A t \in Tasks : task[t].pc = "creating" => rowLock = t /\ Cardinality(rows) < MaxQueueSize

LEMMA LockStep ==
  ASSUME TypeInv, LockInv, [Next]_vars
  PROVE  LockInv'
<1>1. TypeInv' /\ RowsStep BY EveryStep
<1>p. DatabaseOK /\ TasksOK /\ MaxQueueSize \in Nat BY TypeParts, MusicQueueAssumption
<1>t. \A t \in Tasks : task[t] \in TaskRecord /\ Carries(task[t]) BY <1>p DEF TasksOK
<1>c. Cardinality(rows) \in Nat BY <1>p, FS_CardinalityType DEF DatabaseOK
<1>n. NoSong \notin Tasks BY MusicQueueAssumption, MusicPlayerAssumption DEF Tasks
<1>l. \A t \in Tasks : task[t].pc = "creating" => rowLock = t /\ Cardinality(rows) < MaxQueueSize
  BY DEF LockInv
\* A call that moves on, and does not come to hold the lock.
<1>m. ASSUME NEW t \in Tasks, Takes(t) \/ Passes(t)
      PROVE  /\ task'[t].pc # "creating"
             /\ \A u \in Tasks \ {t} : task'[u] = task[u]
  <2>1. PICK r : Becomes(t, r) /\ r.pc # "creating" BY <1>m DEF Takes, Passes, Holds
  <2> QED BY <1>p, <2>1, BecomesOK
<1>2. CASE RowsStay BY <1>2 DEF RowsStay, LockInv
<1>3. ASSUME NEW t \in Tasks, CountRows(t) PROVE LockInv'
  <2>1. /\ rowLock = NoSong /\ rowLock' = t /\ rows' = rows
        /\ Cardinality(rows) < MaxQueueSize
        /\ \A u \in Tasks \ {t} : task'[u] = task[u]
    BY <1>3, <1>p DEF CountRows, TasksOK
  <2>2. \A u \in Tasks : task[u].pc # "creating" BY <1>l, <1>n, <2>1
  <2> QED BY <2>1, <2>2, <1>c, <1>p DEF LockInv
<1>4. ASSUME NEW t \in Tasks, CreateRow(t) PROVE LockInv'
  <2>1. /\ rowLock' = NoSong /\ rows' = RowsWith(task[t].song, task[t].position)
        /\ task[t].pc = "creating" /\ AddReturned(t)
    BY <1>4 DEF CreateRow
  <2>2. task[t].song \in Songs /\ task[t].position \in Nat
    BY <1>t, <2>1 DEF Carries, TaskRecord
  <2>3. Cardinality(rows') \in Nat /\ Cardinality(rows') <= Cardinality(rows) + 1
    BY <1>p, <2>1, <2>2, RowsGrow
  <2>4. rowLock = t /\ Cardinality(rows) < MaxQueueSize BY <1>l, <2>1
  <2>5. \A u \in Tasks \ {t} : task[u].pc # "creating" BY <1>l, <2>4
  <2>6. \A u \in Tasks : task'[u].pc # "creating" BY <1>m, <2>1, <2>5, AddReturnedIs
  <2> QED BY <1>c, <1>p, <2>3, <2>4, <2>6 DEF LockInv
<1>5. ASSUME NEW t \in Tasks, AddFails(t) PROVE LockInv'
  <2>1. /\ rowLock' = IF rowLock = t THEN NoSong ELSE rowLock
        /\ rows' = rows /\ AddGivenUp(t)
    BY <1>5 DEF AddFails
  <2>2. /\ task'[t].pc # "creating" /\ \A u \in Tasks \ {t} : task'[u] = task[u]
    BY <1>m, <2>1, AddGivenUpIs
  <2>3. \A u \in Tasks : task'[u].pc = "creating" => rowLock' = u
    BY <1>l, <2>1, <2>2
  <2> QED BY <1>l, <2>1, <2>2, <2>3 DEF LockInv
<1>6. ASSUME NEW t \in Tasks, RemoveRow(t) PROVE LockInv'
  <2>1. /\ rowLock' = rowLock /\ rows' = RowsWithout(task[t].position)
        /\ task[t].position \in Nat
    BY <1>6, <1>t DEF RemoveRow, TaskRecord
  <2>2. Cardinality(rows') \in Nat /\ Cardinality(rows') <= Cardinality(rows)
    BY <1>p, <2>1, RowsShrink
  <2>3. /\ task'[t].pc # "creating" /\ \A u \in Tasks \ {t} : task'[u] = task[u]
    <3>1. Finished(t).pc # "creating" BY FinishedIs
    <3>2. [task[t] EXCEPT !.pc = "fetching"].pc = "fetching" BY <1>t DEF TaskRecord
    <3>3. \/ task' = [task EXCEPT ![t] = Finished(t)]
          \/ task' = [task EXCEPT ![t] = [task[t] EXCEPT !.pc = "fetching"]]
      BY <1>6, <1>p DEF RemoveRow, TasksOK
    <3> QED BY <3>1, <3>2, <3>3, <1>p DEF TasksOK
  <2> QED BY <1>c, <1>p, <2>1, <2>2, <2>3 DEF LockInv
<1>7. ASSUME NEW t \in Tasks, ClearRows(t) PROVE LockInv'
  <2>1. rowLock' = rowLock /\ rows' = {} BY <1>7 DEF ClearRows
  <2>2. Cardinality(rows') = 0 BY <2>1, FS_EmptySet
  <2>3. task'[t].pc # "creating" /\ \A u \in Tasks \ {t} : task'[u] = task[u]
    <3>1. \/ task' = [task EXCEPT ![t] = Finished(t)]
          \/ task' = [task EXCEPT ![t] = NextToWrite(t, 1)]
      BY <1>7 DEF ClearRows
    <3>2. Finished(t).pc # "creating" /\ NextToWrite(t, 1).pc # "creating"
      BY FinishedIs, NextToWriteIs
    <3> QED BY <3>1, <3>2, <1>p DEF TasksOK
  <2>4. \A u \in Tasks : task'[u].pc = "creating" => rowLock' = u /\ Cardinality(rows') < MaxQueueSize
    BY <1>c, <1>l, <1>p, <2>1, <2>2, <2>3
  <2> QED BY <1>p, <2>2, <2>4 DEF LockInv
<1>8. CASE Restart
  <2>1. /\ rows' = rows
        /\ task' = [t \in Tasks |-> IF task[t].pc = "free" THEN Idle ELSE Finished(t)]
    BY <1>8 DEF Restart
  <2>2. \A t : Finished(t).pc # "creating" /\ Idle.pc # "creating" BY FinishedIs DEF Idle
  <2>3. \A u \in Tasks : task'[u].pc # "creating" BY <2>1, <2>2
  <2> QED BY <2>1, <2>3 DEF LockInv
<1> QED BY <1>1, <1>2, <1>3, <1>4, <1>5, <1>6, <1>7, <1>8 DEF RowsStep

\* However the adds of several /play, the writes of a shuffle, the removals
\* and the retries interleave, and whichever of them fail, the queue never
\* has more rows than MAX_QUEUE_SIZE.
THEOREM RowsLimited == Spec => []RowsWithinLimit
<1>1. Init => LockInv
  <2> SUFFICES ASSUME Init PROVE LockInv OBVIOUS
  <2>1. rows = {} /\ Cardinality(rows) = 0 /\ MaxQueueSize \in Nat
    BY FS_EmptySet, MusicQueueAssumption DEF Init, MusicQueueInit
  <2>2. \A t \in Tasks : task[t].pc = "free" BY DEF Init, Idle
  <2> QED BY <2>1, <2>2 DEF LockInv
<1>2. TypeInv /\ LockInv /\ [Next]_vars => LockInv' BY LockStep
<1>3. LockInv => RowsWithinLimit BY DEF LockInv, RowsWithinLimit
<1> QED BY <1>1, <1>2, <1>3, AlwaysTyped, PTL DEF Spec

-----------------------------------------------------------------------------
(* The way of a song.                                                      *)

InHand(s) == \E t \in Tasks : Holds(task[t]) /\ task[t].song = s

\* The calls of a step that moves a song.
LEMMA Moved ==
  ASSUME TypeInv
  PROVE  /\ \A s \in Songs : Enqueued(s) =>
              /\ ~Holds(task'[s]) /\ ~Waits(task'[s]) /\ ~Holds(task[s]) /\ Waits(task[s])
              /\ \A u \in Tasks \ {s} : task'[u] = task[u]
         /\ \A t \in Tasks : Takes(t) =>
              /\ Holds(task'[t]) /\ task'[t].song = Dequeued.song /\ ~Waits(task'[t])
              /\ \A u \in Tasks \ {t} : task'[u] = task[u]
         /\ \A t \in Tasks : Fetched(t) \/ FetchFails(t) =>
              /\ Holds(task[t]) /\ task[t].song \in Songs
              /\ ~Holds(task'[t]) /\ (t \in Songs => ~Waits(task'[t]))
              /\ \A u \in Tasks \ {t} : task'[u] = task[u]
         /\ \A t \in Slots :
              Clear(t) \/ ThrownOut(t) \/ Shuffle(t) \/ (\E n \in Nat : Remove(t, n)) =>
              /\ ~Holds(task[t]) /\ ~Holds(task'[t])
              /\ \A u \in Tasks \ {t} : task'[u] = task[u]
         /\ Restart => /\ \A u \in Tasks : ~Holds(task'[u])
                       /\ \A s \in Songs : Waits(task'[s]) => Waits(task[s])
<1>t. task \in [Tasks -> TaskRecord] /\ \A t \in Tasks : Carries(task[t])
  BY TypeParts DEF TasksOK
<1>f. \A t : ~Holds(Finished(t)) /\ (t \in Songs => ~Waits(Finished(t)))
  BY FinishedIs, MusicPlayerAssumption DEF Holds, Waits
<1>1. ASSUME NEW s \in Songs, Enqueued(s)
      PROVE  /\ ~Holds(task'[s]) /\ ~Waits(task'[s]) /\ ~Holds(task[s]) /\ Waits(task[s])
             /\ \A u \in Tasks \ {s} : task'[u] = task[u]
  <2>1. s \in Tasks /\ task[s].pc = "resolving" BY <1>1 DEF Tasks, Enqueued
  <2>2. task'[s].pc = "adding" /\ \A u \in Tasks \ {s} : task'[u] = task[u]
    BY <1>1, <1>t, <2>1 DEF Enqueued, TaskRecord
  <2> QED BY <2>1, <2>2 DEF Holds, Waits
<1>2. ASSUME NEW t \in Tasks, Takes(t)
      PROVE  /\ Holds(task'[t]) /\ task'[t].song = Dequeued.song /\ ~Waits(task'[t])
             /\ \A u \in Tasks \ {t} : task'[u] = task[u]
  <2>1. PICK r : Becomes(t, r) /\ Holds(r) /\ r.song = Dequeued.song BY <1>2 DEF Takes
  <2>2. ~Waits(r) BY <2>1 DEF Holds, Waits
  <2> QED BY <2>1, <2>2, BecomesOK, TypeParts
<1>3. ASSUME NEW t \in Tasks, Fetched(t) \/ FetchFails(t)
      PROVE  /\ Holds(task[t]) /\ task[t].song \in Songs
             /\ ~Holds(task'[t]) /\ (t \in Songs => ~Waits(task'[t]))
             /\ \A u \in Tasks \ {t} : task'[u] = task[u]
  <2>1. task[t].pc = "fetching" /\ task' = [task EXCEPT ![t] = Finished(t)]
    BY <1>3 DEF Fetched, FetchFails
  <2>2. Holds(task[t]) /\ task[t].song \in Songs BY <1>t, <2>1 DEF Holds, Carries
  <2>3. task'[t] = Finished(t) /\ \A u \in Tasks \ {t} : task'[u] = task[u] BY <1>t, <2>1
  <2> QED BY <1>f, <2>2, <2>3
<1>4. ASSUME NEW t \in Slots,
             Clear(t) \/ ThrownOut(t) \/ Shuffle(t) \/ (\E n \in Nat : Remove(t, n))
      PROVE  /\ ~Holds(task[t]) /\ ~Holds(task'[t])
             /\ \A u \in Tasks \ {t} : task'[u] = task[u]
  <2>1. PICK r : /\ task' = [task EXCEPT ![t] = r] /\ r.kind \in {"write", "rewrite"}
                 /\ r.pc = "clearing" \/ r.kind = "write"
    <3> DEFINE a == [Idle EXCEPT !.kind = "write", !.pc = "clearing", !.position = 0]
               b == [Idle EXCEPT !.kind = "write", !.pc = "clearing"]
               c == [Idle EXCEPT !.kind = "rewrite", !.pc = "clearing"]
               d(n) == [Idle EXCEPT !.kind = "write", !.pc = "removing", !.position = n]
    <3>1. /\ a.kind = "write" /\ b.kind = "write"
          /\ c.kind = "rewrite" /\ c.pc = "clearing" /\ \A n : d(n).kind = "write"
      BY DEF Idle
    <3>2. \/ task' = [task EXCEPT ![t] = a] \/ task' = [task EXCEPT ![t] = b]
          \/ task' = [task EXCEPT ![t] = c] \/ \E n : task' = [task EXCEPT ![t] = d(n)]
      BY <1>4 DEF Clear, ThrownOut, Shuffle, Remove, Write
    <3> HIDE DEF a, b, c, d
    <3> QED BY <3>1, <3>2
  <2>2. task[t].pc = "free" BY <1>4 DEF Clear, ThrownOut, Shuffle, Remove, Write
  <2>3. ~Holds(r) /\ ~Holds(task[t]) BY <2>1, <2>2 DEF Holds
  <2> QED BY <1>t, <2>1, <2>3 DEF Tasks
<1>5. ASSUME Restart
      PROVE  /\ \A u \in Tasks : ~Holds(task'[u])
             /\ \A s \in Songs : Waits(task'[s]) => Waits(task[s])
  <2>1. task' = [t \in Tasks |-> IF task[t].pc = "free" THEN Idle ELSE Finished(t)]
    BY <1>5 DEF Restart
  <2>2. ~Holds(Idle) BY DEF Holds, Idle
  <2>3. \A u \in Tasks : ~Holds(task'[u]) BY <1>f, <2>1, <2>2
  <2>4. ASSUME NEW s \in Songs, Waits(task'[s]) PROVE Waits(task[s])
    <3>1. task[s].pc = "free" BY <1>f, <2>1, <2>4 DEF Tasks
    <3> QED BY <3>1 DEF Waits
  <2> QED BY <2>3, <2>4
<1> QED BY <1>1, <1>2, <1>3, <1>4, <1>5

\* A call that is in the same place before and after a step still has its
\* song.
LEMMA StillInHand ==
  ASSUME NEW t, \A u \in Tasks \ {t} : task'[u] = task[u], NEW s, InHand(s),
         Holds(task[t]) /\ task[t].song = s => Holds(task'[t]) /\ task'[t].song = s
  PROVE  InHand(s)'
BY DEF InHand, Holds

\* Where an accepted song is.
KeptInv == \A s \in accepted : s \in InQueue \/ InHand(s) \/ s \in started \/ s \in dropped

LEMMA KeptStep ==
  ASSUME TypeInv, KeptInv, [Next]_vars
  PROVE  KeptInv'
<1>1. TypeInv' /\ QueueStep BY EveryStep
<1>p. /\ songs \in Seq(Songs) /\ loopMode \in LoopModes /\ currentSong \in Songs \cup {NoSong}
      /\ accepted \subseteq Songs
  BY TypeParts DEF MemoryOK, HistoryOK
<1>a. ASSUME NEW s \in accepted
      PROVE  s \in InQueue \/ InHand(s) \/ s \in started \/ s \in dropped
  BY DEF KeptInv
<1>s. SUFFICES ASSUME NEW s \in accepted'
               PROVE  s \in InQueue' \/ InHand(s)' \/ s \in started' \/ s \in dropped'
  BY DEF KeptInv
<1>2. CASE Steady
  <2>1. s \in accepted /\ songs' = songs /\ started' = started /\ dropped' = dropped
    BY <1>2 DEF Steady, SameHistory
  <2>2. InHand(s) => InHand(s)' BY <1>2 DEF Steady, InHand, Holds
  <2> QED BY <1>a, <2>1, <2>2 DEF InQueue
<1>3. ASSUME NEW mode \in LoopModes, SetLoop(mode)
      PROVE s \in InQueue' \/ InHand(s)' \/ s \in started' \/ s \in dropped'
  <2>1. s \in accepted /\ songs' = songs /\ started' = started /\ dropped' = dropped
          /\ task' = task
    BY <1>3 DEF SetLoop
  <2> QED BY <1>a, <2>1 DEF InQueue, InHand
<1>4. ASSUME NEW u \in Songs, Enqueued(u)
      PROVE s \in InQueue' \/ InHand(s)' \/ s \in started' \/ s \in dropped'
  <2>1. /\ songs' = Append(songs, u) /\ accepted' = accepted \cup {u}
        /\ started' = started /\ dropped' = dropped
    BY <1>4 DEF Enqueued
  <2>2. InQueue' = InQueue \cup {u} BY <1>p, <2>1 DEF InQueue
  <2>3. /\ ~Holds(task'[u]) /\ ~Holds(task[u])
        /\ \A v \in Tasks \ {u} : task'[v] = task[v]
    BY <1>4, Moved
  <2>4. InHand(s) => InHand(s)' BY <2>3, StillInHand
  <2> QED BY <1>a, <2>1, <2>2, <2>4
<1>5. ASSUME NEW t \in Tasks, Takes(t), ~Holds(task[t]), SameHistory
      PROVE s \in InQueue' \/ InHand(s)' \/ s \in started' \/ s \in dropped'
  <2>1. /\ Holds(task'[t]) /\ task'[t].song = Dequeued.song
        /\ \A v \in Tasks \ {t} : task'[v] = task[v]
    BY <1>5, Moved
  <2>2. songs' = Dequeued.rest BY <1>5 DEF Takes
  <2>3. InHand(s) => InHand(s)' BY <1>5, <2>1, StillInHand
  <2>4. s = Dequeued.song => InHand(s)' BY <2>1 DEF InHand
  <2>5. ASSUME s \in InQueue PROVE s \in InQueue' \/ s = Dequeued.song
    <3> PICK i \in DOMAIN songs : s = songs[i] BY <2>5 DEF InQueue
    <3>1. s = Dequeued.song \/ \E j \in DOMAIN songs' : songs'[j] = s
      BY <1>p, <2>2, DequeuedIs
    <3> QED BY <3>1 DEF InQueue
  <2> QED BY <1>5, <1>a, <2>3, <2>4, <2>5 DEF SameHistory
<1>6. ASSUME NEW t \in Tasks, Fetched(t) \/ FetchFails(t)
      PROVE s \in InQueue' \/ InHand(s)' \/ s \in started' \/ s \in dropped'
  <2>1. /\ songs' = songs /\ s \in accepted
        /\ \/ started' = started \cup {task[t].song} /\ dropped' = dropped
           \/ started' = started /\ dropped' = dropped \cup {task[t].song}
    BY <1>6 DEF Fetched, FetchFails, memory
  <2>2. \A v \in Tasks \ {t} : task'[v] = task[v] BY <1>6, Moved
  <2>3. InHand(s) /\ task[t].song # s => InHand(s)' BY <2>2, StillInHand
  <2> QED BY <1>a, <2>1, <2>3 DEF InQueue
<1>7. ASSUME NEW t \in Slots, Clear(t) \/ ThrownOut(t) \/ Shuffle(t) \/ (\E n \in Nat : Remove(t, n)),
             InQueue \subseteq InQueue' \cup dropped', dropped \subseteq dropped',
             UNCHANGED <<accepted, started>>
      PROVE s \in InQueue' \/ InHand(s)' \/ s \in started' \/ s \in dropped'
  <2>1. /\ ~Holds(task[t]) /\ \A v \in Tasks \ {t} : task'[v] = task[v]
    BY <1>7, Moved
  <2>2. InHand(s) => InHand(s)' BY <2>1, StillInHand
  <2> QED BY <1>7, <1>a, <2>2
<1>8. ASSUME NEW t \in Slots, Clear(t) \/ ThrownOut(t)
      PROVE s \in InQueue' \/ InHand(s)' \/ s \in started' \/ s \in dropped'
  <2>1. dropped' = dropped \cup InQueue /\ UNCHANGED <<accepted, started>>
    BY <1>8 DEF Clear, ThrownOut
  <2> QED BY <1>7, <1>8, <2>1
<1>9. ASSUME NEW t \in Slots, Shuffle(t)
      PROVE s \in InQueue' \/ InHand(s)' \/ s \in started' \/ s \in dropped'
  <2>1. /\ UNCHANGED history /\ songs' \in [DOMAIN songs -> InQueue]
        /\ \A x \in InQueue : \E i \in DOMAIN songs : songs'[i] = x
    BY <1>9 DEF Shuffle
  <2>2. UNCHANGED <<accepted, started, dropped>> BY <2>1 DEF history
  <2>3. InQueue \subseteq InQueue' BY <2>1 DEF InQueue
  <2> QED BY <1>7, <1>9, <2>2, <2>3
<1>10. ASSUME NEW t \in Slots, NEW n \in 1..(Len(songs) - 1), Remove(t, n)
      PROVE s \in InQueue' \/ InHand(s)' \/ s \in started' \/ s \in dropped'
  <2>1. /\ songs' = Spliced(n) /\ dropped' = dropped \cup {songs[n + 1]}
        /\ UNCHANGED <<accepted, started>>
    BY <1>10 DEF Remove
  <2>2. n \in Nat /\ Len(songs) \in Nat BY <1>p
  <2>3. ASSUME NEW i \in DOMAIN songs PROVE songs[i] \in InQueue' \cup dropped'
    <3>1. CASE i = n + 1 BY <2>1, <3>1
    <3>2. CASE i <= n
      <4>1. i \in DOMAIN songs' /\ songs'[i] = songs[i] BY <1>p, <2>1, <2>2, <3>2, SplicedIs
      <4> QED BY <4>1 DEF InQueue
    <3>3. CASE i > n + 1
      <4>1. i - 1 \in DOMAIN songs' /\ songs'[i - 1] = songs[i]
        BY <1>p, <2>1, <2>2, <3>3, SplicedIs
      <4> QED BY <4>1 DEF InQueue
    <3> QED BY <1>p, <2>2, <3>1, <3>2, <3>3
  <2>4. InQueue \subseteq InQueue' \cup dropped' BY <2>3 DEF InQueue
  <2>5. \E k \in Nat : Remove(t, k) BY <1>10, <2>2
  <2> QED BY <1>7, <2>1, <2>4, <2>5
<1>11. CASE Restart
  <2>1. s \in accepted /\ dropped' = dropped \cup (accepted \ started) /\ started' = started
    BY <1>11 DEF Restart
  <2> QED BY <2>1
<1> QED BY <1>1, <1>2, <1>3, <1>4, <1>5, <1>6, <1>8, <1>9, <1>10, <1>11 DEF QueueStep

\* Whatever calls advance the queue at the same time, whichever of them fail,
\* and whatever is cleared, removed or shuffled meanwhile, a song /play has
\* accepted waits in the queue, is in the hands of a call, has been started,
\* or was given up for a reason.
THEOREM NothingLost == Spec => []NoSongLost
<1>1. Init => KeptInv BY DEF Init, KeptInv
<1>2. TypeInv /\ KeptInv /\ [Next]_vars => KeptInv' BY KeptStep
<1>3. KeptInv => NoSongLost
  <2>1. \A s : InHand(s) => s \in Underway BY DEF InHand, Underway, Holds
  <2> QED BY <2>1 DEF KeptInv, NoSongLost
<1> QED BY <1>1, <1>2, <1>3, AlwaysTyped, PTL DEF Spec

-----------------------------------------------------------------------------
(* No song twice.                                                          *)

\* While no loop mode was ever set, an accepted song is in one place: once in
\* the queue, in the hands of one call, or neither, and it is in a queue or in
\* a hand only before it is started; a /play that has not yet put its song into
\* the queue is the first to do so.
OncePart ==
  /\ loopMode = "none" /\ replayed = {}
  /\ InQueue \cup started \cup dropped \subseteq accepted
  /\ InQueue \cap (started \cup dropped) = {}
  /\ \A i, j \in DOMAIN songs : songs[i] = songs[j] => i = j
HandPart ==
  \A t \in Tasks : Holds(task[t]) =>
     /\ task[t].song \in accepted \ (InQueue \cup started)
     /\ \A u \in Tasks : Holds(task[u]) /\ task[u].song = task[t].song => u = t
WaitPart == \A s \in Songs : Waits(task[s]) => s \notin accepted
OnceInv == ~looped => OncePart /\ HandPart /\ WaitPart

\* The calls other than t hold what they held.
LEMMA HandsStay ==
  ASSUME HandPart, NEW t \in Tasks, \A v \in Tasks \ {t} : task'[v] = task[v],
         ~Holds(task'[t]),
         accepted \subseteq accepted',
         \A v \in Tasks \ {t} : Holds(task[v]) => task[v].song \notin InQueue' \cup started'
  PROVE  HandPart'
<1>1. \A v \in Tasks : Holds(task'[v]) => v # t /\ task'[v] = task[v] OBVIOUS
<1> QED BY <1>1 DEF HandPart

LEMMA WaitStays ==
  ASSUME WaitPart, accepted' = accepted, \A s \in Songs : Waits(task'[s]) => Waits(task[s])
  PROVE  WaitPart'
BY DEF WaitPart

\* A shuffle puts every song into one place again.
LEMMA ShuffleOnce ==
  ASSUME songs \in Seq(Songs), \A i, j \in DOMAIN songs : songs[i] = songs[j] => i = j,
         NEW order \in [DOMAIN songs -> InQueue],
         \A s \in InQueue : \E i \in DOMAIN songs : order[i] = s
  PROVE  \A i, j \in DOMAIN songs : order[i] = order[j] => i = j
<1> DEFINE D == DOMAIN songs
<1>1. IsFiniteSet(D) /\ Len(songs) \in Nat /\ D = 1..Len(songs) BY FS_Interval
<1>2. songs \in Bijection(D, InQueue)
  <2>1. songs \in [D -> InQueue] BY <1>1 DEF InQueue
  <2>2. songs \in Injection(D, InQueue) BY <2>1 DEF Injection, IsInjective
  <2>3. songs \in Surjection(D, InQueue) BY <2>1 DEF Surjection, InQueue
  <2> QED BY <2>2, <2>3 DEF Bijection
<1>3. IsFiniteSet(InQueue) /\ Cardinality(InQueue) = Cardinality(D)
  BY <1>1, <1>2, FS_Bijection DEF ExistsBijection
<1>4. order \in Surjection(D, InQueue) BY DEF Surjection
<1>5. order \in Injection(D, InQueue) BY <1>1, <1>3, <1>4, FS_SurjSameCardinalityImpliesInj
<1> QED BY <1>5 DEF Injection, IsInjective

LEMMA OnceStep ==
  ASSUME TypeInv, OnceInv, [Next]_vars
  PROVE  OnceInv'
<1>1. TypeInv' /\ QueueStep BY EveryStep
<1>p. /\ songs \in Seq(Songs) /\ loopMode \in LoopModes /\ currentSong \in Songs \cup {NoSong}
      /\ accepted \subseteq Songs
  BY TypeParts DEF MemoryOK, HistoryOK
<1>l. looped => looped'
  BY <1>1 DEF QueueStep, SetLoop, Enqueued, Fetched, FetchFails, Clear, ThrownOut, Shuffle,
              Remove, Restart, history
<1>s. SUFFICES ASSUME ~looped' PROVE OncePart' /\ HandPart' /\ WaitPart'
  BY DEF OnceInv
<1>i. /\ ~looped /\ HandPart /\ WaitPart
      /\ loopMode = "none" /\ replayed = {}
      /\ InQueue \cup started \cup dropped \subseteq accepted
      /\ InQueue \cap (started \cup dropped) = {}
      /\ \A i, j \in DOMAIN songs : songs[i] = songs[j] => i = j
  BY <1>l, <1>s DEF OnceInv, OncePart
<1>2. CASE Steady /\ loopMode' = loopMode
  <2>1. /\ songs' = songs /\ started' = started /\ dropped' = dropped
        /\ accepted' = accepted /\ replayed' = replayed
    BY <1>2 DEF Steady, SameHistory
  <2>2. OncePart' BY <1>2, <1>i, <2>1 DEF OncePart, InQueue
  <2>3. HandPart'
    <3>1. \A u \in Tasks : Holds(task'[u]) => Holds(task[u]) /\ task'[u].song = task[u].song
      BY <1>2 DEF Steady
    <3> QED BY <1>i, <2>1, <3>1 DEF HandPart, InQueue
  <2>4. WaitPart' BY <1>2, <1>i, <2>1, WaitStays DEF Steady
  <2> QED BY <2>2, <2>3, <2>4
<1>3. ASSUME NEW mode \in LoopModes, SetLoop(mode)
      PROVE OncePart' /\ HandPart' /\ WaitPart'
  BY <1>3, <1>i, <1>s DEF SetLoop
<1>4. ASSUME NEW u \in Songs, Enqueued(u) PROVE OncePart' /\ HandPart' /\ WaitPart'
  <2>1. /\ songs' = Append(songs, u) /\ accepted' = accepted \cup {u}
        /\ started' = started /\ dropped' = dropped /\ replayed' = replayed
        /\ loopMode' = loopMode
    BY <1>4 DEF Enqueued
  <2>2. InQueue' = InQueue \cup {u} BY <1>p, <2>1 DEF InQueue
  <2>3. /\ ~Holds(task'[u]) /\ ~Waits(task'[u]) /\ Waits(task[u])
        /\ \A v \in Tasks \ {u} : task'[v] = task[v]
    BY <1>4, Moved
  <2>4. u \in Tasks /\ u \notin accepted BY <1>i, <2>3 DEF WaitPart, Tasks
  <2>5. OncePart'
    <3>1. \A i \in DOMAIN songs : songs[i] # u BY <1>i, <2>4 DEF InQueue
    <3>2. \A i, j \in DOMAIN songs' : songs'[i] = songs'[j] => i = j
      BY <1>i, <1>p, <2>1, <3>1
    <3> QED BY <1>i, <2>1, <2>2, <2>4, <3>2 DEF OncePart
  <2>6. HandPart'
    <3>1. \A v \in Tasks \ {u} : Holds(task[v]) => task[v].song \notin InQueue' \cup started'
      BY <1>i, <2>1, <2>2, <2>4 DEF HandPart
    <3> QED BY <1>i, <2>1, <2>3, <2>4, <3>1, HandsStay
  <2>7. WaitPart' BY <1>i, <2>1, <2>3 DEF WaitPart, Tasks
  <2> QED BY <2>5, <2>6, <2>7
<1>5. ASSUME NEW t \in Tasks, Takes(t), ~Holds(task[t]), SameHistory, loopMode' = loopMode
      PROVE  OncePart' /\ HandPart' /\ WaitPart'
  <2>1. /\ Holds(task'[t]) /\ task'[t].song = Dequeued.song /\ ~Waits(task'[t])
        /\ \A v \in Tasks \ {t} : task'[v] = task[v]
    BY <1>5, Moved
  <2>2. songs # <<>> /\ Dequeued.song = songs[1] /\ songs' = Tail(songs)
    <3>1. IF songs = <<>> THEN Dequeued.song = NoSong
          ELSE Dequeued.song = Head(songs) /\ Dequeued.rest = Tail(songs)
      BY <1>p, <1>i, DequeuedIs
    <3>2. Dequeued.song # NoSong /\ songs' = Dequeued.rest
      BY <1>5, NoSongNoPlayer DEF Takes
    <3> QED BY <1>p, <3>1, <3>2
  <2>3. /\ 1 \in DOMAIN songs /\ songs[1] \in InQueue
        /\ \A j \in DOMAIN songs' : j + 1 \in DOMAIN songs /\ songs'[j] = songs[j + 1] /\ j \in Nat \ {0}
    BY <1>p, <2>2 DEF InQueue
  <2>4. InQueue' \subseteq InQueue /\ songs[1] \notin InQueue'
    BY <1>i, <2>3 DEF InQueue
  <2>5. /\ accepted' = accepted /\ started' = started /\ dropped' = dropped
        /\ replayed' = replayed
    BY <1>5 DEF SameHistory
  <2>6. OncePart'
    <3>1. \A i, j \in DOMAIN songs' : songs'[i] = songs'[j] => i = j BY <1>i, <2>3
    <3> QED BY <1>5, <1>i, <2>4, <2>5, <3>1 DEF OncePart
  <2>7. HandPart'
    <3>1. \A v \in Tasks \ {t} : Holds(task'[v]) =>
            /\ task'[v].song = task[v].song /\ Holds(task[v])
            /\ task[v].song \in accepted' \ (InQueue' \cup started')
            /\ task[v].song # songs[1]
      BY <1>i, <2>1, <2>3, <2>4, <2>5 DEF HandPart
    <3>2. songs[1] \in accepted' \ (InQueue' \cup started') BY <1>i, <2>3, <2>4, <2>5
    <3>3. \A v, w \in Tasks \ {t} :
            Holds(task'[v]) /\ Holds(task'[w]) /\ task'[v].song = task'[w].song => v = w
      BY <1>i, <2>1 DEF HandPart
    <3> QED BY <2>1, <2>2, <3>1, <3>2, <3>3 DEF HandPart
  <2>8. WaitPart'
    <3>1. \A s \in Songs : Waits(task'[s]) => Waits(task[s]) BY <2>1 DEF Tasks
    <3> QED BY <1>i, <2>5, <3>1, WaitStays
  <2> QED BY <2>6, <2>7, <2>8
<1>6. ASSUME NEW t \in Tasks, Fetched(t) \/ FetchFails(t)
      PROVE  OncePart' /\ HandPart' /\ WaitPart'
  <2> PICK song : song = task[t].song OBVIOUS
  <2>1. /\ songs' = songs /\ accepted' = accepted /\ loopMode' = loopMode
        /\ \/ /\ started' = started \cup {song} /\ dropped' = dropped
              /\ replayed' = IF song \in started THEN replayed \cup {song} ELSE replayed
           \/ started' = started /\ dropped' = dropped \cup {song} /\ replayed' = replayed
    BY <1>6 DEF Fetched, FetchFails, memory
  <2>2. /\ Holds(task[t]) /\ ~Holds(task'[t]) /\ (t \in Songs => ~Waits(task'[t]))
        /\ \A v \in Tasks \ {t} : task'[v] = task[v]
    BY <1>6, Moved
  <2>3. song \in accepted \ (InQueue \cup started) BY <1>i, <2>2 DEF HandPart
  <2>4. OncePart' BY <1>i, <2>1, <2>3 DEF OncePart, InQueue
  <2>5. HandPart'
    <3>1. InQueue' = InQueue BY <2>1 DEF InQueue
    <3>2. \A v \in Tasks \ {t} : Holds(task[v]) => task[v].song \notin InQueue' \cup started'
      BY <1>i, <2>1, <2>2, <3>1 DEF HandPart
    <3> QED BY <1>i, <2>1, <2>2, <3>2, HandsStay
  <2>6. WaitPart'
    <3>1. \A s \in Songs : Waits(task'[s]) => Waits(task[s]) BY <2>2 DEF Tasks
    <3> QED BY <1>i, <2>1, <3>1, WaitStays
  <2> QED BY <2>4, <2>5, <2>6
<1>7. ASSUME NEW t \in Slots, Clear(t) \/ ThrownOut(t) \/ Shuffle(t) \/ (\E n \in Nat : Remove(t, n)),
             InQueue' \subseteq InQueue, UNCHANGED <<accepted, started>>
      PROVE  HandPart' /\ WaitPart'
  <2>1. /\ ~Holds(task[t]) /\ ~Holds(task'[t]) /\ \A v \in Tasks \ {t} : task'[v] = task[v]
    BY <1>7, Moved
  <2>2. t \in Tasks /\ t \notin Songs BY MusicPlayerAssumption DEF Tasks
  <2>3. \A v \in Tasks \ {t} : Holds(task[v]) => task[v].song \notin InQueue' \cup started'
    BY <1>i, <1>7 DEF HandPart
  <2>4. HandPart' BY <1>i, <1>7, <2>1, <2>2, <2>3, HandsStay
  <2>5. \A s \in Songs : Waits(task'[s]) => Waits(task[s]) BY <2>1, <2>2 DEF Tasks
  <2> QED BY <1>i, <1>7, <2>4, <2>5, WaitStays
<1>8. ASSUME NEW t \in Slots, Clear(t) \/ ThrownOut(t) PROVE OncePart' /\ HandPart' /\ WaitPart'
  <2>1. /\ songs' = <<>> /\ dropped' = dropped \cup InQueue
        /\ UNCHANGED <<loopMode, accepted, started, replayed>>
    BY <1>8 DEF Clear, ThrownOut
  <2>2. InQueue' = {} BY <2>1 DEF InQueue
  <2>3. OncePart' BY <1>i, <2>1, <2>2 DEF OncePart
  <2> QED BY <1>7, <1>8, <2>1, <2>2, <2>3
<1>9. ASSUME NEW t \in Slots, Shuffle(t) PROVE OncePart' /\ HandPart' /\ WaitPart'
  <2>1. /\ UNCHANGED history /\ loopMode' = loopMode /\ songs' \in [DOMAIN songs -> InQueue]
        /\ \A x \in InQueue : \E i \in DOMAIN songs : songs'[i] = x
    BY <1>9 DEF Shuffle
  <2>2. UNCHANGED <<accepted, started, dropped, replayed>> BY <2>1 DEF history
  <2>3. InQueue' = InQueue /\ DOMAIN songs' = DOMAIN songs BY <2>1 DEF InQueue
  <2>4. \A i, j \in DOMAIN songs : songs'[i] = songs'[j] => i = j
    BY <1>p, <1>i, <2>1, ShuffleOnce
  <2>5. OncePart' BY <1>i, <2>1, <2>2, <2>3, <2>4 DEF OncePart
  <2> QED BY <1>7, <1>9, <2>2, <2>3, <2>5
<1>10. ASSUME NEW t \in Slots, NEW n \in 1..(Len(songs) - 1), Remove(t, n)
       PROVE  OncePart' /\ HandPart' /\ WaitPart'
  <2>1. /\ songs' = Spliced(n) /\ dropped' = dropped \cup {songs[n + 1]}
        /\ UNCHANGED <<loopMode, accepted, started, replayed>>
    BY <1>10 DEF Remove
  <2>2. n \in Nat /\ n >= 1 /\ n + 1 <= Len(songs) /\ Len(songs) \in Nat
          /\ DOMAIN songs = 1..Len(songs)
    BY <1>p
  <2>3. songs' \in Seq(Songs) /\ DOMAIN songs' = 1..(Len(songs) - 1) BY <1>p, <2>1, SplicedIs
  <2>4. \A j \in DOMAIN songs' : songs'[j] = IF j <= n THEN songs[j] ELSE songs[j + 1]
    BY <1>p, <2>1, SplicedIs
  <2>5. InQueue' \subseteq InQueue /\ songs[n + 1] \in InQueue /\ songs[n + 1] \notin InQueue'
    <3>1. \A j \in DOMAIN songs' : \E i \in DOMAIN songs : i # n + 1 /\ songs'[j] = songs[i]
      <4> TAKE j \in DOMAIN songs'
      <4>1. j \in Nat /\ j >= 1 /\ j <= Len(songs) - 1 BY <2>3
      <4>2. CASE j <= n BY <2>2, <2>4, <4>1, <4>2
      <4>3. CASE j > n
        <5>1. j + 1 \in DOMAIN songs /\ j + 1 # n + 1 BY <2>2, <4>1, <4>3
        <5>2. songs'[j] = songs[j + 1] BY <2>2, <2>4, <4>1, <4>3
        <5> QED BY <5>1, <5>2
      <4> QED BY <2>2, <4>1, <4>2, <4>3
    <3>2. n + 1 \in DOMAIN songs BY <2>2
    <3> QED BY <1>i, <3>1, <3>2 DEF InQueue
  <2>6. \A i, j \in DOMAIN songs' : songs'[i] = songs'[j] => i = j
    BY <1>i, <2>2, <2>3, <2>4
  <2>7. OncePart' BY <1>i, <2>1, <2>5, <2>6 DEF OncePart
  <2>8. \E k \in Nat : Remove(t, k) BY <1>10, <2>2
  <2> QED BY <1>7, <2>1, <2>5, <2>7, <2>8
<1>11. CASE Restart
  <2>1. /\ songs' = <<>> /\ loopMode' = "none" /\ dropped' = dropped \cup (accepted \ started)
        /\ UNCHANGED <<accepted, started, replayed>>
    BY <1>11 DEF Restart
  <2>2. /\ \A u \in Tasks : ~Holds(task'[u])
        /\ \A s \in Songs : Waits(task'[s]) => Waits(task[s])
    BY <1>11, Moved
  <2>3. InQueue' = {} BY <2>1 DEF InQueue
  <2>4. OncePart' BY <1>i, <2>1, <2>3 DEF OncePart
  <2>5. HandPart' BY <2>2 DEF HandPart
  <2>6. WaitPart' BY <1>i, <2>1, <2>2, WaitStays
  <2> QED BY <2>4, <2>5, <2>6
<1> QED BY <1>1, <1>2, <1>3, <1>4, <1>5, <1>6, <1>8, <1>9, <1>10, <1>11 DEF QueueStep

\* Several /play, a /skip and the Idle handler may each take a song off the
\* queue across their awaits, while others clear, remove from or shuffle it:
\* unless a loop mode was ever set, no song is started twice, and none that
\* has left the queue comes back to it.
THEOREM NoReplay == Spec => []NeverPlayedTwice
<1>1. Init => OnceInv
  <2> SUFFICES ASSUME Init PROVE OncePart /\ HandPart /\ WaitPart BY DEF OnceInv
  <2>1. songs = <<>> /\ loopMode = "none" BY DEF Init, MusicQueueInit
  <2>2. InQueue = {} BY <2>1 DEF InQueue
  <2>3. OncePart BY <2>1, <2>2 DEF Init, OncePart
  <2>4. \A t \in Tasks : ~Holds(task[t]) BY DEF Init, Holds, Idle
  <2>5. WaitPart BY DEF Init, WaitPart
  <2> QED BY <2>3, <2>4, <2>5 DEF HandPart
<1>2. TypeInv /\ OnceInv /\ [Next]_vars => OnceInv' BY OnceStep
<1>3. TypeInv /\ OnceInv => NeverPlayedTwice
  <2> SUFFICES ASSUME TypeInv, OnceInv, ~looped
               PROVE  replayed = {} /\ InQueue \cap (started \cup Underway \cup dropped) = {}
    BY DEF NeverPlayedTwice
  <2>1. OncePart /\ HandPart BY DEF OnceInv
  <2>2. InQueue \subseteq Songs BY TypeParts DEF MemoryOK, InQueue
  <2>3. ASSUME NEW t \in Tasks, task[t].pc \in {"removing", "fetching"}
        PROVE  task[t].song \notin InQueue
    <3>1. CASE Holds(task[t]) BY <2>1, <3>1 DEF HandPart
    <3>2. CASE ~Holds(task[t])
      <4>1. Carries(task[t]) BY TypeParts DEF TasksOK
      <4>2. task[t].song = NoSong BY <2>3, <3>2, <4>1 DEF Holds, Carries
      <4> QED BY <2>2, <4>2, NoSongNoPlayer
    <3> QED BY <3>1, <3>2
  <2>4. InQueue \cap Underway = {} BY <2>3 DEF Underway
  <2> QED BY <2>1, <2>4 DEF OncePart
<1> QED BY <1>1, <1>2, <1>3, AlwaysTyped, PTL DEF Spec
-----------------------------------------------------------------------------
(* The music stream: types.                                                *)

Holding == {"entry", "handling", "ack", "ackHandled", "ackFailed", "republish",
            "deadLetter", "overdue", "ackOverdue", "again"}
JobSteps == {"off", "boot", "bootGroup", "idle", "group", "read", "claim"} \cup Holding
Entries == [event : Events, retryCount : Nat]

StoreOK ==
  /\ registered \in BOOLEAN /\ group \in BOOLEAN
  /\ stream \in Seq(Entries)
  /\ deliveries \in Seq(Nat) /\ Len(deliveries) = Len(stream)
  /\ handled \in Seq(Nat) /\ Len(handled) = Len(stream)
  /\ delivered \in Nat /\ delivered <= Len(stream)
  /\ pending \subseteq 1..delivered /\ idle \subseteq pending
  /\ deadLetters \subseteq Events /\ forgotten \subseteq Events

ProcessOK ==
  /\ published \in [Events -> {"no", "registered", "sent", "failed"}]
  /\ life \in {"down", "running", "stopping"}
  /\ known \in BOOLEAN /\ handler \in BOOLEAN
  /\ processed \subseteq Ids /\ together \subseteq Ids /\ cut \subseteq Ids
  /\ failures \in 0..MaxFailures

\* A job has entries that were delivered, and some whenever it is at work on one.
JobsOK ==
  /\ pc \in [Jobs -> JobSteps]
  /\ DOMAIN batch = Jobs
  /\ \A t \in Jobs : DOMAIN batch[t] \subseteq 1..delivered
  /\ \A t \in Jobs : pc[t] \in Holding => DOMAIN batch[t] # {}

StreamTyped == StoreOK /\ ProcessOK /\ JobsOK

LEMMA TypedAtFirst == StreamInit => StreamTyped
<1> SUFFICES ASSUME StreamInit PROVE StreamTyped OBVIOUS
<1>1. stream = <<>> /\ deliveries = <<>> /\ handled = <<>> /\ delivered = 0 BY DEF StreamInit
<1>2. Len(stream) = 0 /\ Ids = {} /\ stream \in Seq(Entries) /\ deliveries \in Seq(Nat)
      /\ handled \in Seq(Nat)
  BY <1>1 DEF Ids
<1>3. StoreOK
  <2>1. registered = FALSE /\ group = FALSE /\ pending = {} /\ idle = {}
        /\ deadLetters = {} /\ forgotten = {}
    BY DEF StreamInit
  <2>2. Len(deliveries) = Len(stream) /\ Len(handled) = Len(stream) BY <1>1
  <2>3. delivered \in Nat /\ delivered <= Len(stream) BY <1>1, <1>2
  <2>4. pending \subseteq 1..delivered /\ idle \subseteq pending BY <2>1
  <2> QED BY <1>2, <2>1, <2>2, <2>3, <2>4 DEF StoreOK
<1>4. ProcessOK
  <2>1. published \in [Events -> {"no", "registered", "sent", "failed"}] BY DEF StreamInit
  <2>2. failures \in 0..MaxFailures BY MusicStreamAssumption DEF StreamInit
  <2> QED BY <2>1, <2>2 DEF StreamInit, ProcessOK
<1>5. DOMAIN Nothing = {} BY DEF Nothing
<1>6. JobsOK BY <1>1, <1>5 DEF StreamInit, JobsOK, JobSteps, Holding, Jobs
<1> QED BY <1>3, <1>4, <1>6 DEF StreamTyped

LEMMA FirstIs ==
  ASSUME NEW S, S \subseteq Nat, S # {}
  PROVE  Min(S) \in S /\ \A n \in S : Min(S) <= n
<1>1. PICK n \in S : \A m \in S : ~(<<m, n>> \in OpToRel(<, Nat))
  BY NatLessThanWellFounded, WFMin
<1>2. \A m \in S : ~(m < n)
  BY <1>1 DEF OpToRel
<1>3. \A m \in S : n <= m BY <1>2
<1> QED BY <1>3 DEF Min

LEMMA LastIs ==
  ASSUME NEW n \in Nat, NEW S, S \subseteq 1..n, S # {}
  PROVE  \E i \in S : \A j \in S : j <= i
<1> DEFINE Left == {n - j : j \in S}
<1>1. \A j \in S : j \in Nat /\ j <= n OBVIOUS
<1>2. \A j \in S : n - j \in Nat BY <1>1
<1>3. Left \subseteq Nat /\ Left # {} BY <1>2
<1>4. PICK m \in Left : \A k \in Left : m <= k
  <2> HIDE DEF Left
  <2> QED BY <1>3, FirstIs
<1>5. PICK i \in S : m = n - i BY <1>4
<1>6. \A j \in S : n - i <= n - j BY <1>4, <1>5
<1>7. \A j \in S : j <= i BY <1>1, <1>6
<1> QED BY <1>7

LEMMA IdsAre == ASSUME StoreOK PROVE Ids = 1..Len(stream) /\ 1..delivered \subseteq Ids
BY DEF StoreOK, Ids

\* The entry a job is at work on is one it has.
LEMMA CurrentIs ==
  ASSUME StoreOK, JobsOK, NEW t \in Jobs, pc[t] \in Holding
  PROVE  /\ Current(t) \in DOMAIN batch[t] /\ Current(t) \in 1..delivered
         /\ Current(t) \in Ids /\ EventOf(Current(t)) \in Events
<1>1. DOMAIN batch[t] \subseteq 1..delivered /\ DOMAIN batch[t] # {} BY DEF JobsOK
<1>2. delivered \in Nat BY DEF StoreOK
<1>3. Current(t) \in DOMAIN batch[t] BY <1>1, <1>2, FirstIs DEF Current
<1>4. Current(t) \in Ids BY <1>1, <1>3, IdsAre
<1>5. stream[Current(t)] \in Entries BY <1>4 DEF StoreOK, Ids
<1>6. EventOf(Current(t)) \in Events BY <1>5 DEF EventOf, Entries
<1> QED BY <1>1, <1>3, <1>4, <1>6

\* After an entry a job goes to its next one, or to the second
\* acknowledgement of this one, or it ends.
Leaves(t) ==
  /\ pc' = [pc EXCEPT ![t] = pc'[t]]
  /\ DOMAIN batch' = DOMAIN batch /\ \A s \in Jobs \ {t} : batch'[s] = batch[s]
  /\ pc'[t] \in {"idle", "overdue", "entry", "again"}
  /\ DOMAIN batch'[t] \subseteq DOMAIN batch[t]
  /\ pc'[t] = "again" => batch' = batch
  /\ pc'[t] # "again" => DOMAIN batch'[t] = DOMAIN batch[t] \ {Current(t)}
  /\ pc'[t] # "idle" => DOMAIN batch'[t] # {}

LEMMA TakingIs ==
  ASSUME NEW t \in Jobs, NEW f, NEW S
  PROVE  /\ Taking(t, Restrict(f, S)) \in {"idle", "overdue", "entry"}
         /\ Taking(t, Restrict(f, S)) # "idle" => S # {}
         /\ DOMAIN Restrict(f, S) = S
<1> DEFINE g == Restrict(f, S)
<1>1. DOMAIN g = S BY DEF Restrict
<1>2. ASSUME S = {} PROVE g = Nothing BY <1>2 DEF Restrict, Nothing
<1>3. Taking(t, g) \in {"idle", "overdue", "entry"} BY DEF Taking
<1>4. ASSUME g = Nothing PROVE Taking(t, g) = "idle" BY <1>4 DEF Taking
<1> QED BY <1>1, <1>2, <1>3, <1>4

LEMMA NextEntryIs ==
  ASSUME JobsOK, NEW t \in Jobs, NextEntry(t)
  PROVE  Leaves(t) /\ pc'[t] # "again"
<1> DEFINE left == Restrict(batch[t], DOMAIN batch[t] \ {Current(t)})
<1>1. batch' = [batch EXCEPT ![t] = left] /\ pc' = [pc EXCEPT ![t] = Taking(t, left)]
  BY DEF NextEntry, Goto
<1>2. /\ batch'[t] = left /\ pc'[t] = Taking(t, left)
      /\ DOMAIN batch' = DOMAIN batch /\ \A s \in Jobs \ {t} : batch'[s] = batch[s]
  BY <1>1 DEF JobsOK
<1>3. /\ Taking(t, left) \in {"idle", "overdue", "entry"}
      /\ Taking(t, left) # "idle" => DOMAIN batch[t] \ {Current(t)} # {}
      /\ DOMAIN left = DOMAIN batch[t] \ {Current(t)}
  BY TakingIs
<1> HIDE DEF left
<1> QED BY <1>1, <1>2, <1>3 DEF Leaves

LEMMA ReturnsIs ==
  ASSUME StoreOK, JobsOK, NEW t \in Jobs, pc[t] \in Holding, Returns(t)
  PROVE  Leaves(t)
<1>1. CASE t = "loop" BY <1>1, NextEntryIs DEF Returns
<1>2. CASE t # "loop"
  <2>1. pc' = [pc EXCEPT ![t] = "again"] /\ batch' = batch BY <1>2 DEF Returns, Goto
  <2>2. pc'[t] = "again" BY <2>1 DEF JobsOK
  <2>3. DOMAIN batch[t] # {} BY DEF JobsOK
  <2> QED BY <2>1, <2>2, <2>3 DEF Leaves
<1> QED BY <1>1, <1>2

LEMMA LeavesOK ==
  ASSUME JobsOK, NEW t \in Jobs, Leaves(t), UNCHANGED delivered
  PROVE  JobsOK'
<1>1. pc' \in [Jobs -> JobSteps]
  BY DEF JobsOK, Leaves, JobSteps, Holding
<1>2. DOMAIN batch' = Jobs /\ \A s \in Jobs \ {t} : batch'[s] = batch[s] /\ pc'[s] = pc[s]
  BY DEF JobsOK, Leaves
<1>3. DOMAIN batch'[t] \subseteq 1..delivered /\ (pc'[t] \in Holding => DOMAIN batch'[t] # {})
  BY DEF JobsOK, Leaves, Holding
<1> QED BY <1>1, <1>2, <1>3 DEF JobsOK

\* A step of a job with the entries it has.
LEMMA GotoOK ==
  ASSUME JobsOK, NEW t \in Jobs, NEW s \in JobSteps, Goto(t, s), UNCHANGED <<batch, delivered>>,
         pc[t] \in Holding \/ s \notin Holding
  PROVE  JobsOK'
<1>1. pc' = [pc EXCEPT ![t] = s] BY DEF Goto
<1>2. pc' \in [Jobs -> JobSteps] BY <1>1 DEF JobsOK
<1> QED BY <1>1, <1>2 DEF JobsOK

LEMMA SameStore == ASSUME StoreOK, UNCHANGED <<valkey, handled, forgotten>> PROVE StoreOK'
BY DEF StoreOK, valkey

LEMMA Counted ==
  ASSUME ProcessOK, Failure \/ NoFailure \/ UNCHANGED failures
  PROVE  failures' \in 0..MaxFailures
<1>1. MaxFailures \in Nat BY MusicStreamAssumption
<1> QED BY <1>1 DEF ProcessOK, Failure, NoFailure

LEMMA SameProcess ==
  ASSUME ProcessOK, UNCHANGED <<published, process, stream, together, cut>>,
         Failure \/ NoFailure \/ UNCHANGED failures
  PROVE  ProcessOK'
<1>1. failures' \in 0..MaxFailures BY Counted
<1>2. Ids' = Ids BY DEF Ids
<1> QED BY <1>1, <1>2 DEF ProcessOK, process

LEMMA SameJobs == ASSUME JobsOK, UNCHANGED <<jobVars, delivered>> PROVE JobsOK'
BY DEF JobsOK, jobVars

\* A new entry leaves the others where they are.
LEMMA XAddIs ==
  ASSUME StoreOK, NEW e \in Events, NEW n \in Nat, XAdd(e, n)
  PROVE  /\ stream' \in Seq(Entries) /\ deliveries' \in Seq(Nat) /\ handled' \in Seq(Nat)
         /\ Len(deliveries') = Len(stream') /\ Len(handled') = Len(stream')
         /\ Len(stream') = Len(stream) + 1 /\ Ids' = Ids \cup {Len(stream')}
         /\ \A i \in Ids : stream'[i] = stream[i] /\ handled'[i] = handled[i]
         /\ stream'[Len(stream')].event = e /\ handled'[Len(stream')] = 0
<1> DEFINE x == [event |-> e, retryCount |-> n]
<1>1. x \in Entries BY DEF Entries
<1>2. stream' = Append(stream, x) /\ deliveries' = Append(deliveries, 0) /\ handled' = Append(handled, 0)
  BY DEF XAdd
<1>3. x.event = e OBVIOUS
<1> HIDE DEF x
<1>4. stream' \in Seq(Entries) /\ deliveries' \in Seq(Nat) /\ handled' \in Seq(Nat)
  BY <1>1, <1>2 DEF StoreOK
<1>5. Len(deliveries') = Len(stream') /\ Len(handled') = Len(stream') /\ Len(stream') = Len(stream) + 1
  BY <1>1, <1>2 DEF StoreOK
<1>6. Ids' = 1..Len(stream') /\ Ids = 1..Len(stream) /\ Len(stream) \in Nat
  BY <1>4 DEF StoreOK, Ids
<1>7. Ids' = Ids \cup {Len(stream')} BY <1>5, <1>6
<1>8. \A i \in Ids : stream'[i] = stream[i] BY <1>1, <1>2, <1>6 DEF StoreOK
<1>9. \A i \in Ids : handled'[i] = handled[i] BY <1>2, <1>6 DEF StoreOK
<1>10. stream'[Len(stream')] = x BY <1>1, <1>2, <1>5 DEF StoreOK
<1>11. handled'[Len(stream')] = 0 BY <1>2, <1>5 DEF StoreOK
<1> QED BY <1>3, <1>4, <1>5, <1>7, <1>8, <1>9, <1>10, <1>11

LEMMA AddedOK ==
  ASSUME StreamTyped, NEW e \in Events, NEW n \in Nat, XAdd(e, n),
         UNCHANGED <<registered, group, delivered, pending, idle, deadLetters, process,
                     forgotten, together, cut, failures>>
  PROVE  /\ StoreOK'
         /\ published' \in [Events -> {"no", "registered", "sent", "failed"}] => ProcessOK'
<1>1. StoreOK /\ ProcessOK BY DEF StreamTyped
<1>2. Ids \subseteq Ids' BY <1>1, XAddIs
<1>3. delivered' <= Len(stream') BY <1>1, XAddIs DEF StoreOK
<1>4. StoreOK' BY <1>1, <1>3, XAddIs DEF StoreOK
<1>5. processed' \subseteq Ids' /\ together' \subseteq Ids' /\ cut' \subseteq Ids'
  BY <1>1, <1>2 DEF ProcessOK, process
<1> QED BY <1>1, <1>4, <1>5 DEF ProcessOK, process

LEMMA AcksIs ==
  ASSUME NEW t \in Jobs, Acks(t)
  PROVE  /\ pending \ {Current(t)} \subseteq pending' /\ pending' \subseteq pending
         /\ idle \subseteq pending => idle' \subseteq pending'
         /\ Failure \/ NoFailure
BY DEF Acks

LEMMA AcksOK ==
  ASSUME StreamTyped, NEW t \in Jobs, Acks(t),
         UNCHANGED <<registered, stream, group, delivered, deliveries, deadLetters, handled, forgotten>>
  PROVE  StoreOK'
<1>1. StoreOK BY DEF StreamTyped
<1>2. idle' \subseteq pending' /\ pending' \subseteq 1..delivered BY <1>1, AcksIs DEF StoreOK
<1> QED BY <1>1, <1>2 DEF StoreOK

\* What a job that is not at work on entries does: its entries stay, and more are delivered.
LEMMA IdleGotoOK ==
  ASSUME JobsOK, 1..delivered \subseteq 1..delivered', UNCHANGED batch,
         pc' \in [Jobs -> JobSteps], \A t \in Jobs : pc'[t] = pc[t] \/ pc'[t] \notin Holding
  PROVE  JobsOK'
BY DEF JobsOK

LEMMA GroupOK ==
  ASSUME StoreOK, GroupExists,
         UNCHANGED <<registered, stream, pending, idle, deliveries, deadLetters, handled>>
  PROVE  /\ StoreOK' /\ delivered <= delivered' /\ 1..delivered \subseteq 1..delivered'
         /\ delivered' \in Nat
         /\ \/ UNCHANGED <<delivered, forgotten>>
            \/ forgotten' = forgotten \cup {EventOf(i) : i \in Ids}
<1>1. Len(stream) \in Nat /\ delivered \in Nat /\ delivered <= Len(stream) BY DEF StoreOK
<1>2. delivered' \in Nat /\ delivered' <= Len(stream) /\ delivered <= delivered' /\ group' = TRUE
  BY <1>1 DEF GroupExists
<1>3. 1..delivered \subseteq 1..delivered' BY <1>1, <1>2
<1>4. ASSUME NEW i \in Ids PROVE EventOf(i) \in Events
  <2>1. stream[i] \in Entries BY DEF StoreOK, Ids
  <2> QED BY <2>1 DEF EventOf, Entries
<1>5. forgotten' \subseteq Events BY <1>4 DEF GroupExists, StoreOK
<1>6. pending' \subseteq 1..delivered' BY <1>3 DEF StoreOK
<1>7. StoreOK' BY <1>2, <1>5, <1>6 DEF StoreOK
<1> QED BY <1>2, <1>3, <1>7 DEF GroupExists

LEMMA NewAre ==
  ASSUME StoreOK
  PROVE  /\ LastRead \in Nat /\ LastRead <= Len(stream)
         /\ NewIds \subseteq 1..LastRead /\ \A i \in NewIds : i > delivered
         /\ NewIds # {} => delivered <= LastRead
         /\ NewIds \subseteq Ids
<1>1. Len(stream) \in Nat /\ delivered \in Nat /\ ReadCount \in Nat
  BY MusicStreamAssumption DEF StoreOK
<1>2. /\ LastRead \in {delivered + ReadCount, Len(stream)}
      /\ \A n \in {delivered + ReadCount, Len(stream)} : LastRead <= n
  <2> DEFINE S == {delivered + ReadCount, Len(stream)}
  <2>1. S \subseteq Nat /\ S # {} BY <1>1
  <2>2. LastRead = Min(S) BY DEF LastRead
  <2> HIDE DEF S
  <2> QED BY <2>1, <2>2, FirstIs DEF S
<1>3. LastRead \in Nat /\ LastRead <= Len(stream) BY <1>1, <1>2
<1>4. NewIds = (delivered + 1)..LastRead BY DEF NewIds
<1>5. NewIds \subseteq 1..LastRead /\ \A i \in NewIds : i > delivered BY <1>1, <1>3, <1>4
<1>6. NewIds # {} => delivered <= LastRead BY <1>1, <1>3, <1>4
<1>7. NewIds \subseteq Ids BY <1>1, <1>3, <1>5, IdsAre
<1> QED BY <1>3, <1>5, <1>6, <1>7

LEMMA DeliversIs ==
  ASSUME StoreOK, Delivers,
         UNCHANGED <<registered, stream, group, idle, deadLetters, handled, forgotten>>
  PROVE  /\ StoreOK' /\ delivered <= delivered' /\ 1..delivered \subseteq 1..delivered'
         /\ delivered' = LastRead /\ NewIds \subseteq 1..delivered' /\ NewIds # {}
         /\ pending' = pending \cup NewIds /\ \A i \in NewIds : i > delivered
         /\ \A i \in 1..delivered' : i > delivered => i \in NewIds
<1>1. /\ delivered' = LastRead /\ NewIds # {} /\ pending' = pending \cup NewIds
      /\ deliveries' = [i \in Ids |-> IF i \in NewIds THEN 1 ELSE deliveries[i]]
  BY DEF Delivers
<1>2. delivered \in Nat /\ delivered' \in Nat /\ delivered <= delivered' /\ delivered' <= Len(stream)
  BY <1>1, NewAre DEF StoreOK
<1>3. 1..delivered \subseteq 1..delivered' BY <1>2
<1>4. NewIds \subseteq 1..delivered' /\ \A i \in NewIds : i > delivered BY <1>1, NewAre
<1>5. Ids = 1..Len(stream) /\ Len(stream) \in Nat BY IdsAre DEF StoreOK
<1>6. \A i \in Ids : (IF i \in NewIds THEN 1 ELSE deliveries[i]) \in Nat BY <1>5 DEF StoreOK
<1>7. deliveries' \in Seq(Nat) /\ Len(deliveries') = Len(stream) BY <1>1, <1>5, <1>6
<1>8. pending' \subseteq 1..delivered' /\ idle \subseteq pending' BY <1>1, <1>3, <1>4 DEF StoreOK
<1>9. StoreOK' BY <1>2, <1>7, <1>8 DEF StoreOK
<1>10. \A i \in 1..delivered' : i > delivered => i \in NewIds
  BY <1>1, <1>2 DEF NewIds
<1> QED BY <1>1, <1>2, <1>3, <1>4, <1>9, <1>10

\* XCLAIM takes nothing out of the pending entries.
LEMMA ClaimsOK ==
  ASSUME StoreOK, Claims \/ UNCHANGED <<idle, deliveries>>,
         UNCHANGED <<registered, stream, group, delivered, pending, deadLetters, handled, forgotten>>
  PROVE  StoreOK'
<1>1. CASE Claims
  <2>1. /\ idle' = idle \ Claimable
        /\ deliveries' = [i \in Ids |-> IF i \in Claimable THEN deliveries[i] + 1 ELSE deliveries[i]]
    BY <1>1 DEF Claims
  <2>2. Ids = 1..Len(stream) /\ Len(stream) \in Nat BY IdsAre DEF StoreOK
  <2>3. \A i \in Ids : (IF i \in Claimable THEN deliveries[i] + 1 ELSE deliveries[i]) \in Nat
    BY <2>2 DEF StoreOK
  <2>4. deliveries' \in Seq(Nat) /\ Len(deliveries') = Len(stream) BY <2>1, <2>2, <2>3
  <2>5. idle' \subseteq pending' BY <2>1 DEF StoreOK
  <2> QED BY <2>4, <2>5 DEF StoreOK
<1>2. CASE UNCHANGED <<idle, deliveries>> BY <1>2 DEF StoreOK
<1> QED BY <1>1, <1>2

-----------------------------------------------------------------------------
(* The steps keep the types.                                               *)

LEMMA OutsideTypes ==
  ASSUME StreamTyped,
         \/ \E e \in Events : Register(e) \/ Add(e) \/ XAddFails(e)
         \/ Expire
         \/ \E i \in Ids : Age(i)
  PROVE  StreamTyped'
<1>1. StoreOK /\ ProcessOK /\ JobsOK BY DEF StreamTyped
<1>2. ASSUME NEW e \in Events, Register(e) PROVE StreamTyped'
  <2>1. registered' \in BOOLEAN /\ UNCHANGED <<stream, group, delivered, pending, idle, deliveries,
            deadLetters, process, jobVars, handled, forgotten, together, cut>>
    BY <1>1, <1>2 DEF Register, StoreOK, ghosts
  <2>2. StoreOK' BY <1>1, <2>1 DEF StoreOK
  <2>3. published' \in [Events -> {"no", "registered", "sent", "failed"}]
    BY <1>1, <1>2 DEF Register, ProcessOK
  <2>4. failures' \in 0..MaxFailures BY <1>1, <1>2, Counted DEF Register
  <2>5. Ids' = Ids BY <2>1 DEF Ids
  <2>6. ProcessOK' BY <1>1, <2>1, <2>3, <2>4, <2>5 DEF ProcessOK, process
  <2> QED BY <1>1, <2>1, <2>2, <2>6, SameJobs DEF StreamTyped
<1>3. ASSUME NEW e \in Events, Add(e) PROVE StreamTyped'
  <2>1. XAdd(e, 0) /\ UNCHANGED <<registered, group, delivered, pending, idle, deadLetters, process,
                     jobVars, forgotten, together, cut, failures>>
    BY <1>3 DEF Add
  <2>2. published' \in [Events -> {"no", "registered", "sent", "failed"}]
    BY <1>1, <1>3 DEF Add, ProcessOK
  <2>3. StoreOK' /\ ProcessOK' BY <2>1, <2>2, AddedOK
  <2> QED BY <1>1, <2>1, <2>3, SameJobs DEF StreamTyped
<1>4. ASSUME NEW e \in Events, XAddFails(e) PROVE StreamTyped'
  <2>1. Failure /\ UNCHANGED <<valkey, process, jobVars, handled, forgotten, together, cut>>
    BY <1>4 DEF XAddFails, ghosts
  <2>2. published' \in [Events -> {"no", "registered", "sent", "failed"}]
    BY <1>1, <1>4 DEF XAddFails, ProcessOK
  <2>3. failures' \in 0..MaxFailures BY <1>1, <2>1, Counted
  <2>4. Ids' = Ids /\ UNCHANGED delivered BY <2>1 DEF Ids, valkey
  <2>5. ProcessOK' BY <1>1, <2>1, <2>2, <2>3, <2>4 DEF ProcessOK, process
  <2> QED BY <1>1, <2>1, <2>4, <2>5, SameStore, SameJobs DEF StreamTyped
<1>5. CASE Expire
  <2>1. registered' = FALSE /\ UNCHANGED <<published, stream, group, delivered, pending, idle,
            deliveries, deadLetters, process, jobVars, handled, forgotten, together, cut, failures>>
    BY <1>5 DEF Expire, ghosts
  <2>2. StoreOK' BY <1>1, <2>1 DEF StoreOK
  <2> QED BY <1>1, <2>1, <2>2, SameProcess, SameJobs DEF StreamTyped
<1>6. ASSUME NEW i \in Ids, Age(i) PROVE StreamTyped'
  <2>1. idle' \subseteq pending /\ UNCHANGED <<published, registered, stream, group, delivered, pending,
            deliveries, deadLetters, process, jobVars, handled, forgotten, together, cut, failures>>
    BY <1>1, <1>6 DEF Age, ghosts, StoreOK
  <2>2. StoreOK' BY <1>1, <2>1 DEF StoreOK
  <2> QED BY <1>1, <2>1, <2>2, SameProcess, SameJobs DEF StreamTyped
<1> QED BY <1>2, <1>3, <1>4, <1>5, <1>6

LEMMA LifeTypes ==
  ASSUME StreamTyped, Start \/ Shutdown \/ Exit \/ Crash
  PROVE  StreamTyped'
<1>1. StoreOK /\ ProcessOK /\ JobsOK BY DEF StreamTyped
<1>2. CASE Start
  <2>1. /\ life' = "running" /\ handler' \in BOOLEAN /\ Goto("loop", "boot")
        /\ UNCHANGED <<published, valkey, known, processed, batch, handled, forgotten,
                       together, cut, failures>>
    BY <1>2 DEF Start, ghosts
  <2>2. Ids' = Ids /\ UNCHANGED delivered BY <2>1 DEF Ids, valkey
  <2>3. ProcessOK' BY <1>1, <2>1, <2>2 DEF ProcessOK
  <2>4. "boot" \in JobSteps /\ "boot" \notin Holding /\ "loop" \in Jobs BY DEF JobSteps, Holding, Jobs
  <2>5. JobsOK' BY <1>1, <2>1, <2>2, <2>4, GotoOK
  <2> QED BY <1>1, <2>1, <2>3, <2>5, SameStore DEF StreamTyped
<1>3. CASE Shutdown
  <2>1. /\ life' = "stopping" /\ Failure
        /\ UNCHANGED <<published, valkey, known, handler, processed, jobVars, handled,
                       forgotten, together, cut>>
    BY <1>3 DEF Shutdown, ghosts
  <2>2. Ids' = Ids /\ UNCHANGED delivered BY <2>1 DEF Ids, valkey
  <2>3. failures' \in 0..MaxFailures BY <1>1, <2>1, Counted
  <2>4. ProcessOK' BY <1>1, <2>1, <2>2, <2>3 DEF ProcessOK
  <2> QED BY <1>1, <2>1, <2>2, <2>4, SameStore, SameJobs DEF StreamTyped
<1>4. CASE Exit \/ Crash
  <2>1. ProcessEnds /\ (Failure \/ NoFailure) BY <1>4 DEF Exit, Crash
  <2>2. /\ life' = "down" /\ known' = FALSE /\ handler' = FALSE /\ processed' = {}
        /\ pc' = [t \in Jobs |-> "off"] /\ batch' = [t \in Jobs |-> Nothing]
        /\ cut' = cut \cup pending /\ UNCHANGED <<valkey, handled, together>>
    BY <2>1 DEF ProcessEnds
  <2>3. Ids' = Ids /\ UNCHANGED delivered BY <2>2 DEF Ids, valkey
  <2>4. failures' \in 0..MaxFailures BY <1>1, <2>1, Counted
  <2>5. published' \in [Events -> {"no", "registered", "sent", "failed"}]
    BY <1>1, <2>1 DEF ProcessEnds, ProcessOK
  <2>6. cut' \subseteq Ids' BY <1>1, <2>2, <2>3, IdsAre DEF ProcessOK, StoreOK
  <2>7. ProcessOK' BY <1>1, <2>2, <2>3, <2>4, <2>5, <2>6 DEF ProcessOK
  <2>8. DOMAIN Nothing = {} BY DEF Nothing
  <2>9. JobsOK' BY <2>2, <2>8 DEF JobsOK, JobSteps, Holding
  <2>10. \A t \in Jobs : Republishing(t) => EventOf(Current(t)) \in Events
    BY <1>1, CurrentIs DEF Republishing, Holding
  <2>11. forgotten' \subseteq Events
    BY <1>1, <2>1, <2>10 DEF ProcessEnds, StoreOK
  <2>12. StoreOK' BY <1>1, <2>2, <2>11 DEF StoreOK, valkey
  <2> QED BY <2>7, <2>9, <2>12 DEF StreamTyped
<1> QED BY <1>2, <1>3, <1>4

LEMMA ReadsRegistryIs ==
  ASSUME NEW found \in BOOLEAN, ReadsRegistry(found) PROVE Failure \/ NoFailure
BY DEF ReadsRegistry

LEMMA GotoIs ==
  ASSUME JobsOK, NEW t \in Jobs, NEW s \in JobSteps \ Holding, Goto(t, s)
  PROVE  pc' \in [Jobs -> JobSteps] /\ \A u \in Jobs : pc'[u] = pc[u] \/ pc'[u] \notin Holding
BY DEF JobsOK, Goto

LEMMA BootedIs ==
  ASSUME JobsOK, Booted
  PROVE  pc' \in [Jobs -> JobSteps] /\ \A u \in Jobs : pc'[u] = pc[u] \/ pc'[u] \notin Holding
<1>1. "idle" \in JobSteps \ Holding BY DEF JobSteps, Holding
<1> QED BY <1>1 DEF JobsOK, Booted

LEMMA BootTypes ==
  ASSUME StreamTyped, Boot \/ BootGroup \/ BootGroupFails
  PROVE  StreamTyped'
<1>1. StoreOK /\ ProcessOK /\ JobsOK BY DEF StreamTyped
<1>2. "loop" \in Jobs /\ "bootGroup" \in JobSteps \ Holding BY DEF Jobs, JobSteps, Holding
<1>3. CASE Boot
  <2>1. PICK found \in BOOLEAN : /\ ReadsRegistry(found)
                                 /\ IF found THEN Goto("loop", "bootGroup") ELSE Booted
    BY <1>3 DEF Boot
  <2>2. UNCHANGED <<published, valkey, process, stream, delivered, batch, handled,
                    forgotten, together, cut>>
    BY <1>3 DEF Boot, ghosts, valkey
  <2>3. pc' \in [Jobs -> JobSteps] /\ \A u \in Jobs : pc'[u] = pc[u] \/ pc'[u] \notin Holding
    BY <1>1, <1>2, <2>1, GotoIs, BootedIs
  <2>4. ProcessOK' BY <1>1, <2>1, <2>2, ReadsRegistryIs, SameProcess
  <2>5. JobsOK' BY <1>1, <2>2, <2>3, IdleGotoOK
  <2> QED BY <1>1, <2>2, <2>4, <2>5, SameStore DEF StreamTyped
<1>4. CASE BootGroup
  <2>1. /\ GroupExists /\ Booted /\ known' \in BOOLEAN /\ (Failure \/ NoFailure)
        /\ UNCHANGED <<published, registered, stream, pending, idle, deliveries, deadLetters,
                 life, handler, processed, batch, handled, together, cut>>
    BY <1>1, <1>4 DEF BootGroup, ProcessOK
  <2>2. StoreOK' /\ 1..delivered \subseteq 1..delivered' BY <1>1, <2>1, GroupOK
  <2>3. failures' \in 0..MaxFailures BY <1>1, <2>1, Counted
  <2>4. Ids' = Ids BY <2>1 DEF Ids
  <2>5. ProcessOK' BY <1>1, <2>1, <2>3, <2>4 DEF ProcessOK
  <2>6. JobsOK' BY <1>1, <2>1, <2>2, BootedIs, IdleGotoOK
  <2> QED BY <2>2, <2>5, <2>6 DEF StreamTyped
<1>5. CASE BootGroupFails
  <2>1. /\ Failure /\ Booted
        /\ UNCHANGED <<published, valkey, process, stream, delivered, batch, handled,
                       forgotten, together, cut>>
    BY <1>5 DEF BootGroupFails, ghosts, valkey
  <2>2. JobsOK' BY <1>1, <2>1, BootedIs, IdleGotoOK
  <2> QED BY <1>1, <2>1, <2>2, SameStore, SameProcess DEF StreamTyped
<1> QED BY <1>3, <1>4, <1>5

LEMMA LoopTypes ==
  ASSUME StreamTyped,
         Refresh \/ CreateGroup \/ CreateGroupFails \/ Read \/ ReadNothing \/ ReadFails
  PROVE  StreamTyped'
<1>1. StoreOK /\ ProcessOK /\ JobsOK BY DEF StreamTyped
<1>2. /\ "loop" \in Jobs /\ "group" \in JobSteps \ Holding /\ "read" \in JobSteps \ Holding
      /\ "idle" \in JobSteps \ Holding /\ "entry" \in JobSteps
  BY DEF Jobs, JobSteps, Holding
<1>3. CASE Refresh
  <2>1. PICK found \in BOOLEAN :
          /\ ReadsRegistry(found) /\ known' = (known \/ found)
          /\ Goto("loop", IF found /\ ~known THEN "group" ELSE IF known THEN "read" ELSE "idle")
    BY <1>3 DEF Refresh
  <2>2. UNCHANGED <<published, valkey, life, handler, processed, stream, delivered, batch, handled,
                    forgotten, together, cut>>
    BY <1>3 DEF Refresh, ghosts, valkey
  <2>3. pc' \in [Jobs -> JobSteps] /\ \A u \in Jobs : pc'[u] = pc[u] \/ pc'[u] \notin Holding
    BY <1>1, <1>2, <2>1, GotoIs
  <2>4. failures' \in 0..MaxFailures BY <1>1, <2>1, ReadsRegistryIs, Counted
  <2>5. known' \in BOOLEAN /\ Ids' = Ids BY <1>1, <2>1, <2>2 DEF ProcessOK, Ids
  <2>6. ProcessOK' BY <1>1, <2>2, <2>4, <2>5 DEF ProcessOK
  <2>7. JobsOK' BY <1>1, <2>2, <2>3, IdleGotoOK
  <2> QED BY <1>1, <2>2, <2>6, <2>7, SameStore DEF StreamTyped
<1>4. CASE CreateGroup
  <2>1. /\ GroupExists /\ NoFailure /\ Goto("loop", "read")
        /\ UNCHANGED <<published, registered, stream, pending, idle, deliveries, deadLetters,
                 process, batch, handled, together, cut>>
    BY <1>4 DEF CreateGroup
  <2>2. StoreOK' /\ 1..delivered \subseteq 1..delivered' BY <1>1, <2>1, GroupOK
  <2>3. JobsOK' BY <1>1, <1>2, <2>1, <2>2, GotoIs, IdleGotoOK
  <2> QED BY <1>1, <2>1, <2>2, <2>3, SameProcess DEF StreamTyped
<1>5. CASE CreateGroupFails \/ ReadNothing
  <2>1. /\ Failure \/ UNCHANGED failures
        /\ Goto("loop", "read") \/ Goto("loop", "idle")
        /\ UNCHANGED <<published, valkey, process, stream, delivered, batch, handled,
                       forgotten, together, cut>>
    BY <1>5 DEF CreateGroupFails, ReadNothing, ghosts, valkey
  <2>2. JobsOK' BY <1>1, <1>2, <2>1, GotoIs, IdleGotoOK
  <2> QED BY <1>1, <2>1, <2>2, SameStore, SameProcess DEF StreamTyped
<1>6. CASE Read
  <2>1. /\ Delivers /\ batch' = [batch EXCEPT !["loop"] = [i \in NewIds |-> 1]]
        /\ Goto("loop", "entry")
        /\ UNCHANGED <<published, registered, stream, group, idle, deadLetters, process,
                       handled, forgotten, together, cut, failures>>
    BY <1>6 DEF Read, ghosts
  <2>2. /\ StoreOK' /\ 1..delivered \subseteq 1..delivered'
        /\ NewIds \subseteq 1..delivered' /\ NewIds # {}
    BY <1>1, <2>1, DeliversIs
  <2>3. /\ DOMAIN batch' = Jobs /\ DOMAIN batch'["loop"] = NewIds
        /\ \A t \in Jobs \ {"loop"} : batch'[t] = batch[t]
    BY <1>1, <1>2, <2>1 DEF JobsOK
  <2>4. pc' \in [Jobs -> JobSteps] /\ \A t \in Jobs \ {"loop"} : pc'[t] = pc[t]
    BY <1>1, <1>2, <2>1 DEF JobsOK, Goto
  <2>5. JobsOK' BY <1>1, <2>2, <2>3, <2>4 DEF JobsOK
  <2> QED BY <1>1, <2>1, <2>2, <2>5, SameProcess DEF StreamTyped
<1>7. CASE ReadFails
  <2>1. /\ Failure /\ Goto("loop", "idle")
        /\ Delivers \/ UNCHANGED <<delivered, pending, deliveries>>
        /\ UNCHANGED <<published, registered, stream, group, idle, deadLetters, process,
                       batch, handled, forgotten, together, cut>>
    BY <1>7 DEF ReadFails, ghosts
  <2>2. StoreOK' /\ 1..delivered \subseteq 1..delivered'
    <3>1. CASE Delivers BY <1>1, <2>1, <3>1, DeliversIs
    <3>2. CASE UNCHANGED <<delivered, pending, deliveries>> BY <1>1, <2>1, <3>2 DEF StoreOK
    <3> QED BY <2>1, <3>1, <3>2
  <2>3. JobsOK' BY <1>1, <1>2, <2>1, <2>2, GotoIs, IdleGotoOK
  <2> QED BY <1>1, <2>1, <2>2, <2>3, SameProcess DEF StreamTyped
<1> QED BY <1>3, <1>4, <1>5, <1>6, <1>7

LEMMA ReclaimTypes ==
  ASSUME StreamTyped, Pending \/ Claim \/ ClaimFails
  PROVE  StreamTyped'
<1>1. StoreOK /\ ProcessOK /\ JobsOK BY DEF StreamTyped
<1>2. "reclaim" \in Jobs /\ "idle" \in JobSteps \ Holding /\ "claim" \in JobSteps \ Holding
  BY DEF Jobs, JobSteps, Holding
<1>3. CASE Pending
  <2>1. /\ batch' = [batch EXCEPT !["reclaim"] = Snapshot]
        /\ Goto("reclaim", IF Stale = {} THEN "idle" ELSE "claim")
        /\ UNCHANGED <<published, valkey, process, stream, delivered, handled,
                       forgotten, together, cut, failures>>
    BY <1>3 DEF Pending, ghosts, valkey
  <2>2. pc' \in [Jobs -> JobSteps] /\ \A u \in Jobs : pc'[u] = pc[u] \/ pc'[u] \notin Holding
    BY <1>1, <1>2, <2>1, GotoIs
  <2>3. DOMAIN Snapshot \subseteq 1..delivered BY <1>1 DEF Snapshot, Stale, StoreOK
  <2>4. /\ DOMAIN batch' = Jobs /\ batch'["reclaim"] = Snapshot
        /\ \A t \in Jobs \ {"reclaim"} : batch'[t] = batch[t]
    BY <1>1, <1>2, <2>1 DEF JobsOK
  <2>5. pc'["reclaim"] \notin Holding BY <1>1, <1>2, <2>1 DEF Goto, JobsOK
  <2>6. JobsOK' BY <1>1, <2>1, <2>2, <2>3, <2>4, <2>5 DEF JobsOK
  <2> QED BY <1>1, <2>1, <2>6, SameStore, SameProcess DEF StreamTyped
<1>4. CASE Claim
  <2> DEFINE mine == Restrict(batch["reclaim"], Claimable)
  <2>1. /\ Claims /\ batch' = [batch EXCEPT !["reclaim"] = mine]
        /\ Goto("reclaim", Taking("reclaim", mine))
        /\ UNCHANGED <<published, registered, stream, group, delivered, pending, deadLetters,
                       process, handled, forgotten, together, cut, failures>>
    BY <1>4 DEF Claim, ghosts
  <2>2. /\ DOMAIN mine = Claimable /\ Taking("reclaim", mine) \in {"idle", "overdue", "entry"}
        /\ Taking("reclaim", mine) # "idle" => Claimable # {}
    BY <1>2, TakingIs
  <2> HIDE DEF mine
  <2>3. /\ DOMAIN batch' = Jobs /\ batch'["reclaim"] = mine
        /\ \A t \in Jobs \ {"reclaim"} : batch'[t] = batch[t]
    BY <1>1, <1>2, <2>1 DEF JobsOK
  <2>4. /\ pc' \in [Jobs -> JobSteps] /\ \A t \in Jobs \ {"reclaim"} : pc'[t] = pc[t]
        /\ pc'["reclaim"] = Taking("reclaim", mine)
    BY <1>1, <1>2, <2>1, <2>2 DEF JobsOK, Goto, JobSteps, Holding
  <2>5. Claimable \subseteq 1..delivered BY <1>1 DEF Claimable, StoreOK
  <2>6. pc'["reclaim"] \in Holding => Claimable # {} BY <2>2, <2>4 DEF Holding
  <2>7. JobsOK' BY <1>1, <2>1, <2>2, <2>3, <2>4, <2>5, <2>6 DEF JobsOK
  <2> QED BY <1>1, <2>1, <2>7, ClaimsOK, SameProcess DEF StreamTyped
<1>5. CASE ClaimFails
  <2>1. /\ Failure
        /\ Claims \/ UNCHANGED <<idle, deliveries>>
        /\ batch' = [batch EXCEPT !["reclaim"] = Nothing] /\ Goto("reclaim", "idle")
        /\ UNCHANGED <<published, registered, stream, group, delivered, pending, deadLetters,
                       process, handled, forgotten, together, cut>>
    BY <1>5 DEF ClaimFails, ghosts
  <2>2. pc' \in [Jobs -> JobSteps] /\ \A u \in Jobs : pc'[u] = pc[u] \/ pc'[u] \notin Holding
    BY <1>1, <1>2, <2>1, GotoIs
  <2>3. DOMAIN Nothing = {} BY DEF Nothing
  <2>4. /\ DOMAIN batch' = Jobs /\ DOMAIN batch'["reclaim"] = {}
        /\ \A t \in Jobs \ {"reclaim"} : batch'[t] = batch[t]
    BY <1>1, <1>2, <2>1, <2>3 DEF JobsOK
  <2>5. pc'["reclaim"] \notin Holding BY <1>1, <1>2, <2>1 DEF Goto, JobsOK
  <2>6. JobsOK' BY <1>1, <2>1, <2>2, <2>4, <2>5 DEF JobsOK
  <2> QED BY <1>1, <2>1, <2>6, ClaimsOK, SameProcess DEF StreamTyped
<1> QED BY <1>3, <1>4, <1>5

LEMMA ProcessingTypes ==
  ASSUME StreamTyped, NEW t \in Jobs, Processing(t)
  PROVE  StreamTyped'
<1>1. StoreOK /\ ProcessOK /\ JobsOK BY DEF StreamTyped
<1>2. /\ \A s \in Holding : s \in JobSteps
      /\ {"ack", "deadLetter", "handling", "ackHandled", "ackFailed", "republish",
          "ackOverdue"} \subseteq Holding
      /\ {"entry", "overdue", "again"} \subseteq Holding
  BY DEF JobSteps, Holding
<1>3. CASE ProcessEntry(t)
  <2> DEFINE i == Current(t)
  <2>1. pc[t] = "entry" BY <1>3 DEF ProcessEntry
  <2>2. i \in Ids /\ EventOf(i) \in Events BY <1>1, <1>2, <2>1, CurrentIs
  <2>3. \E s \in {"ack", "deadLetter", "handling"} : Goto(t, s)
    BY <1>3 DEF ProcessEntry
  <2>4. /\ forgotten' \subseteq forgotten \cup {EventOf(i)} /\ together' \subseteq together \cup {i}
        /\ UNCHANGED <<published, valkey, process, stream, delivered, batch, handled, cut, failures>>
    BY <1>3 DEF ProcessEntry, valkey
  <2> HIDE DEF i
  <2>5. StoreOK' BY <1>1, <2>2, <2>4 DEF StoreOK, valkey
  <2>6. Ids' = Ids BY <2>4 DEF Ids
  <2>7. ProcessOK' BY <1>1, <2>2, <2>4, <2>6 DEF ProcessOK, process
  <2>8. JobsOK' BY <1>1, <1>2, <2>1, <2>3, <2>4, GotoOK
  <2> QED BY <2>5, <2>7, <2>8 DEF StreamTyped
<1>4. CASE HandlerSucceeds(t)
  <2>1. /\ pc[t] = "handling" /\ Goto(t, "ackHandled")
        /\ handled' = [handled EXCEPT ![Current(t)] = @ + 1]
        /\ UNCHANGED <<published, valkey, process, stream, delivered, batch, forgotten,
                       together, cut, failures>>
    BY <1>4 DEF HandlerSucceeds, valkey
  <2>2. Len(handled) = Len(stream) /\ handled \in Seq(Nat) BY <1>1 DEF StoreOK
  <2>3. handled' \in Seq(Nat) /\ Len(handled') = Len(handled)
    <3> DEFINE c == Current(t)
               m == Len(handled)
    <3>1. m \in Nat /\ handled = [i \in 1..m |-> handled[i]] BY <2>2
    <3>2. \A i \in 1..m : handled[i] \in Nat BY <2>2
    <3> HIDE DEF c
    <3>3. handled' = [i \in 1..m |-> IF i = c THEN handled[c] + 1 ELSE handled[i]]
      BY <2>1, <3>1 DEF c
    <3>4. \A i \in 1..m : (IF i = c THEN handled[c] + 1 ELSE handled[i]) \in Nat BY <3>2
    <3> QED BY <3>1, <3>3, <3>4
  <2>4. StoreOK' BY <1>1, <2>1, <2>2, <2>3 DEF StoreOK, valkey
  <2>5. JobsOK' BY <1>1, <1>2, <2>1, GotoOK
  <2> QED BY <1>1, <2>1, <2>4, <2>5, SameProcess DEF StreamTyped
<1>5. CASE HandlerFails(t)
  <2>1. /\ pc[t] = "handling" /\ Goto(t, "ackFailed")
        /\ UNCHANGED <<published, valkey, process, stream, delivered, batch, handled,
                       forgotten, together, cut, failures>>
    BY <1>5 DEF HandlerFails, valkey, ghosts
  <2>2. JobsOK' BY <1>1, <1>2, <2>1, GotoOK
  <2> QED BY <1>1, <2>1, <2>2, SameStore, SameProcess DEF StreamTyped
<1>6. CASE Ack(t) \/ AckAndAdvance(t)
  <2>1. /\ pc[t] \in Holding /\ Acks(t) /\ (Returns(t) \/ NextEntry(t))
        /\ UNCHANGED <<published, registered, stream, group, delivered, deliveries,
                 deadLetters, process, handled, forgotten, together, cut>>
    BY <1>2, <1>6 DEF Ack, AckAndAdvance
  <2>2. JobsOK' BY <1>1, <2>1, ReturnsIs, NextEntryIs, LeavesOK
  <2>3. ProcessOK' BY <1>1, <2>1, AcksIs, SameProcess
  <2> QED BY <2>1, <2>2, <2>3, AcksOK DEF StreamTyped
<1>7. CASE AckHandled(t)
  <2>1. /\ pc[t] \in Holding /\ Acks(t) /\ Returns(t) /\ processed' = processed \cup {Current(t)}
        /\ UNCHANGED <<published, registered, stream, group, delivered, deliveries,
                 deadLetters, life, known, handler, handled, forgotten, together, cut>>
    BY <1>2, <1>7 DEF AckHandled
  <2>2. JobsOK' BY <1>1, <2>1, ReturnsIs, LeavesOK
  <2>3. failures' \in 0..MaxFailures BY <1>1, <2>1, AcksIs, Counted
  <2>4. Ids' = Ids /\ Current(t) \in Ids BY <1>1, <2>1, CurrentIs DEF Ids
  <2>5. ProcessOK' BY <1>1, <2>1, <2>3, <2>4 DEF ProcessOK
  <2> QED BY <2>1, <2>2, <2>5, AcksOK DEF StreamTyped
<1>8. CASE AckFailed(t)
  <2>1. /\ pc[t] = "ackFailed" /\ Acks(t) /\ Goto(t, "republish")
        /\ UNCHANGED <<published, registered, stream, group, delivered, deliveries,
                 deadLetters, process, batch, handled, forgotten, together, cut>>
    BY <1>8 DEF AckFailed
  <2>2. JobsOK' BY <1>1, <1>2, <2>1, GotoOK
  <2>3. ProcessOK' BY <1>1, <2>1, AcksIs, SameProcess
  <2> QED BY <2>1, <2>2, <2>3, AcksOK DEF StreamTyped
<1>9. CASE Republish(t)
  <2> DEFINE e == EventOf(Current(t))
             n == stream[Current(t)].retryCount + 1
  <2>1. /\ pc[t] = "republish" /\ XAdd(e, n) /\ Returns(t)
        /\ UNCHANGED <<published, registered, group, delivered, pending, idle, deadLetters,
                 process, forgotten, together, cut, failures>>
    BY <1>9 DEF Republish
  <2>2. pc[t] \in Holding /\ Current(t) \in Ids /\ e \in Events BY <1>1, <1>2, <2>1, CurrentIs
  <2>3. stream[Current(t)] \in Entries BY <1>1, <2>2 DEF StoreOK, Ids
  <2>4. n \in Nat BY <2>3 DEF Entries
  <2>5. published' \in [Events -> {"no", "registered", "sent", "failed"}]
    BY <1>1, <2>1 DEF ProcessOK
  <2> HIDE DEF e, n
  <2>6. StoreOK' /\ ProcessOK' BY <2>1, <2>2, <2>4, <2>5, AddedOK
  <2>7. JobsOK' BY <1>1, <2>1, <2>2, ReturnsIs, LeavesOK
  <2> QED BY <2>6, <2>7 DEF StreamTyped
<1>10. CASE RepublishFails(t)
  <2>1. /\ pc[t] = "republish" /\ Failure /\ forgotten' = forgotten \cup {EventOf(Current(t))}
        /\ Returns(t)
        /\ UNCHANGED <<published, valkey, process, stream, delivered, handled, together, cut>>
    BY <1>10 DEF RepublishFails, valkey
  <2>2. pc[t] \in Holding /\ EventOf(Current(t)) \in Events BY <1>1, <1>2, <2>1, CurrentIs
  <2>3. StoreOK' BY <1>1, <2>1, <2>2 DEF StoreOK, valkey
  <2>4. JobsOK' BY <1>1, <2>1, <2>2, ReturnsIs, LeavesOK
  <2> QED BY <1>1, <2>1, <2>3, <2>4, SameProcess DEF StreamTyped
<1>11. CASE DeadLetter(t)
  <2>1. /\ pc[t] \in {"deadLetter", "overdue"} /\ (Goto(t, "ackOverdue") \/ Goto(t, "ack"))
        /\ deadLetters' \subseteq deadLetters \cup {EventOf(Current(t))}
        /\ forgotten' \subseteq forgotten \cup {EventOf(Current(t))}
        /\ Failure \/ NoFailure
        /\ UNCHANGED <<published, registered, stream, group, delivered, pending, idle,
                 deliveries, process, batch, handled, together, cut>>
    BY <1>11 DEF DeadLetter
  <2>2. pc[t] \in Holding /\ EventOf(Current(t)) \in Events BY <1>1, <1>2, <2>1, CurrentIs
  <2>3. StoreOK' BY <1>1, <2>1, <2>2 DEF StoreOK
  <2>4. JobsOK' BY <1>1, <1>2, <2>1, <2>2, GotoOK
  <2> QED BY <1>1, <2>1, <2>3, <2>4, SameProcess DEF StreamTyped
<1> QED BY <1>3, <1>4, <1>5, <1>6, <1>7, <1>8, <1>9, <1>10, <1>11 DEF Processing

LEMMA StreamTypesStep ==
  ASSUME StreamTyped, [StreamNext]_streamVars
  PROVE  StreamTyped'
<1>1. CASE UNCHANGED streamVars
  <2>1. UNCHANGED <<published, valkey, process, stream, delivered, jobVars, handled, forgotten, together,
                    cut, failures>>
    BY <1>1 DEF streamVars, ghosts, valkey
  <2> QED BY <2>1, SameStore, SameProcess, SameJobs DEF StreamTyped
<1>2. "loop" \in Jobs /\ "reclaim" \in Jobs BY DEF Jobs
<1>3. CASE Loop BY <1>2, <1>3, BootTypes, LoopTypes, ProcessingTypes DEF Loop
<1>4. CASE Reclaim BY <1>2, <1>4, ReclaimTypes, ProcessingTypes DEF Reclaim
<1> QED BY <1>1, <1>3, <1>4, OutsideTypes, LifeTypes DEF StreamNext

-----------------------------------------------------------------------------
(* What a step leaves alone.                                               *)

\* A step of a job with an entry is nobody else's.
LEMMA ProcessingMoves ==
  ASSUME StoreOK, JobsOK, NEW t \in Jobs, Processing(t)
  PROVE  /\ \A s \in Jobs \ {t} : pc'[s] = pc[s] /\ batch'[s] = batch[s]
         /\ pc[t] \in Holding /\ pc'[t] \in Holding \cup {"idle"}
         /\ DOMAIN batch'[t] \subseteq DOMAIN batch[t]
<1>1. pc \in [Jobs -> JobSteps] BY DEF JobsOK
<1>2. pc[t] \in Holding
  BY DEF Processing, ProcessEntry, HandlerSucceeds, HandlerFails, Ack, AckHandled, AckFailed,
         Republish, RepublishFails, DeadLetter, AckAndAdvance, Holding
<1>3. CASE Leaves(t)
  BY <1>1, <1>2, <1>3 DEF Leaves, Holding
<1>4. CASE UNCHANGED batch /\ \E s \in Holding : Goto(t, s)
  BY <1>1, <1>2, <1>4 DEF Goto
<1>5. CASE ProcessEntry(t) \/ HandlerSucceeds(t) \/ HandlerFails(t) \/ AckFailed(t) \/ DeadLetter(t)
  <2>1. UNCHANGED batch
    BY <1>5 DEF ProcessEntry, HandlerSucceeds, HandlerFails, AckFailed, DeadLetter
  <2>2. \E s \in {"ack", "deadLetter", "handling", "ackHandled", "ackFailed", "republish", "ackOverdue"} :
          Goto(t, s)
    BY <1>5 DEF ProcessEntry, HandlerSucceeds, HandlerFails, AckFailed, DeadLetter
  <2> QED BY <1>4, <2>1, <2>2 DEF Holding
<1>6. CASE Ack(t) \/ AckHandled(t) \/ Republish(t) \/ RepublishFails(t) \/ AckAndAdvance(t)
  <2>1. Returns(t) \/ NextEntry(t)
    BY <1>6 DEF Ack, AckHandled, Republish, RepublishFails, AckAndAdvance
  <2> QED BY <1>2, <1>3, <2>1, ReturnsIs, NextEntryIs
<1> QED BY <1>5, <1>6 DEF Processing

\* Nothing runs in a process that is down.
DownIsOff == life = "down" => \A t \in Jobs : pc[t] = "off"

LEMMA DownStep ==
  ASSUME StreamTyped, DownIsOff, [StreamNext]_streamVars
  PROVE  DownIsOff'
<1> SUFFICES ASSUME life' = "down" PROVE \A t \in Jobs : pc'[t] = "off" BY DEF DownIsOff
<1>1. CASE Exit \/ Crash
  BY <1>1 DEF Exit, Crash, ProcessEnds
<1>2. CASE ~(Exit \/ Crash) /\ StreamNext
  <2>1. CASE life = "down"
    <3>1. pc["loop"] = "off" /\ pc["reclaim"] = "off" BY <2>1 DEF DownIsOff, Jobs
    <3>2. ~Start /\ ~Shutdown BY <2>1 DEF Start, Shutdown
    <3>3. \A t \in {"loop", "reclaim"} : ~Processing(t)
      BY <3>1 DEF Processing, ProcessEntry, HandlerSucceeds, HandlerFails, Ack, AckHandled, AckFailed,
                  Republish, RepublishFails, DeadLetter, AckAndAdvance
    <3>4. ~Loop
      BY <2>1, <3>1, <3>3 DEF Loop, Boot, BootGroup, BootGroupFails, Refresh, Tick, CreateGroup,
                              CreateGroupFails, Read, ReadNothing, ReadFails
    <3>5. ~Reclaim BY <2>1, <3>1, <3>3 DEF Reclaim, Pending, Tick, Claim, ClaimFails
    <3>6. UNCHANGED jobVars
      BY <1>2, <3>2, <3>4, <3>5 DEF StreamNext, Register, Add, XAddFails, Expire, Age
    <3> QED BY <2>1, <3>6 DEF DownIsOff, jobVars
  <2>2. CASE life # "down"
    <3>1. ASSUME NEW t \in Jobs, Processing(t) PROVE life' = life
      BY <3>1 DEF Processing, ProcessEntry, HandlerSucceeds, HandlerFails, Ack, AckHandled, AckFailed,
                  Republish, RepublishFails, DeadLetter, AckAndAdvance, process
    <3>2. ASSUME Loop PROVE life' = life
      BY <3>1, <3>2 DEF Loop, Jobs, Boot, BootGroup, BootGroupFails, Refresh, CreateGroup,
                        CreateGroupFails, Read, ReadNothing, ReadFails, process
    <3>3. ASSUME Reclaim PROVE life' = life
      BY <3>1, <3>3 DEF Reclaim, Jobs, Pending, Claim, ClaimFails, process
    <3>4. ASSUME Start \/ Shutdown PROVE FALSE BY <3>4 DEF Start, Shutdown
    <3>5. life' = life
      BY <1>2, <3>2, <3>3, <3>4 DEF StreamNext, Register, Add, XAddFails, Expire, Age, process
    <3> QED BY <2>2, <3>5
  <2> QED BY <2>1, <2>2
<1>3. CASE UNCHANGED streamVars BY <1>3 DEF DownIsOff, streamVars, process, jobVars
<1> QED BY <1>1, <1>2, <1>3

\* No reclaim runs before the bootstrap is over.
BootIsAlone == pc["loop"] \in {"boot", "bootGroup"} => pc["reclaim"] = "off"

LEMMA BootStep ==
  ASSUME StreamTyped, DownIsOff, BootIsAlone, [StreamNext]_streamVars
  PROVE  BootIsAlone'
<1> SUFFICES ASSUME pc'["loop"] \in {"boot", "bootGroup"} PROVE pc'["reclaim"] = "off"
  BY DEF BootIsAlone
<1>1. JobsOK /\ StoreOK /\ "loop" \in Jobs /\ "reclaim" \in Jobs BY DEF StreamTyped, Jobs
<1>2. pc \in [Jobs -> JobSteps] BY <1>1 DEF JobsOK
<1>3. CASE UNCHANGED streamVars BY <1>3 DEF streamVars, jobVars, BootIsAlone
<1>4. CASE Exit \/ Crash
  BY <1>1, <1>4 DEF Exit, Crash, ProcessEnds
<1>5. CASE Start
  BY <1>1, <1>2, <1>5 DEF Start, Goto, DownIsOff
<1>6. CASE Reclaim
  <2>1. ASSUME pc["reclaim"] = "off" PROVE FALSE
    BY <1>6, <2>1 DEF Reclaim, Pending, Tick, Claim, ClaimFails, Processing, ProcessEntry,
                      HandlerSucceeds, HandlerFails, Ack, AckHandled, AckFailed, Republish,
                      RepublishFails, DeadLetter, AckAndAdvance
  <2>2. pc'["loop"] = pc["loop"]
    <3>1. CASE Pending \/ Claim \/ ClaimFails
      BY <1>1, <1>2, <3>1 DEF Pending, Claim, ClaimFails, Goto
    <3>2. CASE Processing("reclaim") BY <1>1, <3>2, ProcessingMoves
    <3> QED BY <1>6, <3>1, <3>2 DEF Reclaim
  <2> QED BY <2>1, <2>2 DEF BootIsAlone
<1>7. CASE Loop
  <2>1. CASE Boot \/ BootGroup \/ BootGroupFails
    <3>1. pc["reclaim"] = "off" BY <2>1 DEF Boot, BootGroup, BootGroupFails, BootIsAlone
    <3>2. CASE Booted BY <1>1, <1>2, <3>2 DEF Booted
    <3>3. CASE Goto("loop", "bootGroup") BY <1>1, <1>2, <3>1, <3>3 DEF Goto
    <3> QED BY <2>1, <3>2, <3>3 DEF Boot, BootGroup, BootGroupFails
  <2>2. CASE Refresh \/ CreateGroup \/ CreateGroupFails \/ Read \/ ReadNothing \/ ReadFails
    <3>1. \E s \in {"group", "read", "idle", "entry"} : Goto("loop", s)
      BY <2>2 DEF Refresh, CreateGroup, CreateGroupFails, Read, ReadNothing, ReadFails
    <3>2. pc'["loop"] \in {"group", "read", "idle", "entry"} BY <1>1, <1>2, <3>1 DEF Goto
    <3> QED BY <3>2
  <2>3. CASE Processing("loop")
    <3>1. pc'["loop"] \in Holding \cup {"idle"} BY <1>1, <2>3, ProcessingMoves
    <3> QED BY <3>1 DEF Holding
  <2> QED BY <1>7, <2>1, <2>2, <2>3 DEF Loop
<1>8. CASE \/ \E e \in Events : Register(e) \/ Add(e) \/ XAddFails(e)
           \/ Expire \/ (\E i \in Ids : Age(i)) \/ Shutdown
  BY <1>8 DEF Register, Add, XAddFails, Expire, Age, Shutdown, jobVars, BootIsAlone
<1> QED BY <1>3, <1>4, <1>5, <1>6, <1>7, <1>8 DEF StreamNext

\* The steps at which a job has begun with an entry.
Begun == Holding \ {"entry", "overdue"}

\* The entries stay, with their events and successes.
Lasting ==
  /\ delivered <= delivered' /\ delivered' \in Nat
  /\ \A i \in Ids : i \in Ids' /\ EventOf(i)' = EventOf(i) /\ handled'[i] = handled[i]
  /\ \A i \in Ids' \ Ids : i > delivered' /\ handled'[i] = 0

\* Valkey loses no entry but behind a new group.
StillThere ==
  /\ forgotten \subseteq forgotten' /\ deadLetters' = deadLetters
  /\ \A i \in Ids : i > delivered \/ i \in pending =>
       i > delivered' \/ i \in pending' \/ EventOf(i) \in forgotten'
  /\ \A i \in pending' : i \in pending \/ i > delivered
  /\ \A e \in Events : published'[e] = "sent" =>
       published[e] = "sent" \/ \E i \in Ids' : EventOf(i)' = e

\* A job goes on with what it has begun.
JobsQuiet ==
  \A t \in Jobs :
    /\ \/ pc'[t] = pc[t] /\ batch'[t] = batch[t]
       \/ pc[t] \notin Holding /\ pc'[t] \notin Begun
    /\ \A i \in DOMAIN batch'[t] : i \in DOMAIN batch[t] \/ i \in pending \/ i > delivered

Quiet ==
  /\ Lasting /\ StillThere /\ JobsQuiet
  /\ UNCHANGED <<processed, together, cut>>

LEMMA SameStoreQuiet ==
  ASSUME StoreOK, UNCHANGED <<stream, delivered, pending, deadLetters, handled, forgotten, published>>
  PROVE  Lasting /\ StillThere
<1>1. Ids' = Ids BY DEF Ids
<1> QED BY <1>1 DEF Lasting, StillThere, EventOf, StoreOK

LEMMA SameJobsQuiet == ASSUME JobsOK, UNCHANGED jobVars PROVE JobsQuiet
BY DEF jobVars, JobsQuiet

LEMMA GotoQuiet ==
  ASSUME JobsOK, UNCHANGED batch,
         \A t \in Jobs : pc'[t] = pc[t] \/ (pc[t] \notin Holding /\ pc'[t] \notin Begun)
  PROVE  JobsQuiet
BY DEF JobsQuiet

LEMMA OneGoesQuietly ==
  ASSUME JobsOK, UNCHANGED batch, NEW t \in Jobs, NEW s, Goto(t, s), pc[t] \notin Holding, s \notin Begun
  PROVE  JobsQuiet
<1>1. pc \in [Jobs -> JobSteps] BY DEF JobsOK
<1>2. pc'[t] = s /\ \A u \in Jobs \ {t} : pc'[u] = pc[u] BY <1>1 DEF Goto
<1>3. \A u \in Jobs : pc'[u] = pc[u] \/ (pc[u] \notin Holding /\ pc'[u] \notin Begun) BY <1>2
<1> QED BY <1>3, GotoQuiet

LEMMA OutsideQuiet ==
  ASSUME StreamTyped, StreamTyped',
         \/ \E e \in Events : Register(e) \/ Add(e) \/ XAddFails(e)
         \/ Expire
         \/ \E i \in Ids : Age(i)
  PROVE  Quiet
<1>1. StoreOK /\ ProcessOK /\ JobsOK BY DEF StreamTyped
<1>2. CASE \E e \in Events : Register(e) \/ XAddFails(e)
  <2>1. PICK e \in Events : Register(e) \/ XAddFails(e) BY <1>2
  <2>2. UNCHANGED <<stream, delivered, pending, deadLetters, handled, forgotten,
                    jobVars, processed, together, cut>>
    BY <2>1 DEF Register, XAddFails, valkey, ghosts, process
  <2>3. \A x \in Events : published'[x] = "sent" => published[x] = "sent"
    BY <1>1, <2>1 DEF Register, XAddFails, ProcessOK
  <2>4. Ids' = Ids BY <2>2 DEF Ids
  <2>5. Lasting /\ StillThere BY <1>1, <2>2, <2>3, <2>4 DEF Lasting, StillThere, EventOf, StoreOK
  <2> QED BY <1>1, <2>2, <2>5, SameJobsQuiet DEF Quiet
<1>3. CASE \E e \in Events : Add(e)
  <2>1. PICK e \in Events : Add(e) BY <1>3
  <2>2. /\ XAdd(e, 0) /\ published' = [published EXCEPT ![e] = "sent"]
        /\ UNCHANGED <<delivered, pending, deadLetters, forgotten, jobVars, processed, together, cut>>
    BY <2>1 DEF Add, process
  <2>3. PICK l \in {Len(stream')} :
        /\ Ids' = Ids \cup {l} /\ \A i \in Ids : stream'[i] = stream[i] /\ handled'[i] = handled[i]
        /\ stream'[l].event = e /\ handled'[l] = 0 /\ l = Len(stream) + 1
    BY <1>1, <2>2, XAddIs
  <2>4. delivered \in Nat /\ l > delivered BY <1>1, <2>3 DEF StoreOK
  <2>5. Lasting BY <2>2, <2>3, <2>4 DEF Lasting, EventOf
  <2>6. l \in Ids' /\ EventOf(l)' = e BY <2>3 DEF EventOf
  <2>7. \A x \in Events : x # e => published'[x] = published[x] BY <1>1, <2>2 DEF ProcessOK
  <2>8. StillThere BY <2>2, <2>6, <2>7 DEF StillThere
  <2> QED BY <1>1, <2>2, <2>5, <2>8, SameJobsQuiet DEF Quiet
<1>4. CASE Expire \/ \E i \in Ids : Age(i)
  <2>1. UNCHANGED <<stream, delivered, pending, deadLetters, handled, forgotten,
                    published, jobVars, processed,
                    together, cut>>
    BY <1>4 DEF Expire, Age, ghosts, process
  <2> QED BY <1>1, <2>1, SameStoreQuiet, SameJobsQuiet DEF Quiet
<1> QED BY <1>2, <1>3, <1>4

LEMMA GroupQuiet ==
  ASSUME StoreOK, GroupExists,
         UNCHANGED <<published, registered, stream, pending, idle, deliveries, deadLetters, handled>>
  PROVE  Lasting /\ StillThere
<1>1. /\ delivered <= delivered' /\ delivered' \in Nat
      /\ UNCHANGED <<delivered, forgotten>> \/ forgotten' = forgotten \cup {EventOf(i) : i \in Ids}
  BY GroupOK
<1>2. Ids' = Ids BY DEF Ids
<1>3. Lasting BY <1>1, <1>2 DEF Lasting, EventOf
<1>4. StillThere BY <1>1, <1>2 DEF StillThere
<1> QED BY <1>3, <1>4

LEMMA BootQuiet ==
  ASSUME StreamTyped, DownIsOff, BootIsAlone, Start \/ Shutdown \/ Boot \/ BootGroup \/ BootGroupFails
  PROVE  Quiet
<1>1. StoreOK /\ ProcessOK /\ JobsOK BY DEF StreamTyped
<1>2. /\ "off" \notin Holding /\ "boot" \notin Holding /\ "bootGroup" \notin Holding
      /\ "boot" \notin Begun /\ "bootGroup" \notin Begun /\ "idle" \notin Begun
  BY DEF Holding, Begun
<1>3. CASE Start
  <2>1. UNCHANGED <<stream, delivered, pending, deadLetters, handled, forgotten,
                    published, batch, processed,
                    together, cut>>
    BY <1>3 DEF Start, valkey, ghosts
  <2>2. Goto("loop", "boot") /\ pc["loop"] = "off" /\ "loop" \in Jobs
    BY <1>3 DEF Start, DownIsOff, Jobs
  <2>4. JobsQuiet BY <1>1, <1>2, <2>1, <2>2, OneGoesQuietly
  <2> QED BY <1>1, <2>1, <2>4, SameStoreQuiet DEF Quiet
<1>4. CASE Shutdown
  <2>1. UNCHANGED <<stream, delivered, pending, deadLetters, handled, forgotten,
                    published, jobVars, processed,
                    together, cut>>
    BY <1>4 DEF Shutdown, valkey, ghosts
  <2> QED BY <1>1, <2>1, SameStoreQuiet, SameJobsQuiet DEF Quiet
<1>5. ASSUME Booted, pc["loop"] \in {"boot", "bootGroup"}, UNCHANGED batch PROVE JobsQuiet
  <2>1. pc' = [pc EXCEPT !["loop"] = "idle", !["reclaim"] = "idle"] BY <1>5 DEF Booted
  <2>2. pc["reclaim"] = "off" BY <1>5 DEF BootIsAlone
  <2>3. \A t \in Jobs : pc'[t] = pc[t] \/ (pc[t] \notin Holding /\ pc'[t] \notin Begun)
    BY <1>1, <1>2, <1>5, <2>1, <2>2 DEF JobsOK, Jobs
  <2> QED BY <1>1, <1>5, <2>3, GotoQuiet
<1>6. CASE Boot
  <2>1. UNCHANGED <<stream, delivered, pending, deadLetters, handled, forgotten,
                    published, batch, processed,
                    together, cut>>
    BY <1>6 DEF Boot, valkey, process, ghosts
  <2>2. pc["loop"] = "boot" /\ (Booted \/ Goto("loop", "bootGroup")) BY <1>6 DEF Boot
  <2>3. ASSUME Goto("loop", "bootGroup") PROVE JobsQuiet
    BY <1>1, <1>2, <2>1, <2>2, <2>3, OneGoesQuietly DEF Jobs
  <2>4. JobsQuiet BY <1>5, <2>1, <2>2, <2>3
  <2> QED BY <1>1, <2>1, <2>4, SameStoreQuiet DEF Quiet
<1>7. CASE BootGroup
  <2>1. /\ pc["loop"] = "bootGroup" /\ GroupExists /\ Booted
        /\ UNCHANGED <<published, registered, stream, pending, idle, deliveries, deadLetters,
                       processed, batch, handled, together, cut>>
    BY <1>7 DEF BootGroup
  <2>2. JobsQuiet BY <1>5, <2>1
  <2>3. Lasting /\ StillThere BY <1>1, <2>1, GroupQuiet
  <2> QED BY <2>1, <2>2, <2>3 DEF Quiet
<1>8. CASE BootGroupFails
  <2>1. /\ pc["loop"] = "bootGroup" /\ Booted
        /\ UNCHANGED <<stream, delivered, pending, deadLetters, handled, forgotten, published, batch,
                       processed, together, cut>>
    BY <1>8 DEF BootGroupFails, valkey, process, ghosts
  <2>2. JobsQuiet BY <1>5, <2>1
  <2> QED BY <1>1, <2>1, <2>2, SameStoreQuiet DEF Quiet
<1> QED BY <1>3, <1>4, <1>6, <1>7, <1>8

LEMMA LoopQuiet ==
  ASSUME StreamTyped,
         Refresh \/ CreateGroup \/ CreateGroupFails \/ Read \/ ReadNothing \/ ReadFails
  PROVE  Quiet
<1>1. StoreOK /\ ProcessOK /\ JobsOK /\ "loop" \in Jobs BY DEF StreamTyped, Jobs
<1>2. /\ "idle" \notin Holding /\ "group" \notin Holding /\ "read" \notin Holding
      /\ "idle" \notin Begun /\ "group" \notin Begun /\ "read" \notin Begun /\ "entry" \notin Begun
  BY DEF Holding, Begun
<1>3. CASE Refresh \/ CreateGroupFails \/ ReadNothing
  <2>1. UNCHANGED <<stream, delivered, pending, deadLetters, handled, forgotten,
                    published, batch, processed,
                    together, cut>>
    BY <1>3 DEF Refresh, CreateGroupFails, ReadNothing, valkey, process, ghosts
  <2>2. /\ pc["loop"] \in {"idle", "group", "read"}
        /\ \E s \in {"idle", "group", "read"} : Goto("loop", s)
    BY <1>3 DEF Refresh, Tick, CreateGroupFails, ReadNothing
  <2>3. JobsQuiet BY <1>1, <1>2, <2>1, <2>2, OneGoesQuietly
  <2> QED BY <1>1, <2>1, <2>3, SameStoreQuiet DEF Quiet
<1>4. CASE CreateGroup
  <2>1. /\ pc["loop"] = "group" /\ GroupExists /\ Goto("loop", "read")
        /\ UNCHANGED <<published, registered, stream, pending, idle, deliveries, deadLetters,
                       processed, batch, handled, together, cut>>
    BY <1>4 DEF CreateGroup, process
  <2>2. JobsQuiet BY <1>1, <1>2, <2>1, OneGoesQuietly
  <2> QED BY <1>1, <2>1, <2>2, GroupQuiet DEF Quiet
<1>5. ASSUME Delivers, UNCHANGED <<published, registered, stream, group, idle,
                                   deadLetters, handled, forgotten>>
      PROVE  Lasting /\ StillThere /\ \A i \in NewIds : i > delivered
  <2>1. /\ delivered <= delivered' /\ delivered' \in Nat /\ delivered \in Nat
        /\ pending' = pending \cup NewIds /\ \A i \in NewIds : i > delivered
        /\ \A i \in 1..delivered' : i > delivered => i \in NewIds
    BY <1>1, <1>5, DeliversIs DEF StoreOK
  <2>2. Ids' = Ids /\ Ids = 1..Len(stream) /\ Len(stream) \in Nat BY <1>1, <1>5, IdsAre DEF Ids, StoreOK
  <2>3. Lasting BY <1>5, <2>1, <2>2 DEF Lasting, EventOf
  <2>4. ASSUME NEW i \in Ids, i > delivered \/ i \in pending
        PROVE  i > delivered' \/ i \in pending'
    BY <2>1, <2>2, <2>4
  <2>5. StillThere BY <1>5, <2>1, <2>4 DEF StillThere
  <2> QED BY <2>1, <2>3, <2>5
<1>6. CASE Read
  <2>1. /\ pc["loop"] = "read" /\ Delivers /\ batch' = [batch EXCEPT !["loop"] = [i \in NewIds |-> 1]]
        /\ Goto("loop", "entry")
        /\ UNCHANGED <<published, registered, stream, group, idle, deadLetters, processed,
                       handled, forgotten, together, cut>>
    BY <1>6 DEF Read, process, ghosts
  <2>2. Lasting /\ StillThere /\ \A i \in NewIds : i > delivered BY <1>5, <2>1
  <2>3. /\ DOMAIN batch'["loop"] = NewIds /\ pc'["loop"] = "entry"
        /\ \A t \in Jobs \ {"loop"} : batch'[t] = batch[t] /\ pc'[t] = pc[t]
    BY <1>1, <2>1 DEF JobsOK, Goto
  <2>4. JobsQuiet BY <1>2, <2>1, <2>2, <2>3 DEF JobsQuiet
  <2> QED BY <2>1, <2>2, <2>4 DEF Quiet
<1>7. CASE ReadFails
  <2>1. /\ pc["loop"] = "read" /\ Goto("loop", "idle")
        /\ Delivers \/ UNCHANGED <<delivered, pending, deliveries>>
        /\ UNCHANGED <<published, registered, stream, group, idle, deadLetters, processed, batch,
                       handled, forgotten, together, cut>>
    BY <1>7 DEF ReadFails, process, ghosts
  <2>2. JobsQuiet BY <1>1, <1>2, <2>1, OneGoesQuietly
  <2>3. CASE Delivers BY <1>5, <2>1, <2>2, <2>3 DEF Quiet
  <2>4. CASE UNCHANGED <<delivered, pending, deliveries>>
    BY <1>1, <2>1, <2>2, <2>4, SameStoreQuiet DEF Quiet
  <2> QED BY <2>1, <2>3, <2>4
<1> QED BY <1>3, <1>4, <1>6, <1>7

LEMMA ReclaimQuiet ==
  ASSUME StreamTyped, Pending \/ Claim \/ ClaimFails
  PROVE  Quiet
<1>1. StoreOK /\ ProcessOK /\ JobsOK /\ "reclaim" \in Jobs BY DEF StreamTyped, Jobs
<1>2. /\ "idle" \notin Holding /\ "claim" \notin Holding
      /\ "idle" \notin Begun /\ "claim" \notin Begun /\ "entry" \notin Begun /\ "overdue" \notin Begun
  BY DEF Holding, Begun
<1>3. UNCHANGED <<stream, delivered, pending, deadLetters, handled, forgotten, published, processed,
                  together, cut>>
  BY DEF Pending, Claim, ClaimFails, valkey, process, ghosts
<1>4. PICK f : /\ batch' = [batch EXCEPT !["reclaim"] = f]
               /\ \A i \in DOMAIN f : i \in DOMAIN batch["reclaim"] \/ i \in pending
  <2>1. CASE Pending
    <3>1. batch' = [batch EXCEPT !["reclaim"] = Snapshot] BY <2>1 DEF Pending
    <3>2. DOMAIN Snapshot \subseteq pending BY <1>1 DEF Snapshot, Stale, StoreOK
    <3> QED BY <3>1, <3>2
  <2>2. CASE Claim
    <3>1. batch' = [batch EXCEPT !["reclaim"] = Restrict(batch["reclaim"], Claimable)] BY <2>2 DEF Claim
    <3>2. DOMAIN Restrict(batch["reclaim"], Claimable) = Claimable BY <1>1, TakingIs
    <3>3. Claimable \subseteq DOMAIN batch["reclaim"] BY DEF Claimable
    <3> QED BY <3>1, <3>2, <3>3
  <2>3. CASE ClaimFails
    <3>1. batch' = [batch EXCEPT !["reclaim"] = Nothing] BY <2>3 DEF ClaimFails
    <3>2. DOMAIN Nothing = {} BY DEF Nothing
    <3> QED BY <3>1, <3>2
  <2> QED BY <2>1, <2>2, <2>3
<1>5. PICK s \in {"idle", "claim", "entry", "overdue"} : Goto("reclaim", s)
  <2>1. CASE Pending BY <2>1 DEF Pending
  <2>2. CASE Claim
    <3>1. Goto("reclaim", Taking("reclaim", Restrict(batch["reclaim"], Claimable))) BY <2>2 DEF Claim
    <3>2. Taking("reclaim", Restrict(batch["reclaim"], Claimable)) \in {"idle", "overdue", "entry"}
      BY <1>1, TakingIs
    <3> QED BY <3>1, <3>2
  <2>3. CASE ClaimFails BY <2>3 DEF ClaimFails
  <2> QED BY <2>1, <2>2, <2>3
<1>6. pc["reclaim"] \in {"idle", "claim"} BY DEF Pending, Tick, Claim, ClaimFails
<1>7. /\ batch'["reclaim"] = f /\ pc'["reclaim"] = s
      /\ \A t \in Jobs \ {"reclaim"} : batch'[t] = batch[t] /\ pc'[t] = pc[t]
  BY <1>1, <1>4, <1>5 DEF JobsOK, Goto
<1>8. JobsQuiet BY <1>2, <1>4, <1>5, <1>6, <1>7 DEF JobsQuiet
<1> QED BY <1>1, <1>3, <1>8, SameStoreQuiet DEF Quiet

StreamInv == StreamTyped /\ DownIsOff /\ BootIsAlone

\* Whoever takes a step goes on with the entries it has, or the process ends.
LEMMA StreamStepIs ==
  ASSUME StreamInv, StreamInv', [StreamNext]_streamVars
  PROVE  Quiet \/ (\E t \in Jobs : Processing(t)) \/ ProcessEnds
<1>1. StreamTyped /\ StreamTyped' /\ DownIsOff /\ BootIsAlone BY DEF StreamInv
<1>2. CASE UNCHANGED streamVars
  <2>1. UNCHANGED <<stream, delivered, pending, deadLetters, handled, forgotten,
                    published, jobVars, processed,
                    together, cut>>
    BY <1>2 DEF streamVars, valkey, process, ghosts
  <2> QED BY <1>1, <2>1, SameStoreQuiet, SameJobsQuiet DEF Quiet, StreamTyped
<1>3. CASE Loop BY <1>1, <1>3, BootQuiet, LoopQuiet DEF Loop, Jobs
<1>4. CASE Reclaim BY <1>1, <1>4, ReclaimQuiet DEF Reclaim, Jobs
<1>5. CASE Exit \/ Crash BY <1>5 DEF Exit, Crash
<1> QED BY <1>1, <1>2, <1>3, <1>4, <1>5, OutsideQuiet, BootQuiet DEF StreamNext

LEMMA StreamInvHolds == StreamSpec => []StreamInv
<1>1. StreamInit => StreamInv
  BY TypedAtFirst DEF StreamInit, StreamInv, DownIsOff, BootIsAlone, Jobs
<1>2. StreamInv /\ [StreamNext]_streamVars => StreamInv'
  BY StreamTypesStep, DownStep, BootStep DEF StreamInv
<1> QED BY <1>1, <1>2, PTL DEF StreamSpec

-----------------------------------------------------------------------------
(* No event is forgotten.                                                  *)

\* An entry is settled when its event was handled, is among the dead letters,
\* is known to be lost, or was published again behind it.
Settled(i) ==
  \/ handled[i] > 0
  \/ EventOf(i) \in deadLetters \cup forgotten
  \/ \E j \in Ids : j > i /\ EventOf(j) = EventOf(i)

Answers == {"ack", "ackHandled", "ackOverdue", "again"}

\* An entry that is neither to come, pending nor being republished is settled;
\* no job acknowledges another for good; processedMessages has successes only.
Accounted == \A i \in Ids :
  i > delivered \/ i \in pending \/ (\E t \in Jobs : Republishing(t) /\ Current(t) = i) \/ Settled(i)
Answered == \A t \in Jobs : pc[t] \in Answers => Settled(Current(t))
Remembered ==
  /\ \A i \in processed : handled[i] > 0
  /\ \A t \in Jobs : pc[t] = "ackHandled" => handled[Current(t)] > 0
Arrived == \A e \in Events : published[e] = "sent" => \E i \in Ids : EventOf(i) = e

StreamKept == Accounted /\ Answered /\ Remembered /\ Arrived

History ==
  /\ \A i \in Ids : i \in Ids' /\ EventOf(i)' = EventOf(i) /\ (handled[i] > 0 => handled'[i] > 0)
  /\ deadLetters \cup forgotten \subseteq deadLetters' \cup forgotten'

LEMMA SettledStays ==
  ASSUME History, NEW i \in Ids, Settled(i) PROVE Settled(i)'
BY DEF History, Settled

LEMMA SameCurrent == ASSUME NEW t \in Jobs, batch'[t] = batch[t] PROVE Current(t)' = Current(t)
BY DEF Current

LEMMA QuietKept ==
  ASSUME StreamInv, StreamKept, Quiet
  PROVE  StreamKept'
<1>1. /\ StoreOK /\ ProcessOK /\ JobsOK /\ Lasting /\ StillThere /\ JobsQuiet
      /\ UNCHANGED <<processed, together, cut>>
      /\ Accounted /\ Answered /\ Remembered /\ Arrived
  BY DEF StreamInv, StreamTyped, Quiet, StreamKept
<1>2. History BY <1>1 DEF Lasting, StillThere, History
<1>3. /\ "republish" \in Holding /\ "republish" \in Begun
      /\ \A s \in Answers : s \in Holding /\ s \in Begun
  BY DEF Holding, Begun, Answers
<1>4. Accounted'
  <2> SUFFICES ASSUME NEW i \in Ids'
               PROVE  i > delivered' \/ i \in pending'
                        \/ (\E t \in Jobs : Republishing(t) /\ Current(t) = i)' \/ Settled(i)'
    BY DEF Accounted
  <2>1. CASE i \notin Ids BY <1>1, <2>1 DEF Lasting
  <2>2. CASE i \in Ids /\ (i > delivered \/ i \in pending)
    <3>1. i > delivered' \/ i \in pending' \/ EventOf(i) \in forgotten'
      BY <1>1, <2>2 DEF StillThere
    <3>2. EventOf(i)' = EventOf(i) BY <1>1, <2>2 DEF Lasting
    <3>3. EventOf(i) \in forgotten' => Settled(i)' BY <3>2 DEF Settled
    <3> QED BY <3>1, <3>3
  <2>3. ASSUME i \in Ids, NEW t \in Jobs, Republishing(t), Current(t) = i
        PROVE  Republishing(t)' /\ Current(t)' = i
    <3>1. pc'[t] = pc[t] /\ batch'[t] = batch[t] BY <1>1, <1>3, <2>3 DEF JobsQuiet, Republishing
    <3> QED BY <2>3, <3>1, SameCurrent DEF Republishing
  <2>4. CASE i \in Ids /\ Settled(i) BY <1>2, <2>4, SettledStays
  <2> QED BY <1>1, <2>1, <2>2, <2>3, <2>4 DEF Accounted
<1>5. ASSUME NEW t \in Jobs, pc'[t] \in Answers
      PROVE  /\ pc[t] = pc'[t] /\ Current(t)' = Current(t) /\ Current(t) \in Ids
  <2>1. pc'[t] = pc[t] /\ batch'[t] = batch[t] BY <1>1, <1>3, <1>5 DEF JobsQuiet
  <2> QED BY <1>1, <1>3, <1>5, <2>1, SameCurrent, CurrentIs
<1>6. Answered'
  <2> SUFFICES ASSUME NEW t \in Jobs, pc'[t] \in Answers PROVE Settled(Current(t))' BY DEF Answered
  <2>1. PICK i : i = Current(t) /\ i \in Ids /\ Current(t)' = i BY <1>5
  <2>2. Settled(i) BY <1>1, <1>5, <2>1 DEF Answered
  <2>3. Settled(i)' BY <1>2, <2>1, <2>2, SettledStays
  <2> QED BY <2>1, <2>3 DEF Settled
<1>7. Remembered'
  <2>1. \A i \in processed' : handled'[i] > 0 BY <1>1 DEF Remembered, Lasting, ProcessOK
  <2>2. ASSUME NEW t \in Jobs, pc'[t] = "ackHandled" PROVE handled'[Current(t)'] > 0
    <3>1. pc[t] = "ackHandled" /\ Current(t)' = Current(t) /\ Current(t) \in Ids
      BY <1>5, <2>2 DEF Answers
    <3> QED BY <1>1, <3>1 DEF Remembered, Lasting
  <2> QED BY <2>1, <2>2 DEF Remembered
<1>8. Arrived'
  <2> SUFFICES ASSUME NEW e \in Events, published'[e] = "sent" PROVE \E i \in Ids' : EventOf(i)' = e
    BY DEF Arrived
  <2>1. published[e] = "sent" => \E i \in Ids : EventOf(i) = e BY <1>1 DEF Arrived
  <2> QED BY <1>1, <2>1 DEF StillThere, Lasting
<1> QED BY <1>4, <1>6, <1>7, <1>8 DEF StreamKept

LEMMA EndKept ==
  ASSUME StreamInv, StreamKept, ProcessEnds
  PROVE  StreamKept'
<1>1. /\ StoreOK /\ ProcessOK /\ JobsOK
      /\ Accounted /\ Answered /\ Remembered /\ Arrived
  BY DEF StreamInv, StreamTyped, StreamKept
<1>2. /\ UNCHANGED <<stream, delivered, pending, deadLetters, handled>> /\ processed' = {}
      /\ \A t \in Jobs : pc'[t] = "off"
      /\ forgotten' = forgotten \cup {EventOf(Current(t)) : t \in {s \in Jobs : Republishing(s)}}
  BY DEF ProcessEnds, valkey
<1>3. \A e \in Events : published'[e] = "sent" => published[e] = "sent"
  BY <1>1 DEF ProcessEnds, ProcessOK
<1>4. Ids' = Ids BY <1>2 DEF Ids
<1>5. History BY <1>2, <1>4 DEF History, EventOf
<1>6. Accounted'
  <2> SUFFICES ASSUME NEW i \in Ids PROVE i > delivered \/ i \in pending \/ Settled(i)'
    BY <1>2, <1>4 DEF Accounted
  <2>1. ASSUME NEW t \in Jobs, Republishing(t), Current(t) = i PROVE Settled(i)'
    <3>1. EventOf(i) \in forgotten' BY <1>2, <2>1
    <3>2. EventOf(i)' = EventOf(i) BY <1>2 DEF EventOf
    <3> QED BY <3>1, <3>2 DEF Settled
  <2>2. CASE Settled(i) BY <1>5, <2>2, SettledStays
  <2> QED BY <1>1, <2>1, <2>2 DEF Accounted
<1>7. Answered' /\ Remembered' BY <1>2 DEF Answered, Answers, Remembered
<1>8. Arrived' BY <1>1, <1>2, <1>3, <1>4 DEF Arrived, EventOf
<1> QED BY <1>6, <1>7, <1>8 DEF StreamKept

\* What a step at an entry changes.
LEMMA WorkIs ==
  ASSUME StreamInv, NEW t \in Jobs, Processing(t)
  PROVE  /\ History /\ UNCHANGED <<delivered, cut, published>>
         /\ \A i \in Ids : i # Current(t) => handled'[i] = handled[i]
         /\ \A i \in Ids' \ Ids : i > delivered /\ handled'[i] = 0
         /\ pending \ {Current(t)} \subseteq pending' /\ pending' \subseteq pending
         /\ Current(t) \in Ids /\ Current(t) \in DOMAIN batch[t] /\ Current(t) <= delivered
<1>1. StoreOK /\ ProcessOK /\ JobsOK BY DEF StreamInv, StreamTyped
<1>2. pc[t] \in Holding BY <1>1, ProcessingMoves
<1>3. /\ Current(t) \in DOMAIN batch[t] /\ Current(t) \in 1..delivered
      /\ Current(t) \in Ids /\ EventOf(Current(t)) \in Events
  BY <1>1, <1>2, CurrentIs
<1>4. Current(t) <= delivered BY <1>1, <1>3 DEF StoreOK
<1>5. UNCHANGED <<delivered, cut, published>>
  BY DEF Processing, ProcessEntry, HandlerSucceeds, HandlerFails, Ack, AckHandled, AckFailed,
         Republish, RepublishFails, DeadLetter, AckAndAdvance, valkey, ghosts
<1>6. pending \ {Current(t)} \subseteq pending' /\ pending' \subseteq pending
  BY AcksIs DEF Processing, ProcessEntry, HandlerSucceeds, HandlerFails, Ack, AckHandled, AckFailed,
         Republish, RepublishFails, DeadLetter, AckAndAdvance, valkey
<1>7. deadLetters \cup forgotten \subseteq deadLetters' \cup forgotten'
  BY DEF Processing, ProcessEntry, HandlerSucceeds, HandlerFails, Ack, AckHandled, AckFailed,
         Republish, RepublishFails, DeadLetter, AckAndAdvance, valkey, ghosts
<1>8. CASE UNCHANGED <<stream, handled>>
  <2>1. Ids' = Ids BY <1>8 DEF Ids
  <2> QED BY <1>3, <1>4, <1>5, <1>6, <1>7, <1>8, <2>1 DEF History, EventOf
<1>9. CASE HandlerSucceeds(t)
  <2>1. handled' = [handled EXCEPT ![Current(t)] = @ + 1] /\ UNCHANGED stream
    BY <1>9 DEF HandlerSucceeds, valkey
  <2>2. Ids = DOMAIN handled /\ \A i \in Ids : handled[i] \in Nat BY <1>1, IdsAre DEF StoreOK
  <2>3. \A i \in Ids : handled'[i] = IF i = Current(t) THEN handled[i] + 1 ELSE handled[i]
    BY <2>1, <2>2
  <2>4. Ids' = Ids BY <2>1 DEF Ids
  <2>5. \A i \in Ids : handled[i] > 0 => handled'[i] > 0 BY <2>2, <2>3
  <2>6. \A i \in Ids : EventOf(i)' = EventOf(i) BY <2>1 DEF EventOf
  <2>7. History BY <1>7, <2>4, <2>5, <2>6 DEF History
  <2> QED BY <1>3, <1>4, <1>5, <1>6, <2>3, <2>4, <2>7
<1>10. CASE Republish(t)
  <2>1. PICK l \in {Len(stream')} :
          /\ Ids' = Ids \cup {l} /\ handled'[l] = 0 /\ l = Len(stream) + 1
          /\ \A i \in Ids : stream'[i] = stream[i] /\ handled'[i] = handled[i]
    <3>1. XAdd(EventOf(Current(t)), stream[Current(t)].retryCount + 1) BY <1>10 DEF Republish
    <3>2. stream[Current(t)] \in Entries BY <1>1, <1>3 DEF StoreOK, Ids
    <3>3. stream[Current(t)].retryCount + 1 \in Nat BY <3>2 DEF Entries
    <3> QED BY <1>1, <1>3, <3>1, <3>3, XAddIs
  <2>2. l > delivered BY <1>1, <2>1 DEF StoreOK
  <2>3. History BY <1>7, <2>1 DEF History, EventOf
  <2> QED BY <1>3, <1>4, <1>5, <1>6, <2>1, <2>2, <2>3
<1>11. UNCHANGED <<stream, handled>> \/ HandlerSucceeds(t) \/ Republish(t)
  BY DEF Processing, ProcessEntry, HandlerFails, Ack, AckHandled, AckFailed,
         RepublishFails, DeadLetter, AckAndAdvance, valkey, ghosts
<1> QED BY <1>8, <1>9, <1>10, <1>11

\* An entry is acknowledged when it is settled, or is about to be republished.
LEMMA WorkSettles ==
  ASSUME StreamInv, StreamKept, NEW t \in Jobs, Processing(t), NEW c, c = Current(t)
  PROVE  /\ c \in pending => c \in pending' \/ Settled(c)' \/ (Republishing(t)' /\ Current(t)' = c)
         /\ Republishing(t) => Settled(c)'
         /\ pc'[t] \in Answers => Current(t)' = c /\ Settled(c)'
         /\ \A i \in processed' : i \in processed \/ (i = c /\ handled[c] > 0)
         /\ pc'[t] = "ackHandled" => handled'[c] > 0
<1>1. /\ StoreOK /\ ProcessOK /\ JobsOK
      /\ Accounted /\ Answered /\ Remembered
  BY DEF StreamInv, StreamTyped, StreamKept
<1>2. /\ History /\ c \in Ids
      /\ pending \ {c} \subseteq pending' /\ c \in DOMAIN batch[t]
  BY WorkIs
<1>3. Settled(c) => Settled(c)' BY <1>2, SettledStays
<1>4. pc \in [Jobs -> JobSteps] BY <1>1 DEF JobsOK
<1>5. pc[t] \in Holding BY <1>1, ProcessingMoves
<1>6. ASSUME Returns(t) \/ NextEntry(t)
      PROVE  /\ pc'[t] \in {"idle", "overdue", "entry", "again"}
             /\ pc'[t] \in Answers => Current(t)' = c
  <2>1. Leaves(t) BY <1>1, <1>5, <1>6, ReturnsIs, NextEntryIs
  <2>2. pc'[t] = "again" => batch' = batch BY <2>1 DEF Leaves
  <2>3. batch' = batch => Current(t)' = c BY SameCurrent
  <2> QED BY <2>1, <2>2, <2>3 DEF Leaves, Answers
<1>7. EventOf(c)' = EventOf(c) BY <1>2 DEF History
<1>8. CASE ProcessEntry(t)
  <2>1. /\ pc[t] = "entry" /\ UNCHANGED <<pending, batch, processed>>
        /\ \/ c \in processed /\ Goto(t, "ack")
           \/ EventOf(c) \in forgotten' /\ Goto(t, "ack")
           \/ Goto(t, "deadLetter") \/ Goto(t, "handling")
    BY <1>8 DEF ProcessEntry, valkey, process
  <2>2. ~Republishing(t) /\ Current(t)' = c BY <2>1, SameCurrent DEF Republishing
  <2>3. c \in processed => Settled(c) BY <1>1 DEF Remembered, Settled
  <2>4. EventOf(c) \in forgotten' => Settled(c)' BY <1>7 DEF Settled
  <2>5. pc'[t] = "deadLetter" \/ pc'[t] = "handling" \/ (pc'[t] = "ack" /\ Settled(c)')
    BY <1>3, <1>4, <2>1, <2>3, <2>4 DEF Goto
  <2> QED BY <2>1, <2>2, <2>5 DEF Answers
<1>9. CASE HandlerSucceeds(t)
  <2>1. /\ pc[t] = "handling" /\ UNCHANGED <<pending, batch, processed>> /\ Goto(t, "ackHandled")
        /\ handled' = [handled EXCEPT ![c] = @ + 1]
    BY <1>9 DEF HandlerSucceeds, valkey, process
  <2>2. c \in DOMAIN handled /\ handled[c] \in Nat BY <1>1, <1>2, IdsAre DEF StoreOK
  <2>3. handled'[c] > 0 BY <2>1, <2>2
  <2>4. Settled(c)' BY <2>3 DEF Settled
  <2> QED BY <2>1, <2>3, <2>4, SameCurrent DEF Republishing
<1>10. CASE HandlerFails(t)
  <2>1. /\ pc[t] = "handling" /\ UNCHANGED <<pending, batch, processed>> /\ pc'[t] = "ackFailed"
    BY <1>4, <1>10 DEF HandlerFails, valkey, process, Goto
  <2> QED BY <2>1 DEF Republishing, Answers
<1>11. CASE Ack(t) \/ AckAndAdvance(t)
  <2>1. /\ pc[t] \in Answers /\ pc[t] # "republish" /\ UNCHANGED processed
        /\ Returns(t) \/ NextEntry(t)
    BY <1>11 DEF Ack, AckAndAdvance, Answers, process
  <2>2. Settled(c)' BY <1>1, <1>3, <2>1 DEF Answered
  <2> QED BY <1>6, <2>1, <2>2 DEF Republishing
<1>12. CASE AckHandled(t)
  <2>1. /\ pc[t] = "ackHandled" /\ Returns(t) /\ processed' = processed \cup {c}
    BY <1>12 DEF AckHandled
  <2>2. handled[c] > 0 BY <1>1, <2>1 DEF Remembered
  <2>3. Settled(c)' BY <1>3, <2>2 DEF Settled
  <2> QED BY <1>6, <2>1, <2>2, <2>3 DEF Republishing
<1>13. CASE AckFailed(t)
  <2>1. pc[t] = "ackFailed" /\ UNCHANGED <<batch, processed>> /\ pc'[t] = "republish"
    BY <1>4, <1>13 DEF AckFailed, process, Goto
  <2> QED BY <2>1, SameCurrent DEF Republishing, Answers
<1>14. CASE Republish(t)
  <2>1. /\ XAdd(EventOf(c), stream[c].retryCount + 1) /\ Returns(t) /\ UNCHANGED <<processed, pending>>
    BY <1>14 DEF Republish, process
  <2>2. EventOf(c) \in Events BY <1>1, <1>5, CurrentIs
  <2>3. PICK l \in {Len(stream')} : l \in Ids' /\ stream'[l].event = EventOf(c) /\ l = Len(stream) + 1
    <3>1. stream[c] \in Entries BY <1>1, <1>2 DEF StoreOK, Ids
    <3>2. stream[c].retryCount + 1 \in Nat BY <3>1 DEF Entries
    <3> QED BY <1>1, <2>1, <2>2, <3>2, XAddIs
  <2>4. l > c BY <1>1, <1>2, <2>3, IdsAre DEF StoreOK
  <2>5. EventOf(l)' = EventOf(c)' BY <1>7, <2>3 DEF EventOf
  <2>6. Settled(c)' BY <2>3, <2>4, <2>5 DEF Settled
  <2> QED BY <1>6, <2>1, <2>6
<1>15. CASE RepublishFails(t)
  <2>1. Returns(t) /\ EventOf(c) \in forgotten' /\ UNCHANGED processed
    BY <1>15 DEF RepublishFails, process
  <2>2. Settled(c)' BY <1>7, <2>1 DEF Settled
  <2> QED BY <1>6, <2>1, <2>2
<1>16. CASE DeadLetter(t)
  <2>1. /\ pc[t] \in {"deadLetter", "overdue"} /\ EventOf(c) \in deadLetters' \cup forgotten'
        /\ UNCHANGED <<pending, batch, processed>> /\ pc'[t] \in {"ack", "ackOverdue"}
    BY <1>4, <1>16 DEF DeadLetter, process, Goto
  <2>2. Settled(c)' BY <1>7, <2>1 DEF Settled
  <2> QED BY <2>1, <2>2, SameCurrent DEF Republishing
<1> QED BY <1>8, <1>9, <1>10, <1>11, <1>12, <1>13, <1>14, <1>15, <1>16 DEF Processing

LEMMA WorkKept ==
  ASSUME StreamInv, StreamKept, NEW t \in Jobs, Processing(t)
  PROVE  StreamKept'
<1>1. /\ StoreOK /\ ProcessOK /\ JobsOK
      /\ Accounted /\ Answered /\ Remembered /\ Arrived
  BY DEF StreamInv, StreamTyped, StreamKept
<1>2. PICK c : c = Current(t) OBVIOUS
<1>3. /\ History /\ UNCHANGED <<delivered, cut, published>>
      /\ \A i \in Ids' \ Ids : i > delivered /\ handled'[i] = 0
      /\ pending \ {c} \subseteq pending' /\ pending' \subseteq pending /\ c \in Ids
  BY <1>2, WorkIs
<1>4. /\ c \in pending => c \in pending' \/ Settled(c)' \/ (Republishing(t)' /\ Current(t)' = c)
      /\ Republishing(t) => Settled(c)'
      /\ pc'[t] \in Answers => Current(t)' = c /\ Settled(c)'
      /\ \A i \in processed' : i \in processed \/ (i = c /\ handled[c] > 0)
      /\ pc'[t] = "ackHandled" => handled'[c] > 0
  BY <1>2, WorkSettles
<1>5. \A s \in Jobs \ {t} : pc'[s] = pc[s] /\ Current(s)' = Current(s)
  BY <1>1, ProcessingMoves, SameCurrent
<1>6. Accounted'
  <2> SUFFICES ASSUME NEW i \in Ids'
               PROVE  i > delivered' \/ i \in pending'
                        \/ (\E s \in Jobs : Republishing(s) /\ Current(s) = i)' \/ Settled(i)'
    BY DEF Accounted
  <2>1. CASE i \notin Ids \/ i > delivered BY <1>3, <2>1
  <2>2. CASE i \in pending BY <1>3, <1>4, <2>2
  <2>3. ASSUME i \in Ids, NEW s \in Jobs, Republishing(s), Current(s) = i
        PROVE  (Republishing(s)' /\ Current(s)' = i) \/ Settled(i)'
    <3>1. CASE s = t BY <1>2, <1>4, <2>3, <3>1
    <3>2. CASE s # t BY <1>5, <2>3, <3>2 DEF Republishing
    <3> QED BY <3>1, <3>2
  <2>4. CASE i \in Ids /\ Settled(i) BY <1>3, <2>4, SettledStays
  <2> QED BY <1>1, <2>1, <2>2, <2>3, <2>4 DEF Accounted
<1>7. ASSUME NEW s \in Jobs, s # t, pc'[s] \in Answers
      PROVE  /\ pc[s] = pc'[s] /\ Current(s)' = Current(s) /\ Current(s) \in Ids
  <2>1. pc'[s] \in Holding BY <1>7 DEF Answers, Holding
  <2> QED BY <1>1, <1>5, <1>7, <2>1, CurrentIs
<1>8. Answered'
  <2> SUFFICES ASSUME NEW s \in Jobs, pc'[s] \in Answers PROVE Settled(Current(s))' BY DEF Answered
  <2>1. CASE s = t BY <1>4, <2>1 DEF Settled
  <2>2. CASE s # t
    <3>1. PICK i : i = Current(s) /\ i \in Ids /\ Current(s)' = i BY <1>7, <2>2
    <3>2. Settled(i) BY <1>1, <1>7, <2>2, <3>1 DEF Answered
    <3>3. Settled(i)' BY <1>3, <3>1, <3>2, SettledStays
    <3> QED BY <3>1, <3>3 DEF Settled
  <2> QED BY <2>1, <2>2
<1>9. Remembered'
  <2>1. \A i \in processed' : handled'[i] > 0
    BY <1>1, <1>3, <1>4 DEF Remembered, ProcessOK, History
  <2>2. ASSUME NEW s \in Jobs, pc'[s] = "ackHandled" PROVE handled'[Current(s)'] > 0
    <3>1. CASE s = t BY <1>4, <2>2, <3>1 DEF Answers
    <3>2. CASE s # t
      <4>1. pc[s] = "ackHandled" /\ Current(s)' = Current(s) /\ Current(s) \in Ids
        BY <1>7, <2>2, <3>2 DEF Answers
      <4> QED BY <1>1, <1>3, <4>1 DEF Remembered, History
    <3> QED BY <3>1, <3>2
  <2> QED BY <2>1, <2>2 DEF Remembered
<1>10. Arrived' BY <1>1, <1>3 DEF Arrived, History
<1> QED BY <1>6, <1>8, <1>9, <1>10 DEF StreamKept

\* An event that reached the stream, and that no refused call, crash or missing
\* handler has taken away, is still to be delivered, pending, being republished,
\* handled or among the dead letters (processEntry, republishWithRetry,
\* reclaimPendingEntries), for any number of events and failures.
THEOREM NoneForgotten == StreamSpec => []NothingForgotten
<1>1. StreamInit => StreamKept
  <2> SUFFICES ASSUME StreamInit PROVE StreamKept OBVIOUS
  <2>1. Ids = {} BY DEF StreamInit, Ids
  <2>2. \A t \in Jobs : pc[t] = "off" BY DEF StreamInit
  <2>3. \A e \in Events : published[e] = "no" BY DEF StreamInit
  <2>4. processed = {} BY DEF StreamInit
  <2> QED BY <2>1, <2>2, <2>3, <2>4 DEF StreamKept, Accounted, Answered, Answers, Remembered, Arrived
<1>2. StreamInv /\ StreamInv' /\ StreamKept /\ [StreamNext]_streamVars => StreamKept'
  BY StreamStepIs, QuietKept, WorkKept, EndKept
<1>3. StreamInv /\ StreamKept => NothingForgotten
  <2> SUFFICES ASSUME StreamInv, StreamKept, NEW e \in Events, published[e] = "sent"
               PROVE  \/ Concluded(e)
                      \/ \E i \in EntriesOf(e) :
                           i > delivered \/ i \in pending \/ \E t \in Jobs : Republishing(t) /\ Current(t) = i
    BY DEF NothingForgotten
  <2>1. StoreOK /\ Accounted /\ Arrived BY DEF StreamInv, StreamTyped, StreamKept
  <2>2. Ids = 1..Len(stream) /\ Len(stream) \in Nat BY <2>1, IdsAre DEF StoreOK
  <2>3. EntriesOf(e) # {} /\ EntriesOf(e) \subseteq 1..Len(stream)
    BY <2>1, <2>2 DEF Arrived, EntriesOf
  <2>4. PICK i \in EntriesOf(e) : \A j \in EntriesOf(e) : j <= i BY <2>2, <2>3, LastIs
  <2>5. i \in Ids /\ EventOf(i) = e BY DEF EntriesOf
  <2>6. CASE Settled(i)
    <3>1. ~\E j \in Ids : j > i /\ EventOf(j) = EventOf(i)
      BY <2>2, <2>4, <2>5 DEF EntriesOf
    <3> QED BY <2>4, <2>5, <2>6, <3>1 DEF Settled, Concluded
  <2> QED BY <2>1, <2>4, <2>5, <2>6 DEF Accounted
<1> QED BY <1>1, <1>2, <1>3, StreamInvHolds, PTL DEF StreamSpec

-----------------------------------------------------------------------------
(* The handler's successes.                                                *)

\* Two jobs are at the handler with one entry only if this was seen; nobody
\* else is there with an entry that processedMessages has; a success was for a
\* delivered entry, which is remembered, about to be, or out of everyone's reach.
SeenTogether == \A t, s \in Jobs :
  t # s /\ Handling(t) /\ Handling(s) /\ Current(t) = Current(s) => Current(t) \in together
NoRepeat == \A t \in Jobs :
  pc[t] = "handling" /\ Current(t) \in processed => Current(t) \in together
Past == \A i \in Ids : handled[i] > 0 => i <= delivered
Explained == \A i \in Ids : handled[i] > 0 =>
  \/ i \in together \cup cut \cup processed
  \/ \E t \in Jobs : pc[t] = "ackHandled" /\ Current(t) = i
  \/ i \notin pending /\ \A t \in Jobs : i \notin DOMAIN batch[t]

StreamOnce == SeenTogether /\ NoRepeat /\ Past /\ Explained /\ HandledOnce

LEMMA QuietOnce ==
  ASSUME StreamInv, StreamOnce, Quiet
  PROVE  StreamOnce'
<1>1. /\ StoreOK /\ ProcessOK /\ JobsOK /\ Lasting /\ StillThere /\ JobsQuiet
      /\ UNCHANGED <<processed, together, cut>>
      /\ SeenTogether /\ NoRepeat /\ Past /\ Explained /\ HandledOnce
  BY DEF StreamInv, StreamTyped, Quiet, StreamOnce
<1>2. ASSUME NEW t \in Jobs, pc'[t] \in {"handling", "ackHandled"} \/ pc[t] \in {"handling", "ackHandled"}
      PROVE  pc'[t] = pc[t] /\ Current(t)' = Current(t)
  <2>1. pc'[t] = pc[t] /\ batch'[t] = batch[t] BY <1>1, <1>2 DEF JobsQuiet, Begun, Holding
  <2> QED BY <2>1, SameCurrent
<1>3. SeenTogether' /\ NoRepeat' BY <1>1, <1>2 DEF SeenTogether, NoRepeat, Handling
<1>4. \A i \in Ids' : handled'[i] > 0 => i \in Ids /\ handled[i] = handled'[i] BY <1>1 DEF Lasting
<1>5. Past'
  <2> SUFFICES ASSUME NEW i \in Ids', handled'[i] > 0 PROVE i <= delivered' BY DEF Past
  <2>1. i \in Ids /\ i <= delivered BY <1>1, <1>4 DEF Past
  <2>2. i \in Nat /\ delivered \in Nat /\ delivered' \in Nat BY <1>1, <2>1, IdsAre DEF StoreOK, Lasting
  <2> QED BY <1>1, <2>1, <2>2 DEF Lasting
<1>6. Explained'
  <2> SUFFICES ASSUME NEW i \in Ids', handled'[i] > 0
               PROVE  \/ i \in together' \cup cut' \cup processed'
                      \/ (\E t \in Jobs : pc[t] = "ackHandled" /\ Current(t) = i)'
                      \/ i \notin pending' /\ \A t \in Jobs : i \notin DOMAIN batch'[t]
    BY DEF Explained
  <2>1. i \in Ids /\ handled[i] > 0 /\ i <= delivered BY <1>1, <1>4 DEF Past
  <2>2. ~(i > delivered) BY <1>1, <2>1, IdsAre DEF StoreOK
  <2>3. ASSUME NEW t \in Jobs, pc[t] = "ackHandled", Current(t) = i
        PROVE  (pc[t] = "ackHandled" /\ Current(t) = i)'
    BY <1>2, <2>3
  <2>4. CASE i \notin pending /\ \A t \in Jobs : i \notin DOMAIN batch[t]
    <3>1. i \notin pending' BY <1>1, <2>2, <2>4 DEF StillThere
    <3>2. ASSUME NEW t \in Jobs PROVE i \notin DOMAIN batch'[t] BY <1>1, <2>2, <2>4 DEF JobsQuiet
    <3> QED BY <3>1, <3>2
  <2> QED BY <1>1, <2>1, <2>3, <2>4 DEF Explained
<1>7. HandledOnce'
  <2> SUFFICES ASSUME NEW i \in Ids', handled'[i] > 1 PROVE i \in together' \cup cut' BY DEF HandledOnce
  <2>1. i \in Ids BY <1>1 DEF Lasting
  <2> QED BY <1>1, <2>1 DEF HandledOnce, Lasting
<1> QED BY <1>3, <1>5, <1>6, <1>7 DEF StreamOnce

LEMMA EndOnce ==
  ASSUME StreamInv, StreamOnce, ProcessEnds
  PROVE  StreamOnce'
<1>1. Past /\ HandledOnce BY DEF StreamOnce
<1>2. /\ UNCHANGED <<stream, delivered, pending, handled, together>>
      /\ pc' = [t \in Jobs |-> "off"] /\ batch' = [t \in Jobs |-> Nothing] /\ cut' = cut \cup pending
  BY DEF ProcessEnds, valkey
<1>3. Ids' = Ids BY <1>2 DEF Ids
<1>4. SeenTogether' /\ NoRepeat' BY <1>2 DEF SeenTogether, NoRepeat, Handling
<1>5. Past' /\ HandledOnce' BY <1>1, <1>2, <1>3 DEF Past, HandledOnce
<1>6. DOMAIN Nothing = {} BY DEF Nothing
<1>7. Explained' BY <1>2, <1>3, <1>6 DEF Explained
<1> QED BY <1>4, <1>5, <1>7 DEF StreamOnce

\* How a job comes to the handler and leaves it.
LEMMA WorkHands ==
  ASSUME StreamInv, NEW t \in Jobs, Processing(t), NEW c, c = Current(t)
  PROVE  /\ together \subseteq together' /\ processed \subseteq processed'
         /\ \A i \in processed' : i \in processed \/ (i = c /\ pc[t] = "ackHandled")
         /\ pc[t] = "ackHandled" => c \in processed'
         /\ pc'[t] = "handling" =>
              /\ Current(t)' = c /\ c \notin processed'
              /\ \A s \in Jobs \ {t} : Handling(s) /\ Current(s) = c => c \in together'
         /\ pc'[t] = "ackHandled" => pc[t] = "handling" /\ Current(t)' = c
         /\ \/ handled'[c] = handled[c]
            \/ pc[t] = "handling" /\ pc'[t] = "ackHandled" /\ handled'[c] = handled[c] + 1
<1>1. StoreOK /\ ProcessOK /\ JobsOK BY DEF StreamInv, StreamTyped
<1>2. pc \in [Jobs -> JobSteps] /\ c \in Ids /\ pc[t] \in Holding
  BY <1>1, WorkIs, ProcessingMoves DEF JobsOK
<1>3. CASE ProcessEntry(t)
  <2>1. /\ pc[t] = "entry" /\ UNCHANGED <<batch, processed, handled>>
        /\ Goto(t, "ack") \/ Goto(t, "deadLetter") \/ Goto(t, "handling")
        /\ together' = together \/ together' = together \cup {c}
    BY <1>3 DEF ProcessEntry, process
  <2>2. pc'[t] \in {"ack", "deadLetter", "handling"} BY <1>2, <2>1 DEF Goto
  <2>3. ASSUME pc'[t] = "handling"
        PROVE  /\ c \notin processed
               /\ \A s \in Jobs \ {t} : Handling(s) /\ Current(s) = c => c \in together'
    <3>1. ~Goto(t, "ack") /\ ~Goto(t, "deadLetter") BY <1>2, <2>3 DEF Goto
    <3>2. /\ c \notin processed
          /\ together' = IF \E s \in Jobs \ {t} : Handling(s) /\ Current(s) = c
                         THEN together \cup {c} ELSE together
      BY <1>3, <3>1 DEF ProcessEntry
    <3> QED BY <3>2
  <2> QED BY <2>1, <2>2, <2>3, SameCurrent
<1>4. CASE HandlerSucceeds(t)
  <2>1. /\ pc[t] = "handling" /\ pc'[t] = "ackHandled" /\ UNCHANGED <<batch, processed, together>>
        /\ handled' = [handled EXCEPT ![c] = @ + 1]
    BY <1>2, <1>4 DEF HandlerSucceeds, process, Goto
  <2>2. c \in DOMAIN handled BY <1>1, <1>2, IdsAre DEF StoreOK
  <2>3. handled'[c] = handled[c] + 1 BY <2>1, <2>2
  <2> QED BY <2>1, <2>3, SameCurrent
<1>5. CASE HandlerFails(t) \/ AckFailed(t) \/ DeadLetter(t)
  <2>1. /\ UNCHANGED <<processed, together, handled>> /\ pc[t] # "ackHandled"
        /\ \E s \in {"ackFailed", "republish", "ack", "ackOverdue"} : Goto(t, s)
    BY <1>5 DEF HandlerFails, AckFailed, DeadLetter, process, ghosts
  <2>2. pc'[t] \in {"ackFailed", "republish", "ack", "ackOverdue"} BY <1>2, <2>1 DEF Goto
  <2> QED BY <2>1, <2>2
<1>6. CASE Ack(t) \/ AckHandled(t) \/ Republish(t) \/ RepublishFails(t) \/ AckAndAdvance(t)
  <2>1. Returns(t) \/ NextEntry(t)
    BY <1>6 DEF Ack, AckHandled, Republish, RepublishFails, AckAndAdvance
  <2>2. pc'[t] \in {"idle", "overdue", "entry", "again"}
    BY <1>1, <1>2, <2>1, ReturnsIs, NextEntryIs DEF Leaves
  <2>3. UNCHANGED together
    BY <1>6 DEF Ack, AckHandled, Republish, RepublishFails, AckAndAdvance
  <2>4. \/ UNCHANGED processed /\ pc[t] # "ackHandled"
        \/ processed' = processed \cup {c} /\ pc[t] = "ackHandled"
    BY <1>6 DEF Ack, AckHandled, Republish, RepublishFails, AckAndAdvance, process
  <2>5. handled'[c] = handled[c]
    <3>1. CASE Republish(t)
      <4>1. XAdd(EventOf(c), stream[c].retryCount + 1) BY <3>1 DEF Republish
      <4>2. EventOf(c) \in Events BY <1>1, <1>2, CurrentIs
      <4>3. stream[c] \in Entries BY <1>1, <1>2 DEF StoreOK, Ids
      <4>4. stream[c].retryCount + 1 \in Nat BY <4>3 DEF Entries
      <4> QED BY <1>1, <1>2, <4>1, <4>2, <4>4, XAddIs
    <3>2. CASE ~Republish(t)
      BY <1>6, <3>2 DEF Ack, AckHandled, RepublishFails, AckAndAdvance
    <3> QED BY <3>1, <3>2
  <2> QED BY <2>2, <2>3, <2>4, <2>5
<1> QED BY <1>3, <1>4, <1>5, <1>6 DEF Processing

LEMMA WorkOnce ==
  ASSUME StreamInv, StreamOnce, NEW t \in Jobs, Processing(t)
  PROVE  StreamOnce'
<1>1. /\ StoreOK /\ ProcessOK /\ JobsOK
      /\ SeenTogether /\ NoRepeat /\ Past /\ Explained /\ HandledOnce
  BY DEF StreamInv, StreamTyped, StreamOnce
<1>2. PICK c : c = Current(t) OBVIOUS
<1>3. /\ UNCHANGED <<delivered, cut>>
      /\ \A i \in Ids : i # c => handled'[i] = handled[i]
      /\ \A i \in Ids' \ Ids : i > delivered /\ handled'[i] = 0
      /\ pending' \subseteq pending
      /\ c \in Ids /\ c \in DOMAIN batch[t] /\ c <= delivered
  BY <1>2, WorkIs
<1>4. /\ \A s \in Jobs \ {t} : pc'[s] = pc[s] /\ batch'[s] = batch[s] /\ Current(s)' = Current(s)
      /\ DOMAIN batch'[t] \subseteq DOMAIN batch[t]
  BY <1>1, ProcessingMoves, SameCurrent
<1>5. /\ together \subseteq together' /\ processed \subseteq processed'
      /\ \A i \in processed' : i \in processed \/ (i = c /\ pc[t] = "ackHandled")
      /\ pc[t] = "ackHandled" => c \in processed'
      /\ pc'[t] = "handling" =>
           /\ Current(t)' = c /\ c \notin processed'
           /\ \A s \in Jobs \ {t} : Handling(s) /\ Current(s) = c => c \in together'
      /\ pc'[t] = "ackHandled" => pc[t] = "handling" /\ Current(t)' = c
      /\ \/ handled'[c] = handled[c]
         \/ pc[t] = "handling" /\ pc'[t] = "ackHandled" /\ handled'[c] = handled[c] + 1
  BY <1>2, WorkHands
<1>6. SeenTogether'
  <2>1. ASSUME NEW s \in Jobs \ {t}, Handling(t)', Handling(s)', Current(t)' = Current(s)'
        PROVE  Current(t)' \in together'
    <3>1. Handling(s) /\ Current(s) = Current(s)' BY <1>4, <2>1 DEF Handling
    <3>2. CASE pc'[t] = "handling" BY <1>5, <2>1, <3>1, <3>2
    <3>3. CASE pc'[t] = "ackHandled"
      <4>1. Handling(t) /\ Current(t)' = c BY <1>5, <3>3 DEF Handling
      <4>2. c \in together BY <1>1, <1>2, <2>1, <3>1, <4>1 DEF SeenTogether
      <4> QED BY <1>5, <4>1, <4>2
    <3> QED BY <2>1, <3>2, <3>3 DEF Handling
  <2>2. ASSUME NEW s \in Jobs \ {t}, NEW u \in Jobs \ {t}, s # u, Handling(s)', Handling(u)',
               Current(s)' = Current(u)'
        PROVE  Current(s)' \in together'
    BY <1>1, <1>4, <1>5, <2>2 DEF SeenTogether, Handling
  <2> QED BY <2>1, <2>2 DEF SeenTogether
<1>7. NoRepeat'
  <2> SUFFICES ASSUME NEW s \in Jobs, pc'[s] = "handling", Current(s)' \in processed'
               PROVE  Current(s)' \in together'
    BY DEF NoRepeat
  <2>1. s # t BY <1>5
  <2>2. pc[s] = "handling" /\ Current(s)' = Current(s) BY <1>4, <2>1
  <2>3. CASE Current(s) \in processed BY <1>1, <1>5, <2>2, <2>3 DEF NoRepeat
  <2>4. CASE Current(s) \notin processed
    <3>1. Current(s) = Current(t) /\ pc[t] = "ackHandled" BY <1>2, <1>5, <2>2, <2>4
    <3>2. Current(s) \in together BY <1>1, <2>1, <2>2, <3>1 DEF SeenTogether, Handling
    <3> QED BY <1>5, <2>2, <3>2
  <2> QED BY <2>3, <2>4
<1>8. \A i \in Ids' : handled'[i] > 0 => i \in Ids BY <1>3
<1>9. Past' BY <1>1, <1>3, <1>8 DEF Past
<1>10. Explained'
  <2> SUFFICES ASSUME NEW i \in Ids', handled'[i] > 0
               PROVE  \/ i \in together' \cup cut' \cup processed'
                      \/ (\E s \in Jobs : pc[s] = "ackHandled" /\ Current(s) = i)'
                      \/ i \notin pending' /\ \A s \in Jobs : i \notin DOMAIN batch'[s]
    BY DEF Explained
  <2>1. i \in Ids BY <1>8
  <2>2. ASSUME NEW s \in Jobs \ {t}, pc[s] = "ackHandled", Current(s) = i
        PROVE  (pc[s] = "ackHandled" /\ Current(s) = i)'
    BY <1>4, <2>2
  <2>3. CASE i # c
    <3>1. handled[i] > 0 BY <1>3, <2>1, <2>3
    <3>2. CASE i \in together \cup cut \cup processed BY <1>3, <1>5, <3>2
    <3>3. ASSUME NEW s \in Jobs, pc[s] = "ackHandled", Current(s) = i PROVE s # t
      BY <1>2, <2>3, <3>3
    <3>4. CASE i \notin pending /\ \A s \in Jobs : i \notin DOMAIN batch[s]
      BY <1>3, <1>4, <3>4
    <3> QED BY <1>1, <2>1, <2>2, <3>1, <3>2, <3>3, <3>4 DEF Explained
  <2>4. CASE i = c /\ handled'[c] = handled[c]
    <3>1. handled[i] > 0 BY <2>4
    <3>2. CASE i \in together \cup cut \cup processed BY <1>3, <1>5, <3>2
    <3>3. ASSUME pc[t] = "ackHandled" PROVE i \in processed' BY <1>5, <2>4, <3>3
    <3> QED BY <1>1, <1>3, <2>1, <2>2, <2>4, <3>1, <3>2, <3>3 DEF Explained
  <2>5. CASE i = c /\ handled'[c] # handled[c] BY <1>5, <2>5
  <2> QED BY <2>3, <2>4, <2>5
<1>11. HandledOnce'
  <2> SUFFICES ASSUME NEW i \in Ids', handled'[i] > 1 PROVE i \in together' \cup cut' BY DEF HandledOnce
  <2>1. CASE i \notin Ids BY <1>3, <2>1
  <2>2. CASE i \in Ids /\ handled'[i] = handled[i] BY <1>1, <1>3, <1>5, <2>2 DEF HandledOnce
  <2>3. CASE i \in Ids /\ handled'[i] # handled[i]
    <3>1. i = c /\ pc[t] = "handling" /\ handled'[c] = handled[c] + 1 BY <1>3, <1>5, <2>3
    <3>2. handled[c] \in Nat BY <1>1, <1>3, IdsAre DEF StoreOK
    <3>3. handled[c] > 0 BY <3>1, <3>2
    <3>4. CASE c \in processed BY <1>1, <1>2, <1>5, <3>1, <3>4 DEF NoRepeat
    <3>5. ASSUME NEW s \in Jobs, pc[s] = "ackHandled", Current(s) = c PROVE c \in together
      BY <1>1, <1>2, <3>1, <3>5 DEF SeenTogether, Handling
    <3> QED BY <1>1, <1>3, <1>5, <3>1, <3>3, <3>4, <3>5 DEF Explained
  <2> QED BY <2>1, <2>2, <2>3
<1> QED BY <1>6, <1>7, <1>9, <1>10, <1>11 DEF StreamOnce

\* The handler succeeds twice on an entry only if both jobs had it in hand at
\* once or a process ended with the entry pending: processedMessages makes up for
\* every acknowledgement that was lost (processEntry, addToDedupe).
THEOREM SuccessesCounted == StreamSpec => []HandledOnce
<1>1. StreamInit => StreamOnce
  <2> SUFFICES ASSUME StreamInit PROVE StreamOnce OBVIOUS
  <2>1. Ids = {} BY DEF StreamInit, Ids
  <2>2. \A t \in Jobs : pc[t] = "off" BY DEF StreamInit
  <2> QED BY <2>1, <2>2 DEF StreamOnce, SeenTogether, Handling, NoRepeat, Past, Explained, HandledOnce
<1>2. StreamInv /\ StreamInv' /\ StreamOnce /\ [StreamNext]_streamVars => StreamOnce'
  BY StreamStepIs, QuietOnce, WorkOnce, EndOnce
<1>3. StreamOnce => HandledOnce BY DEF StreamOnce
<1> QED BY <1>1, <1>2, <1>3, StreamInvHolds, PTL DEF StreamSpec

=============================================================================
