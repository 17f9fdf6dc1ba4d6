----------------------------- MODULE MusicQueue -----------------------------
(***************************************************************************)
(* The music queue of a guild: the copy in memory that the bot plays from  *)
(* (QueueManagementService.ts) and the rows it writes through to           *)
(* (MusicRepo.ts).  Memory changes at once, without an await; the row      *)
(* follows when the database answers, and a write that fails is logged and *)
(* forgotten.  The operators here give the new value of one half each; the *)
(* calls that join them are tasks of MusicPlayer.                          *)
(*                                                                         *)
(* The dynamic playlist buffer is left out: nothing sets one up.           *)
(***************************************************************************)
EXTENDS Integers, Sequences, FiniteSets

CONSTANTS
  Songs,        \* one song for each /play
  NoSong,
  MaxQueueSize  \* MAX_QUEUE_SIZE, for the rows alone

ASSUME MusicQueueAssumption ==
  /\ MaxQueueSize \in Nat
  /\ NoSong \notin Songs

LoopModes == {"none", "song", "queue"}

VARIABLES
  songs,        \* queue.songs
  loopMode,     \* queue.loopMode
  currentSong,  \* queue.currentSong
  isPlaying,    \* queue.isPlaying; nothing ever sets queue.isPaused
  rows,         \* MusicQueueItem: song and position
  rowLock       \* who holds musicQueueLockKey(guildId)

memory   == <<songs, loopMode, currentSong, isPlaying>>
database == <<rows, rowLock>>

Rows == [song : Songs, position : Nat]
InQueue == {songs[i] : i \in DOMAIN songs}

MusicQueueInit ==
  /\ songs = <<>>
  /\ loopMode = "none"
  /\ currentSong = NoSong
  /\ isPlaying = FALSE
  /\ rows = {}

\* Mutants: pop for shift; a queue that is only looked at before the await.
DequeuedAndPopped ==
  IF songs = <<>> THEN [song |-> NoSong, rest |-> songs]
  ELSE [song |-> songs[Len(songs)], rest |-> Tail(songs)]

DequeuedByPeeking ==
  [song |-> IF songs = <<>> THEN NoSong ELSE Head(songs), rest |-> songs]

\* dequeue, up to its first await: what it answers and what it leaves.
Dequeued ==
  CASE songs = <<>> ->
         [song |-> IF loopMode = "song" THEN currentSong ELSE NoSong, rest |-> songs]
    [] songs # <<>> /\ loopMode = "song" ->
         [song |-> IF currentSong # NoSong THEN currentSong ELSE Head(songs), rest |-> songs]
    [] songs # <<>> /\ loopMode = "queue" ->
         [song |-> Head(songs), rest |-> Append(Tail(songs), Head(songs))]
    [] songs # <<>> /\ loopMode = "none" ->
         [song |-> Head(songs), rest |-> Tail(songs)]

\* songs.splice(index, 1), from index 0.
Spliced(index) ==
  [i \in 1..(Len(songs) - 1) |-> IF i <= index THEN songs[i] ELSE songs[i + 1]]

\* removeFromMusicQueue: the row found at the position goes, the rows behind
\* it close up; without one the call throws and nothing changes.
RowsWithout(position) ==
  IF \E r \in rows : r.position = position
  THEN {[x EXCEPT !.position = IF @ > position THEN @ - 1 ELSE @] :
           x \in rows \ {CHOOSE r \in rows : r.position = position}}
  ELSE rows

\* addToMusicQueue under its lock: the count becomes the position.
RowsWith(song, count) == rows \cup {[song |-> song, position |-> count]}

\* "Distributed lock prevents concurrent adds from bypassing MAX_QUEUE_SIZE"
\* (MusicRepo.ts:72): several /play and a shuffle that is being written count
\* and insert in separate statements, with removals in between.
RowsWithinLimit == Cardinality(rows) <= MaxQueueSize
=============================================================================
