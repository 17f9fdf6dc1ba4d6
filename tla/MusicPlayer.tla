----------------------------- MODULE MusicPlayer -----------------------------
(***************************************************************************)
(* The player of a guild: the commands of /music, the facade               *)
(* (MusicService.ts), the player's state and its event handlers            *)
(* (PlayerService.ts), the voice session (VoiceConnectionService.ts) and   *)
(* the events that end it (voiceStateUpdate.ts), over MusicQueue.          *)
(*                                                                         *)
(* A task is one asynchronous call on its way: a /play, a /skip, the       *)
(* player's Idle handler, a write to the rows.  What a call does between   *)
(* two awaits is one step.  A /play is the task of its own song; the other *)
(* tasks share Slots.                                                      *)
(*                                                                         *)
(* The audio player of @discordjs/voice is external: a resource buffers,   *)
(* plays, ends or fails; stop() lets it fade and go Idle later; a player   *)
(* whose connection is gone pauses by itself.                              *)
(***************************************************************************)
EXTENDS MusicQueue

CONSTANTS
  Slots,        \* tasks that may be under way besides the /play
  Players,      \* 1..n: a voice session has the audio player of its number
  LoopChoices,  \* the modes /loop is asked for
  MaxCommands,  \* bound: commands besides /play
  MaxFaults     \* bound: failures, disconnections and restarts

ASSUME MusicPlayerAssumption ==
  /\ Players \subseteq Nat \ {0}
  /\ LoopChoices \subseteq LoopModes
  /\ MaxCommands \in Nat
  /\ MaxFaults \in Nat
  /\ Songs \cap Slots = {} /\ NoSong \notin Slots

Tasks == Songs \cup Slots
NoPlayer == 0

VARIABLES
  session,    \* VoiceConnectionService.sessions: the session's player
  joined,     \* the players that have been created
  player,     \* PlayerService.players: the entry of the guild
  listening,  \* does the entry's player still have its handlers?
  audio,      \* per player: the resource it has and what it does with it
  task,
  commands, faults,
  \* for the properties
  accepted, started, dropped, replayed, looped

voice   == <<session, joined>>
playing == <<player, listening, audio>>
bounds  == <<commands, faults>>
history == <<accepted, started, dropped, replayed, looped>>
vars    == <<songs, loopMode, currentSong, isPlaying, rows, rowLock, session, joined,
             player, listening, audio, task, commands, faults,
             accepted, started, dropped, replayed, looped>>

Idle   == [kind |-> "none", pc |-> "free", session |-> NoPlayer, go |-> FALSE,
           song |-> NoSong, position |-> 0, index |-> 0]
Silent == [song |-> NoSong, status |-> "idle"]

TaskRecord ==
  [kind : {"none", "play", "skip", "idle", "join", "write", "rewrite"},
   pc : {"free", "joining", "resolving", "adding", "creating", "removing", "fetching",
         "clearing", "done"},
   session : Players \cup {NoPlayer},
   go : BOOLEAN,
   song : Songs \cup {NoSong},
   position : Nat,
   index : Nat]

TypeOK ==
  /\ songs \in Seq(Songs) /\ loopMode \in LoopModes
  /\ currentSong \in Songs \cup {NoSong} /\ isPlaying \in BOOLEAN
  /\ rows \subseteq Rows /\ rowLock \in Tasks \cup {NoSong}
  /\ session \in Players \cup {NoPlayer} /\ joined \subseteq Players
  /\ player \in [player : Players \cup {NoPlayer}, song : Songs \cup {NoSong},
                 playing : BOOLEAN, paused : BOOLEAN]
  /\ listening \in BOOLEAN
  /\ audio \in [Players -> [song : Songs \cup {NoSong},
                            status : {"idle", "buffering", "playing", "paused",
                                      "autopaused", "stopping"}]]
  /\ task \in [Tasks -> TaskRecord]
  /\ commands \in 0..MaxCommands /\ faults \in 0..MaxFaults
  /\ {accepted, started, dropped, replayed} \subseteq SUBSET Songs
  /\ looped \in BOOLEAN

NothingLoaded == [player |-> NoPlayer, song |-> NoSong, playing |-> FALSE, paused |-> FALSE]

Init ==
  /\ MusicQueueInit
  /\ rowLock = NoSong
  /\ session = NoPlayer /\ joined = {}
  /\ player = NothingLoaded
  /\ listening = FALSE
  /\ audio = [p \in Players |-> Silent]
  /\ task = [t \in Tasks |-> Idle]
  /\ commands = 0 /\ faults = 0
  /\ accepted = {} /\ started = {} /\ dropped = {} /\ replayed = {}
  /\ looped = FALSE

Command == commands < MaxCommands /\ commands' = commands + 1 /\ faults' = faults
Fault   == faults < MaxFaults /\ faults' = faults + 1 /\ commands' = commands

\* A slot whose call has returned is free again; a song is played once.
Finished(t) == IF t \in Slots THEN Idle ELSE [Idle EXCEPT !.pc = "done"]

\* Bound: the queue is not emptied while a shuffle still writes it, which would
\* go on with the array it began with.
Rewriting == \E t \in Slots : task[t].kind = "rewrite"

\* The entry after the player was stopped, ended or failed.
Wiped(entry) == [entry EXCEPT !.song = NoSong, !.playing = FALSE, !.paused = FALSE]

\* stop(): a resource that sounds fades out; one on pause stays as it is.
Halted(p) ==
  IF p # NoPlayer /\ audio[p].status \in {"buffering", "playing"}
  THEN [audio EXCEPT ![p].status = "stopping"]
  ELSE audio

-----------------------------------------------------------------------------
(* The voice session.                                                      *)

Fresh(p) == p \in Players \ joined /\ \A q \in Players \ joined : p <= q

\* join answers: the session, the connection and a new audio player.
Join(p) ==
  /\ Fresh(p)
  /\ session' = p
  /\ joined' = joined \cup {p}

\* cleanupSession: the listeners go, the player stops, the session goes.
CleanupSession ==
  /\ listening' = (listening /\ player.player # session)
  /\ audio' = Halted(session)
  /\ session' = NoPlayer
  /\ UNCHANGED <<joined, player>>

\* /leave: the player keeps its listeners.
Leave ==
  /\ session # NoPlayer
  /\ Command
  /\ audio' = Halted(session)
  /\ session' = NoPlayer
  /\ UNCHANGED <<memory, database, joined, player, listening, task, history>>

\* The connection is lost, fails or was destroyed by a move to another
\* channel: the session is cleaned up, the queue stays.
ConnectionLost ==
  /\ session # NoPlayer
  /\ Fault
  /\ CleanupSession
  /\ UNCHANGED <<memory, database, task, history>>

\* voiceStateUpdate sees the bot thrown out: clearQueue, whose clear writes
\* to the rows without anybody waiting for it.
ThrownOut(t) ==
  /\ session # NoPlayer
  /\ task[t].pc = "free" /\ ~Rewriting
  /\ Fault
  /\ CleanupSession
  /\ songs' = <<>>
  /\ currentSong' = NoSong
  /\ dropped' = dropped \cup InQueue
  /\ task' = [task EXCEPT ![t] = [Idle EXCEPT !.kind = "write", !.pc = "clearing"]]
  /\ UNCHANGED <<loopMode, isPlaying, database, accepted, started, replayed, looped>>

\* The process ends and begins anew: memory is gone, the rows are not.
Restart ==
  /\ Fault
  /\ songs' = <<>> /\ loopMode' = "none" /\ currentSong' = NoSong /\ isPlaying' = FALSE
  /\ session' = NoPlayer
  /\ player' = NothingLoaded
  /\ listening' = FALSE
  /\ audio' = [p \in Players |-> Silent]
  /\ rowLock' = NoSong
  /\ task' = [t \in Tasks |-> IF task[t].pc = "free" THEN Idle ELSE Finished(t)]
  /\ dropped' = dropped \cup (accepted \ started)
  /\ UNCHANGED <<rows, joined, accepted, started, replayed, looped>>

-----------------------------------------------------------------------------
(* Advancing the queue.                                                    *)

\* dequeue shifts the queue at once and then waits for the row; from an
\* empty queue it answers the song on repeat, or nothing, without waiting.
Advance(t, kind, s) ==
  LET d == Dequeued IN
  /\ songs' = d.rest
  /\ IF d.song = NoSong
     THEN /\ task' = [task EXCEPT ![t] = Finished(t)]
          /\ currentSong' = currentSong
     ELSE /\ task' = [task EXCEPT ![t] =
                        [kind |-> kind, session |-> s, go |-> FALSE, song |-> d.song,
                         position |-> 0, index |-> 0,
                         pc |-> IF songs = <<>> THEN "fetching" ELSE "removing"]]
          /\ currentSong' = d.song

\* The database answers: the row at the position is gone, or the call threw
\* and the error was swallowed.
RemoveRow(t) ==
  /\ task[t].pc = "removing"
  /\ rows' = RowsWithout(task[t].position)
  /\ task' = [task EXCEPT ![t] = IF @.kind = "write" THEN Finished(t) ELSE [@ EXCEPT !.pc = "fetching"]]
  /\ UNCHANGED <<songs, loopMode, currentSong, isPlaying, rowLock, voice, playing, bounds, history>>

RemoveRowFails(t) ==
  /\ task[t].pc = "removing"
  /\ Fault
  /\ task' = [task EXCEPT ![t] = IF @.kind = "write" THEN Finished(t) ELSE [@ EXCEPT !.pc = "fetching"]]
  /\ UNCHANGED <<memory, database, voice, playing, history>>

\* PlayerService.play.  The entry keeps the first player it was made with;
\* its handlers are attached once, to that player.
Started(p, song) ==
  [player |-> IF player.player = NoPlayer THEN p ELSE player.player,
   song |-> song, playing |-> TRUE, paused |-> FALSE]

\* The stream is there: play it.  The Idle handler, which waited for this,
\* clears the entry afterwards as if nothing had been started.
Fetched(t) ==
  LET p == task[t].session
      song == task[t].song IN
  /\ task[t].pc = "fetching"
  /\ isPlaying' = TRUE
  /\ currentSong' = song
  /\ player' = IF task[t].kind = "idle" THEN Wiped(Started(p, song)) ELSE Started(p, song)
  /\ listening' = (listening \/ player.player = NoPlayer)
  /\ audio' = [audio EXCEPT ![p] = [song |-> song, status |-> "buffering"]]
  /\ started' = started \cup {song}
  /\ replayed' = IF song \in started THEN replayed \cup {song} ELSE replayed
  /\ task' = [task EXCEPT ![t] = Finished(t)]
  /\ UNCHANGED <<songs, loopMode, database, voice, bounds, accepted, dropped, looped>>

\* resolve or createStream throws: the song has left the queue and is lost.
FetchFails(t) ==
  /\ task[t].pc = "fetching"
  /\ Fault
  /\ player' = IF task[t].kind = "idle" THEN Wiped(player) ELSE player
  /\ dropped' = dropped \cup {task[t].song}
  /\ task' = [task EXCEPT ![t] = Finished(t)]
  /\ UNCHANGED <<memory, database, voice, listening, audio, accepted, started, replayed, looped>>

-----------------------------------------------------------------------------
(* /play and /join.                                                        *)

\* MusicService.play up to its first await: the session it will play in and
\* whether it is the one to start the music are settled here.
PlayCalled(t, p) ==
  [Idle EXCEPT !.kind = "play", !.pc = "resolving", !.session = p, !.go = ~player.playing]

PlayBegins(s) ==
  /\ task[s].pc = "free"
  /\ task' = [task EXCEPT ![s] = IF session = NoPlayer
                                 THEN [Idle EXCEPT !.kind = "play", !.pc = "joining"]
                                 ELSE PlayCalled(s, session)]
  /\ UNCHANGED <<memory, database, voice, playing, bounds, history>>

\* /join; in another channel it destroys the connection it has and joins anew.
JoinBegins(t) ==
  /\ task[t].pc = "free"
  /\ Command
  /\ task' = [task EXCEPT ![t] = [Idle EXCEPT !.kind = "join", !.pc = "joining"]]
  /\ UNCHANGED <<memory, database, voice, playing, history>>

Joined(t, p) ==
  /\ task[t].pc = "joining"
  /\ Join(p)
  /\ task' = [task EXCEPT ![t] = IF @.kind = "play" THEN PlayCalled(t, p) ELSE Finished(t)]
  /\ UNCHANGED <<memory, database, playing, bounds, history>>

GivesUp(t) ==
  /\ Fault
  /\ task' = [task EXCEPT ![t] = Finished(t)]
  /\ UNCHANGED <<memory, database, voice, playing, history>>

\* The connection is not ready in time.
JoinFails(t) == task[t].pc = "joining" /\ GivesUp(t)

\* The search finds nothing or fails for good.
SearchFails(t) == task[t].pc = "resolving" /\ GivesUp(t)

\* enqueue: memory has the song before the row exists.
Enqueued(s) ==
  /\ task[s].pc = "resolving"
  /\ songs' = Append(songs, s)
  /\ accepted' = accepted \cup {s}
  /\ task' = [task EXCEPT ![s].pc = "adding", ![s].song = s]
  /\ UNCHANGED <<loopMode, currentSong, isPlaying, database, voice, playing, bounds,
                 started, dropped, replayed, looped>>

\* addToQueue under the lock of the queue; the transaction counts the rows.
\* Mutant: counted outside the lock.
CountRowsUnlocked(t) ==
  /\ task[t].pc = "adding"
  /\ Cardinality(rows) < MaxQueueSize
  /\ rowLock' = t
  /\ task' = [task EXCEPT ![t].pc = "creating", ![t].position = Cardinality(rows)]
  /\ UNCHANGED <<memory, rows, voice, playing, bounds, history>>

CountRows(t) ==
  /\ task[t].pc = "adding"
  /\ rowLock = NoSong
  /\ Cardinality(rows) < MaxQueueSize
  /\ rowLock' = t
  /\ task' = [task EXCEPT ![t].pc = "creating", ![t].position = Cardinality(rows)]
  /\ UNCHANGED <<memory, rows, voice, playing, bounds, history>>

\* persistQueueItems walks the queue as it is when it gets to each place.
NextToWrite(t, i) ==
  IF i <= Len(songs)
  THEN [Idle EXCEPT !.kind = "rewrite", !.pc = "adding", !.song = songs[i], !.index = i]
  ELSE Finished(t)

\* enqueue returns to play, which takes a song off the queue if none was
\* playing when it was called; a shuffle goes on with its next song.
AddReturned(t) ==
  CASE task[t].kind = "rewrite" ->
         /\ task' = [task EXCEPT ![t] = NextToWrite(t, @.index + 1)]
         /\ UNCHANGED <<songs, currentSong>>
    [] task[t].kind = "play" /\ task[t].go /\ songs # <<>> ->
         Advance(t, "play", task[t].session)
    [] OTHER ->
         /\ task' = [task EXCEPT ![t] = Finished(t)]
         /\ UNCHANGED <<songs, currentSong>>

CreateRow(t) ==
  /\ task[t].pc = "creating"
  /\ rows' = RowsWith(task[t].song, task[t].position)
  /\ rowLock' = NoSong
  /\ AddReturned(t)
  /\ UNCHANGED <<loopMode, isPlaying, voice, playing, bounds, history>>

\* The limit is reached, the lock stays taken for all retries, or the call
\* fails: the song is played all the same.  A shuffle stops writing.
AddGivenUp(t) ==
  IF task[t].kind = "rewrite"
  THEN task' = [task EXCEPT ![t] = Finished(t)] /\ UNCHANGED <<songs, currentSong>>
  ELSE AddReturned(t)

AddRefused(t) ==
  /\ task[t].pc = "adding"
  /\ rowLock # NoSong \/ Cardinality(rows) >= MaxQueueSize
  /\ AddGivenUp(t)
  /\ UNCHANGED <<loopMode, isPlaying, database, voice, playing, bounds, history>>

AddFails(t) ==
  /\ task[t].pc \in {"adding", "creating"}
  /\ Fault
  /\ rowLock' = IF rowLock = t THEN NoSong ELSE rowLock
  /\ AddGivenUp(t)
  /\ UNCHANGED <<loopMode, isPlaying, rows, voice, playing, history>>

-----------------------------------------------------------------------------
(* The other commands.                                                     *)

\* /skip stops the entry's player, if it knows of a song, and moves on.
Skip(t) ==
  /\ session # NoPlayer
  /\ isPlaying
  /\ task[t].pc = "free"
  /\ Command
  /\ IF player.song # NoSong
     THEN audio' = Halted(player.player) /\ player' = Wiped(player)
     ELSE UNCHANGED <<audio, player>>
  /\ Advance(t, "skip", session)
  /\ UNCHANGED <<loopMode, isPlaying, database, voice, listening, history>>

\* /stop stops the player; the queue stays as it is.
Stop ==
  /\ session # NoPlayer
  /\ player.player # NoPlayer
  /\ Command
  /\ audio' = Halted(player.player)
  /\ player' = Wiped(player)
  /\ UNCHANGED <<memory, database, voice, listening, task, history>>

\* /pause.  There is no /resume: it asks for queue.isPaused, which is never set.
Pause ==
  /\ session # NoPlayer
  /\ isPlaying
  /\ player.playing /\ ~player.paused
  /\ audio[player.player].status = "playing"
  /\ Command
  /\ audio' = [audio EXCEPT ![player.player].status = "paused"]
  /\ player' = [player EXCEPT !.playing = FALSE, !.paused = TRUE]
  /\ UNCHANGED <<memory, database, voice, listening, task, history>>

SetLoop(mode) ==
  /\ session # NoPlayer
  /\ mode # loopMode
  /\ Command
  /\ loopMode' = mode
  /\ looped' = (looped \/ mode # "none")
  /\ UNCHANGED <<songs, currentSong, isPlaying, database, voice, playing, task,
                 accepted, started, dropped, replayed>>

Write(t, pc, position) ==
  /\ task[t].pc = "free"
  /\ task' = [task EXCEPT ![t] = [Idle EXCEPT !.kind = "write", !.pc = pc, !.position = position]]

\* /clear: the queue at once, the rows when the database answers.
Clear(t) ==
  /\ session # NoPlayer
  /\ songs # <<>> /\ ~Rewriting
  /\ Command
  /\ songs' = <<>>
  /\ currentSong' = NoSong
  /\ dropped' = dropped \cup InQueue
  /\ Write(t, "clearing", 0)
  /\ UNCHANGED <<loopMode, isPlaying, database, voice, playing, accepted, started, replayed, looped>>

\* /remove n passes n on as an index from zero: the song behind the one asked
\* for goes, and nothing for the last.
Remove(t, n) ==
  /\ session # NoPlayer
  /\ n \in 1..(Len(songs) - 1)
  /\ Command
  /\ songs' = Spliced(n)
  /\ dropped' = dropped \cup {songs[n + 1]}
  /\ Write(t, "removing", n)
  /\ UNCHANGED <<loopMode, currentSong, isPlaying, database, voice, playing,
                 accepted, started, replayed, looped>>

\* /shuffle: a new order at once; the rows are deleted and added one by one.
Shuffle(t) ==
  /\ session # NoPlayer
  /\ Len(songs) > 1
  /\ task[t].pc = "free"
  /\ Command
  /\ songs' \in {order \in [DOMAIN songs -> InQueue] : \A s \in InQueue : \E i \in DOMAIN songs : order[i] = s}
  /\ task' = [task EXCEPT ![t] = [Idle EXCEPT !.kind = "rewrite", !.pc = "clearing"]]
  /\ UNCHANGED <<loopMode, currentSong, isPlaying, database, voice, playing, history>>

\* clearMusicQueue: deletes the items, without the lock.
ClearRows(t) ==
  /\ task[t].pc = "clearing"
  /\ rows' = {}
  /\ task' = [task EXCEPT ![t] = IF @.kind = "rewrite" THEN NextToWrite(t, 1) ELSE Finished(t)]
  /\ UNCHANGED <<memory, rowLock, voice, playing, bounds, history>>

-----------------------------------------------------------------------------
(* The events of the audio player.                                         *)

Heard(p) == listening /\ player.player = p

Plays(p) ==
  /\ audio[p].status = "buffering"
  /\ audio' = [audio EXCEPT ![p].status = "playing"]
  /\ player' = IF Heard(p) THEN [player EXCEPT !.playing = TRUE, !.paused = FALSE] ELSE player
  /\ UNCHANGED <<memory, database, voice, listening, task, bounds, history>>

\* Without a connection the player pauses itself.
PausesItself(p) ==
  /\ audio[p].status \in {"playing", "stopping"}
  /\ session # p \/ \E t \in Slots : task[t].kind = "join"
  /\ audio' = [audio EXCEPT ![p].status = "autopaused"]
  /\ player' = IF Heard(p) THEN [player EXCEPT !.playing = FALSE, !.paused = TRUE] ELSE player
  /\ UNCHANGED <<memory, database, voice, listening, task, bounds, history>>

\* A song ends, fades out, or never begins, its stream having ended unread.
Ends(p) ==
  /\ audio[p].status \in {"buffering", "playing", "stopping"}
  /\ audio' = [audio EXCEPT ![p] = Silent]

\* Nobody listens, or there is no next song.
EndsQuietly(p) ==
  /\ Ends(p)
  /\ IF Heard(p) /\ player.song # NoSong
     THEN /\ player' = Wiped(player)
          /\ \/ session = NoPlayer /\ UNCHANGED <<isPlaying, currentSong>>
             \/ /\ session # NoPlayer /\ Dequeued.song = NoSong
                /\ isPlaying' = FALSE /\ currentSong' = NoSong
     ELSE UNCHANGED <<player, isPlaying, currentSong>>
  /\ UNCHANGED <<songs, loopMode, database, voice, listening, task, bounds, history>>

\* The Idle handler takes the next one off the queue; the
\* entry keeps the old song until the next one plays.
EndsWithNext(p, t) ==
  /\ Ends(p)
  /\ Heard(p) /\ player.song # NoSong
  /\ session # NoPlayer
  /\ Dequeued.song # NoSong
  /\ task[t].pc = "free"
  /\ Advance(t, "idle", session)
  /\ UNCHANGED <<loopMode, isPlaying, database, voice, player, listening, bounds, history>>

\* A stream breaks: the error handler clears the entry, and the Idle that
\* follows finds no song to go on from.
Breaks(p) ==
  /\ audio[p].status \in {"buffering", "playing"}
  /\ Fault
  /\ audio' = [audio EXCEPT ![p] = Silent]
  /\ player' = IF Heard(p) THEN Wiped(player) ELSE player
  /\ UNCHANGED <<memory, database, voice, listening, task, history>>

-----------------------------------------------------------------------------
TaskStep(t) ==
  \/ \E p \in Players : Joined(t, p)
  \/ CountRows(t) \/ CreateRow(t) \/ AddRefused(t)
  \/ RemoveRow(t) \/ ClearRows(t) \/ Fetched(t)

TaskFails(t) == JoinFails(t) \/ SearchFails(t) \/ AddFails(t) \/ RemoveRowFails(t) \/ FetchFails(t)

SlotCommand(t) ==
  \/ JoinBegins(t) \/ Skip(t) \/ Clear(t) \/ Shuffle(t) \/ ThrownOut(t)
  \/ \E n \in 1..Len(songs) : Remove(t, n)

AudioStep(p) ==
  Plays(p) \/ EndsQuietly(p) \/ \E t \in Slots : EndsWithNext(p, t)

Next ==
  \/ \E s \in Songs : PlayBegins(s) \/ Enqueued(s)
  \/ \E t \in Tasks : TaskStep(t) \/ TaskFails(t)
  \/ \E t \in Slots : SlotCommand(t)
  \/ \E mode \in LoopChoices : SetLoop(mode)
  \/ Leave \/ Stop \/ Pause \/ ConnectionLost \/ Restart
  \/ \E p \in Players : AudioStep(p) \/ PausesItself(p) \/ Breaks(p)

Spec == Init /\ [][Next]_vars

-----------------------------------------------------------------------------
(* Properties.                                                             *)

Underway == {task[t].song : t \in {u \in Tasks : task[u].pc \in {"removing", "fetching"}}}

\* A song /play has accepted is in the queue, with a call that has just taken
\* it off, has been started, or was given up for a reason: a failed stream, a
\* /clear or /remove, the end of the session or of the process.  /play, /skip
\* and the Idle handler all advance the queue across awaits (MusicService.ts:153).
NoSongLost == accepted \subseteq InQueue \cup Underway \cup started \cup dropped

\* Unless a loop mode was ever set, no two of those calls start the same song,
\* and a song that has left the queue does not come back.
NeverPlayedTwice ==
  ~looped => /\ replayed = {}
             /\ InQueue \cap (started \cup Underway \cup dropped) = {}

\* "IMPORTANTE: Reproducir siguiente cancion automaticamente"
\* (PlayerService.ts:446): when a song ends while others wait, and no call has
\* just taken one off the queue, the next is taken.
NextSongFollows ==
  [][\A p \in Players :
       /\ p = session
       /\ audio[p].status = "playing" /\ audio'[p].status = "idle"
       /\ songs # <<>> /\ Underway = {}
       => Underway' # {}]_vars
=============================================================================
