# CharlyBot in TLA+

CharlyBot is a Discord bot (`apps/bot`) with an economy, a roulette, moderation,
anti-spam, experience levels, verification, reaction roles and music; a Hono API
(`apps/api`) and two Angular front ends stand beside it. PostgreSQL (Prisma)
holds the state that lasts; Valkey holds locks, counters, caches and streams.
The bot runs command handlers as async functions on one event loop: every
`await` lets any other handler run, and several bots may share both stores. What
goes wrong in such a program goes wrong between two awaits, and that is what
these modules describe.

Contents: 1 inventory, 2 modules, 3 runs, 4 bounds and fairness, 5 proofs, 6
what the checks found, 7 not modelled, 8 plan.

## 1. Inventory

Paths are relative to `src/`; `bot` stands for `apps/bot/src`, `shared` for
`packages/shared/src`.

| Part | State | Operations | Hard because |
|---|---|---|---|
| Economy repository (`bot/config/repositories/EconomyRepo.ts`) | `UserEconomy` per guild and user, `GlobalBank` per user, cooldown columns | atomicTransfer, atomicDeposit, atomicWithdraw, atomicAddPocket, atomicSubtractPocket, atomicClaimCooldown | transactions at Read Committed read, check and write absolute values; only Valkey locks keep them apart |
| Distributed locks (`shared/valkey/locks.ts`, `ValkeyClient.ts`) | lock keys with owner and TTL | acquireLock, releaseLock, withLock, withDistributedLock | leases lapse, replies get lost, holders crash, retries are finite |
| Idempotency (`bot/infrastructure/valkey/idempotency.ts`, `events/interactionCreate.ts`) | a Set in each process, a key per interaction | isDuplicateInteraction, clearInteractionId, clean-up | a SET raced against a timer: it may take the key after it was given up |
| Economy commands (`work`, `crime`, `rob`, `bail`, `deposit`, `retirar`) | `inJail`, `jailReleaseAt`, rate-limit counters | earn, fine, jail, release, bail | unlocked reads and writes around the atomic functions |
| Roulette (`bot/app/commands/economia/ruleta.ts`, `RouletteService.ts`) | games, bets, a timer per game in the process | bet, spin, process results, cancel | the timer is volatile, the settlement uses other locks than the bets |
| Moderation (`bot/app/commands/mod`, `context-menus/mod`, `WarnThresholdService.ts`, `modCaseRepository.ts`) | `ModCase`, `WarnThreshold`, Discord's members and bans | warn, timeout, kick, ban, unban, clear, escalation | two systems, Discord and the database, each can fail after the other has acted |
| Leaderboard (`LeaderboardService.ts`, `LeaderboardStreamConsumer.ts`) | Valkey stream, consumer group, pending entries, `Leaderboard` rows, the flags `isRunning` and `loopInFlight` | publish, read, update, acknowledge, start, stop | events are sent without waiting, an entry is delivered and not finished, totals change between read and upsert |
| Music stream (`bot/infrastructure/streams`) | guild registry, a stream per guild, pending list, dead letters, `processedMessages` | publish, consume, retry, reclaim | acknowledge before republish; two jobs over one pending list |
| Music (`MusicService.ts`, `services/music`, `MusicRepo.ts`, `voiceStateUpdate.ts`) | player, queue in memory and in the database, voice session | play, skip, stop, pause, loop, shuffle, clear, remove, join, leave, player events | callbacks of the player between awaits; rows written behind memory |
| Anti-spam (`AntiSpamService.ts`, `events/messageCreate.ts`) | windows, counters and guards in Valkey, history rows | evaluate nine patterns, mark, escalate, delete, sanction, notify | parallel messages of one member |
| XP (`messageCreate.ts`, `XPRepo.ts`) | `UserXP`, level roles | increment, level up, give roles, repost images | the level is computed from a stale read |
| Auto-roles (`commands/autorole`, `AutoRoleService.ts`, reaction events) | session objects in a Map, Discord's message, rows and mappings, discord.js' role cache | open, add, edit, finish, remove; react, press | clicks overlap while a menu is written row by row; the cache lags |
| Guild configuration (`GuildConfigRepo.ts`, `ValkeyFallbackWrapper.ts`) | the row, a Map, a Valkey key, a fallback cache | read, set, remove, invalidate, expire | a fill that began before an invalidation; writers that invalidate nothing |
| Verification (`VerificationHandler.ts`, `temporaryStorage.ts`) | a name per user in memory, roles, requests | form, class, subclass | a name read, deleted and used around awaits |
| Valkey client (`ValkeyClient.ts`) | circuit state | every call | state shared by all calls in flight |
| API (`apps/api/src`) | sessions, rate-limit counters, queue cache in Valkey | login, refresh, middleware, routes | fetch and store around an invalidation |
| Logs, welcome texts, front ends, start-up and shutdown | none that two actors share | | |

Commands call services, services call repositories; repositories lock in Valkey
and write in PostgreSQL. Every interaction passes the idempotency gate first.
Everything that earns or loses money publishes a leaderboard event after its
commit; everything that changes the music queue publishes one to the guild's
stream. The anti-spam handler and the warn thresholds act through the same case
repository as the moderators' commands. Verification, welcome and logs read the
guild's configuration through its caches. What makes each part correct:

* economy: no overdraft; no update lost; a call happens at once or not at all; a
  cooldown is claimed once; every call returns and every lock comes free;
* interactions and commands: one interaction runs once, and is refused only for
  another delivery of it; nobody ends in debt;
* roulette: stakes and bets agree, a bet is settled once, by its own game, and
  pays what the table says; a placed bet is settled;
* moderation: what was done is recorded, what is recorded was done, cases are
  numbered without gaps, thresholds are applied when reached and not before;
* leaderboard: a row that is behind has an event on its way, unless a failed
  call lost it; no row goes back; what is acknowledged is shown;
* music stream: an event is handled or dead-lettered in the end, is handled
  once, and is lost only by faults that can be named;
* music: an accepted song is played or dropped for a reason, and not played by
  two calls; the rows keep their limit;
* messages: a flood is found however its messages interleave; escalation needs
  its history; XP is not lost and pays for every level and role; images stay;
* auto-roles: what was saved is what the message shows; a session sends one
  menu; a member's lone event leaves him the roles the menu promises;
* configuration and verification: roles follow the newest configuration that was
  invalidated; caches come back to the row; a typed name verifies once.

`PROJECT.json` lists the hazards line by line. Five of them have no property,
with the reason: transfers and the clearing of a served sentence (the code does
not keep the promise, see 6), the names kept by user only (no promise), and two
of the API, which is not modelled. Where the code itself allows one half of a
hazard, its properties cover the other half and a note says so.

## 2. Modules

| Module | Models | State and actions |
|---|---|---|
| `EconomyTypes` | rows, calls and the pure effect of an operation on a row | used by the next two |
| `AtomicLedger` | abstract: a call takes effect in one step on current values, or is rejected | `user`, `bank`, `cooling`, the call in flight and its outcome |
| `EconomyRepo` | the six atomic functions statement by statement; implements `AtomicLedger` (`INSTANCE ... WITH`) | `lock` is Valkey's key space; `pc`, `depth`, `attempt` are the nested `withDistributedLock`; `own`, `peerRow`, `balance` are the rows a transaction has read; one action per SET NX, refusal, read, write with commit, rollback and release; `Expire` is a TTL, `Crash` the death of the bot |
| `InteractionGate` | which deliveries of an interaction run | `local` is `processingLocal`, `key` the idempotency keys, `arrival` a delivery with what became of its SET; answers, the 250 ms timer, late answers, errors, the end of a handler, the clean-up timer, crashes |
| `EconomyCommands` (over `InteractionGate`) | six commands, await by await | `step` the await, `plan` the values read and decided on; the atomic functions take one step here (`EconomyRepo` shows when that is so), everything unlocked a step of its own |
| `Roulette` | `/ruleta`, its timer, the wheel and the settlement | `pc[c]` walks through `execute`; `flow[g]` through `spinRoulette`; `userLock` and `rawLock` are the two key spaces the code uses for one pocket |
| `Moderation` | commands, context menus, anti-spam sanctions, thresholds | `cases`/`closed` are the ModCase rows, `members`/`banned` Discord, `applied` Discord's audit log; `pc[h]` walks through a handler, in the order the kind of handler has |
| `LeaderboardStream` | commits and their events, the stream and its group, the consumer | `profit`/`board` are `UserEconomy` and `Leaderboard`; `owed` the events between commit and XADD; `stream`, `delivered`, `pending` Valkey's entries, last delivered id and pending list; `pc[l]`, `next`, `last`, `read` an invocation of `processLoop` |
| `MusicStream` | producer, registry, the loop and the reclaim job | `pc`, `batch` where the two jobs stand and what they have left; `idle`, `deliveries` what XPENDING tells; `processed`, `known` the process' memory; the second job sees every state the first leaves between two awaits |
| `MusicQueue` | the queue in memory and its rows | operators that give the new value of one half each |
| `MusicPlayer` (over `MusicQueue`) | `/music`, facade, player events, voice session | `task` is an asynchronous call on its way (a /play, a /skip, an Idle handler, a write); `audio` per player what its resource does; `session`, `player`, `listening` the two Maps and the listeners |
| `AntiSpam` | nine patterns over sorted sets, counters and keys | the first command of every check leaves in one burst, the second when the first was answered, the sets are read last |
| `MessageCreate` (over `AntiSpam`) | the handler of a message | `task[m].pc` from the checks through escalation, deletion, sanction and notice, or XP, level, roles and the reposting of images |
| `AutoRoleSetup` | sessions, forms, "Finalizar", removal | `sessions` is the heap of session objects, `open` the Map; `click` an interaction in flight, holding the object it began with |
| `AutoRoles` (over `AutoRoleSetup`) | members' reactions and buttons | `held` is Discord, `cache` discord.js, `news` the events between them |
| `GuildConfig` | reads, setters, the API's writes, expiries | `rows` the versions of the row, `memory`, `cached`, `spare` the three copies, `useFallback` the wrapper's flag |
| `Verification` (over `GuildConfig`) | button, form, menus | `screen` what a flow shows, `typed` the stored name, `click` a selection of a subclass |
| `EconomyRepoProofs`, `RouletteProofs`, `EconomyCommandsProofs`, `LeaderboardProofs`, `MessageCreateProofs`, `AutoRolesProofs`, `MusicProofs`, `MemberProofs` | theorems about the module (`MusicProofs`: the player and its stream; `MemberProofs`: the moderation and the verification) | no behaviour |
| `MC...` | values TLC needs | no behaviour |

Correspondence, where it is not one to one:

* A Prisma interactive transaction is a sequence of reads and one writing step:
  its updates become visible together at COMMIT, and the only thing read before
  is what the code read. Read Committed takes no row lock for a read. A rollback
  (`TransactionFails`) changes nothing.
* `acquireLock` returns FALSE both when the key is taken and when Valkey's reply
  does not arrive; in the second case the key may have been set (`LockCallFails`
  leaves the key `Orphan`). `releaseLock` deletes only the owner's key, and its
  failure is swallowed.
* Definitions whose comment starts with "Mutant" are wrong on purpose: each is a
  plausible slip in the code, and replacing the definition it is named after
  makes a property fail.
* In `Roulette` the constant `ColourIsSelected` is FALSE for the code: the query
  of `getRouletteGame` leaves `winningColor` out. TRUE adds the behaviour the
  settlement would have with that column, and takes nothing away, because the
  refusal of the results stays possible (`CanFail`). What holds with TRUE holds
  of the code.
* `Moderation` leaves the text of cases, durations and the checks of roles out:
  a handler starts after its guards have let it pass. `/mod clear` is filed
  under the moderator. The slash ban and unban need no member.
* `LeaderboardStream` counts a user's commits instead of adding up money: a row
  "shows version 2" when it holds the net profit after the second commit. An
  entry of the program carries no amount; the version it has in the model is
  read by the properties only, never by an action, and so is `lost`. An action
  of the code that fails has two forms, before and after the store has acted:
  `CommitUnanswered`, `PublishFails`, `LoopFails`, `AnswerLost`, `EntryFails`.
  The stream is never trimmed: `streamAdd` appends MAXLEN behind the fields,
  where XADD takes it for a field (`ValkeyClient.ts:272`). Name and date of a
  row are left out; a tick without a connection does nothing; one process of the
  bot runs at a time. `cancelGame`, which reads the game it has deleted, is
  called for games without bets only, and announces nothing.
* `MusicStream` has one guild, and publishes an event once; several entries of
  an event come from its republication. A process has handlers from its start or
  none: the bot registers none today, and then every event is just acknowledged.
  `handled`, `forgotten`, `together` and `cut` are read by properties only.
* `GuildConfig`, `AntiSpam` and `InteractionGate` let a GET, SET, DEL or ZADD
  take effect with the step that issues it: one connection carries a process'
  commands in order. The answer is a later step, or never comes. `invalidated`
  and `exposed` are for the properties: the newest version whose invalidation
  was sent, and those whose invalidation missed an older copy.
* A flow of `Verification` is one form that is sent, with any number of presses
  before it; each version of the configuration that is set up names a role of
  its own, so that a role shows which version it came from.
* Clocks are what the code asks of them: "the cooldown has run out", "the TTL is
  over". Only the anti-spam windows count time, in units of one window.
* In `MusicPlayer` the audio player of @discordjs/voice is external: a resource
  buffers, plays, ends or fails; `stop()` goes Idle later; a player without a
  connection pauses by itself.

## 3. Runs

| Run | Shows |
|---|---|
| `economy_locked` | One user in two guilds, the five functions that lock every row they touch: the values a transaction will write back are the ones the database still holds, no overdraft, a cooldown is claimed once, and the whole implements `AtomicLedger` step by step (the refinement maps each variable to itself). |
| `economy_returns` | Two users, transfers and nested locks, TTLs that may run out under a running holder, lost replies, failed releases and crashes: a late release never frees a successor's lock, and under fairness every call returns, and every lock comes free by its holder's own release, or by its TTL when a fault has orphaned it. |
| `commands_money` | Two deliveries, of one interaction or of two, to two processes, every pair of commands, with slow, failing and late calls: one execution unless Valkey failed open, no interaction refused for a delivery that was not let in (but for a failing call or a crash), no debt. |
| `roulette_settle` | Three commands of two players, two games, failing calls and crashes: stakes match bets until a payout, no overpayment, timers only for games with bets, a bet settled once and by its own game. |
| `roulette_stuck` | Expected violation of `BetsSettled` with nothing failing (section 6). |
| `moderation_cases` | Three handlers of every legal kind against one member: dense case numbers, sanction and case in the promised order, no early escalation. |
| `leaderboard_board` | Two users and transfers between them, two invocations of the loop, failing calls, stops and crashes: a row that misses a commit has that commit's event outstanding, rows never go back, an acknowledged entry is shown, and a consumer that stays up catches up with every event that was neither lost nor stranded. |
| `stream_music` | An event that may be republished, two jobs, refused and unanswered calls, stops and crashes: it is forgotten only by a fault the model names, handled twice on one entry only when both jobs had it at once or a process ended with it pending, and settled in the end. |
| `music_play` | Two songs asked for at once, with every other command, player event, lost session, failure and restart around them: no accepted song vanishes, none is started twice without a loop mode, the table keeps its limit. |
| `messages_flood` | Two messages at once with every pattern on: a flood is found whatever the order of their commands, escalation needs its rows, XP and levels, images. |
| `autoroles_menus` | Two overlapping clicks of an administrator and two events of a member, one failing call: an undisturbed "Finalizar" shows what it saved, one menu per session, a lone event keeps the menu's promise. |
| `verify_members` | A form pressed for again and again, two clicks on its last menu, a setter and the API: roles of the newest invalidated configuration, one verification per typed name, and under fairness the caches come back to the row. |

## 4. Bounds and fairness

Two calls in flight on one or two accounts are every pair of operations that can
interfere, since a lock protects single rows; `MaxCalls` (2) bounds the calls of
a behaviour, `MaxRetries` (1) stands for 3: one retry already interleaves a
refusal with the release it waited for. `MaxInt` (2) is the Int column: one unit
above the largest balance reached, so that overflow occurs. Amounts of 1 and a
starting pocket of 1 reach "exactly enough" and "one short". In `Roulette` three
commands and two games are the least that has a late bet, two games of one
player and a shared payout. In `Moderation` three handlers are two that race for
a number and a third that sees the result; thresholds at 1 and 2 warns stand for
3 and 5, so that escalation happens within three handlers. In
`LeaderboardStream` a second loop (`Loops`) is what the flag must keep out;
batches of 2 (for 10) and `MaxEntries` of 3 give a batch of two, a batch of one
and an empty read; `MaxCommits` of 2 lets totals change under a read;
`MaxRetries` is the configured 3.

* `EconomyCommands`: two deliveries, two processes, two users; `MaxIncidents`
  (2) failing, late or crashing calls; pockets of 0 and 2 and a multiplier of 2
  make fines that can and cannot be paid; a rate limit of one use is reached.
* `MusicPlayer`: two songs and a table of one row (for 100) reach the limit; two
  tasks beside them, two other commands and one failure; two players, since a
  session that is left and joined again makes a new one.
* `MessageCreate`: two messages in two units of time and limits of one or two,
  so that a pair is a flood; four kinds of message that between them meet every
  pattern; `XpPerLevel` of 2 puts a level boundary between two messages.
* `AutoRoles`: one administrator with two clicks in flight and four operations,
  two sessions, three menus, one member with two events in flight.
* `MusicStream`: one event, `ReadCount` of 2, one retry for three, so that both
  the republication and the dead letters are reached, and three faults. It is
  the one run that checks deadlock: its intervals never end.
* `Verification`: one flow with two clicks, one setter beside the API, two
  versions of the row, two faults. That another form overwrites the name is in
  the module, but two flows are beyond an exhaustive run.

The other runs check no deadlock: their bounded calls end. Callers, commands,
handlers, games and songs are interchangeable, hence the symmetry sets; runs
with liveness use none.

Fairness: `economy_returns` assumes weak fairness of the steps of a running call
(the event loop resumes an async function whose promise settled; every call to
Valkey and PostgreSQL has a timeout and settles) and of the TTL of an orphaned
key (`OrphanExpires`). A lease may lapse under a living holder there, and is
never assumed to, so that a lock is freed by what its holder does.
`roulette_stuck` assumes it of a command's steps and of a game's timer and
settlement. `FairSpec` of `LeaderboardStream` assumes weak fairness of the
interval, of every step of a loop (its calls settle) and of an event on its way,
and strong fairness of the two calls that Valkey may refuse, the creation of the
group and the read: it does not refuse them every time. `MusicStream` assumes
that both intervals fire and their calls are answered or fail, that a pending
entry grows old, and that a process which is down or stopping is started or
exits; faults are bounded there. `GuildConfig` assumes that a read and an
invalidation go on and that the three TTLs run out. Starting calls, failures and
crashes are never assumed.

## 5. Proofs

The theorems hold for every number of users, guilds, games, songs, messages,
events, calls and failures, and every limit. A safety invariant is seldom
inductive by itself; what each proof adds, and why, is said below. Type
correctness (`TypeCorrect`, `ModerationTyped`, `LeaderboardTyped`,
`CommandsTyped`, `RouletteTyped`, `MessagesTyped`, `PlayerTyped`,
`MenusTyped`) is the first conjunct everywhere, together with a control part:
where a call stands decides what it holds and what it has found.

Economy repository (`EconomyRepoProofs`):

* `OverdraftFree`: no pocket and no bank is ever negative, leases lapsing or
  not. A transaction writes what it has read, so `FundsInv` adds that the rows in
  hand are not negative and that the check of the balance has passed by the time
  of the write.
* `BankFresh`, `ClaimedOnce`: if leases do not lapse under their holders, the
  balance in an open transaction is the database's, and a cooldown is claimed
  once until it elapses. Both need `LocksHeld` (a call holds the first `depth`
  keys of its plan and nobody else holds them), so that one call per user is in a
  transaction; the second adds `CooldownInv`, what was read of the cooldown.
* `ReleasesOwn`: no call deletes a key somebody else holds, also when leases
  lapse: an action property, read off the type invariant and the step.
* `PocketsFresh`, `ImplementsLedger`: if leases do not lapse and nobody
  transfers, no pocket is written from a stale row, and the locks, reads and
  writes implement `AtomicLedger`. The refinement needs that a transaction has
  the current rows in hand at its write and that what it has found does not
  depend on the row it will create (`FoundInv`); then the write maps to the
  ledger's one step, a rollback to a rejection, everything else to a stutter.
  Without the hypothesis on transfers both are false (section 6).

Roulette (`RouletteProofs`):

* `TimersHaveBets`, `BetsSettledOnce`: with `Betting`, which says of a command
  how its bet, its game and its place in `execute` belong together, and that a
  game with a timer still waits.
* `PocketsAccounted`, `StakesAccounted`: a pocket is what the bets of its player
  account for, a sum over a finite set of commands. `Money` states it with the
  payments under way. What the fold of the library computes is not defined by
  induction here: the lemmas (`SumTakes`, `SumGrows`, `SumSame`) take the smallest
  set on which they would fail. Both theorems hold with `ColourIsSelected` FALSE,
  the code, and TRUE.

Moderation (`MemberProofs`):

* `CasesNumbered`: the numbers of the cases are 1..n, each used once. Inductive
  with `CountBehind`: a count read by a transaction is at most the number of
  cases at its insert; if it is less, the number is taken and the table refuses.
* `CasesAndSanctions`: by the kind of the handler, either no sanction without a
  case or no case without a sanction. `StoryInv` follows a handler: which of its
  two steps lie behind it, for its first sanction and for the escalated one.
* `NoEarlyEscalation`: `WarnInv` keeps that a tally was true when it was counted,
  and that warns are closed by nobody.

Commands and their gate (`EconomyCommandsProofs`):

* `OneExecution`: `GateInv` adds that a delivery whose SET was answered finds its
  key there, and that of two deliveries of an interaction one SET wins.
* `NoneSwallowed`: a refusal comes from the key or from the Set. `KeyHasWinner`
  finds the delivery whose SET took the key, `SetHasRunner` the one that runs in
  the process whose Set holds the interaction; `Onward` keeps both findings true
  in every later step.
* `NoDebt`: `Hands` says what a plan may hold at each await, `Books` that no
  balance is negative. The proof goes by groups of awaits.

Leaderboard (`LeaderboardProofs`):

* `BoardCorrect`, `NeverBack`, `AcksAreTrue`. The first half of the invariant is
  `Shape`: at most one invocation is past the flag, and the rest of its batch is
  delivered and still pending. The second is `Contents`: no event and no row is
  ahead of the totals, and the totals in hand lie between the row and the user's
  totals and are no older than the entry. `BoardFollows` alone is not inductive:
  that an acknowledgement forgets nothing takes the totals in hand, and that an
  upsert does not set a row back takes the single loop.

Messages (`MessageCreateProofs`):

* `FloodsCaught`: `FloodInv` says, of the messages that were found clean, what
  the last of them to write must have read: the entries of all earlier ones that
  no prune has taken (`Entries`), however the reads and writes of the checks
  interleave.
* `EscalationEarned`, `XpNeverLost`, `ImagesStay`: each with an invariant of its
  own (`HistInv`, `XpInv`, `ImageInv`) about what a message has in hand.
* `LevelsPaidFor`: the level of an amount of XP is the greatest one it pays for;
  that there is one, and that more XP never lowers it, is proved with a smallest
  counterexample (`LevelExists`, `LevelGrows`).

Configuration and verification (`MemberProofs`):

* `RolesCurrent`: `ConfigInv` bounds every copy of the row, in the Map, in Valkey,
  in the fallback and in the hands of a read: it is as new as the newest
  invalidation, or a later invalidation is known to have missed it. `RolesInv`
  carries that to the click that began after the invalidation.
* `OneUsePerName`: `NameInv`; a name is in the store, or in the hands of one
  click, and then it is gone from the store. Any number of forms and clicks.

Music (`MusicProofs`, the player and the stream of its events):

* `RowsLimited`: `LockInv`, who has counted the rows holds the lock until it has
  written.
* `NothingLost`: `KeptInv`, a song leaves the queue into the hands of a call and
  is given up only with a reason. That a shuffle loses none is shown through the
  library's facts on finite sets: a surjection between sets of equal size.
* `NoReplay`: `OnceInv`, as long as no loop mode was set: a song stands at one
  place of the queue (`OncePart`), in the hand of one call and then nowhere in
  the queue (`HandPart`), and one that still waits for its turn to be added was
  not accepted yet (`WaitPart`).
* `NoneForgotten`: every step of the stream is quiet, the end of a process, or
  one await of one of the two jobs (`StreamStepIs`). `StreamKept` says that an
  entry which is not to come, not pending and not in hand for republication is
  `Settled`: handled, given up for a known reason, or republished further behind.
  The property follows from the last entry of an event, which has none behind it.
* `SuccessesCounted`: `StreamOnce` says when the two jobs can have one entry in
  hand (`SeenTogether`), that the rest of a batch was not handled before unless
  that, or an ended process, explains it (`NoRepeat`, `Explained`), and that only
  delivered entries are handled (`Past`).

Auto-roles (`AutoRolesProofs`). The invariants have four layers, each using the
ones below it:

* `SetupInv` (types, and `Fits`: where a click stands says what it has) and
  `PlacedInv`: a row is of a message that was posted, two rows never have one id,
  and a session the bot may not edit is one of a foreign post.
* `MenusOnce`: `MenuInv`, of a session no two clicks have finished at once, one
  click at most is at work, and the menu it sent is known to the session or in
  the hand of that click, which has not written it there yet. So a click that
  sends finds no menu, also after a failure.
* `MenusMatch`: `AloneInv` says that no other click is at work on the session,
  the message or the row of a click whose ghost `clean` still holds, and
  `ProgressInv` how far the message and the row have come: the mappings written
  so far are the first of the list, and the buttons, then the reactions, are
  those of the list from the step that put them there. `clean` looks at the row
  a click writes and not only at its message: when two clicks finish a session,
  the second one's menu takes the place of the first one's in the session while
  the first still writes its row by id, and a third may open that row.
* `PromiseKept`: `Latest` (the last news of a member is what he has), and `Kept`:
  what the cache and every news under way still contain while an event that is
  alone strips the other roles of a menu, so that none it should take off is
  missing from the cache it reads.

Hypotheses and assumptions. Of the behaviour: that leases do not lapse
(`BankFresh`, `ClaimedOnce`, `PocketsFresh`, `ImplementsLedger`) and that nobody
transfers (the last two); the theorems state them, nothing else has any. Of the
constants: the named ASSUMEs, which TLC evaluates on every run: limits are
numbers and windows not empty; the sets of commands, messages and events are
finite; the values that stand for "nothing" are none of the things. `NoSong`,
`NoOne` and the `None` of the auto-roles are outside the sets they
complete for the same reason.

Model-checked only: the liveness properties (`CallsReturn`, `LocksComeFree`,
`CatchesUp`, `Settles`, `Converges`), since the prover has no rules for ENABLED
under fairness. Every safety property the passing runs check is proved. Nothing
is proved by induction over data: where a recursive fold or a level is reasoned
about, a smallest counterexample takes its place.

## 6. What the checks found

`roulette_stuck`: `getRouletteGame` does not select `winningColor`, and
`processResults` refuses a game without one. Every game stays "spinning", and
its stakes are gone.

Six properties of the modules say what a comment, a doc or a name promises and
the code does not keep. No run lists them; to see the trace, give a copy of the
named configuration the property and the change:

| Property | Configuration | What happens |
|---|---|---|
| `LedgerSpec` | `EconomyRepo_locked.cfg` with two users, `Kinds = {"transfer", "add"}` | `atomicTransfer` locks `economy:transfer:g:a:b`, everything else `economy:user:g:u`; both write absolute pockets. Money is lost or made although the service calls the operation atomic. |
| `EveryActionAudited` | `Moderation_cases.cfg`, `CanFail = FALSE` | The case number is a count read at Read Committed; of two concurrent commands one loses its case after its sanction. |
| `ThresholdsEnforced` | the same | The warns are counted after other warns may have been inserted, and a threshold matches one exact count, so it can be skipped. |
| `Retried` | `Leaderboard_board.cfg` | An entry that failed once is neither retried nor moved to the dead letters, as the comment at `LeaderboardStreamConsumer.ts:88` says: the next loop reads ">", new entries only, nothing claims the pending list, and `_retryCount` is never written back. |
| `NextSongFollows` | `Music_play.cfg` with three songs, `MaxFaults = 0` | The Idle handler clears the song a parallel call has just started (`PlayerService.ts:499`); after the second song the third waits until somebody acts. |
| `OnlyDuplicatesBlocked` | `Commands_money.cfg` | `acquireLock` answers FALSE when the SET fails (`ValkeyClient.ts:503`), so `idempotency.ts:28`, "Fail-open", blocks the first delivery of every interaction instead. |

What was read off the code while modelling; where a handler is modelled, its
actions do the same:

* Roulette: the settlement takes bare lock keys (`EconomyRepo.ts:1004`) and so
  excludes no bet of its player, and either may overwrite the other; a game whose
  timer dies with the process waits for ever; `atomicPlaceBet` accepts bets on games that no
  longer wait; a winning number pays 2 and not 36 times its stake
  (`ECONOMY_GAMES.md:254`); `cancelGame` reads the game after deleting it.
* Interactions: the Set of the process is not looked at again after the wait,
  and a finished delivery empties it, so that a duplicate let in without Valkey
  runs again; a crashed execution is never repeated.
* Economy commands: `/work` refuses whenever `jailReleaseAt` is set, even when
  the sentence is over; a crime that is caught after the pocket was spent
  throws, with no penalty and no cooldown; a crime that ends in jail claims no
  cooldown; a robbery claims it before a transfer that may fail or round to 0;
  the bail writes the bank as an absolute value, without its lock and across
  guilds, is lost if it fails before the release, and cannot be paid by a user
  without a bank row; the clearing of a served sentence can end a new one; an
  error in `isInJail` counts as free; a failing EXPIRE leaves a rate limit for
  ever; `deposit`, `retirar` and `bail` have none.
* Music: `/stop` says it has cleared the queue and does not; `/remove n` uses n
  as an index from 0; `/resume` always refuses; `/play` reads `isPlaying` before
  it searches; after leaving and joining again the entry keeps the first player;
  loop "queue" removes rows it does not add again; adding and removing at once
  leaves gaps in the positions; the rows are never loaded after a restart.
* Messages: the lock per user that `AntiSpamService.ts:107` describes does not
  exist; the combination of traits in one message never triggers; the notice to
  the log is sent only when Valkey's get throws (`messageCreate.ts:37`); a guild
  that switches XP off also loses the reposting of images; a swept image may be
  reposted by its own late handler; without a configuration nothing escalates; a
  later message may prune a flood of three before it is counted;
  messages that count their rows at once miss each other's and escalate late.
* Auto-roles: mappings added, or a second "Finalizar", while one is in flight
  are stored unchecked or twice; two overlapping clicks send two menus; a
  session is keyed by user only, and a late form brings a finished one back
  (`setup.ts:1393`) or marks another one's message as editable
  (`setup.ts:1292`); the positions in the removal menu may be stale; fields
  cleared from the embed stay on the message; a quick second reaction leaves two
  roles in unique mode.
* Music stream: a group is created at "$" and skips what a new guild has
  published before; a guild counts as known before its group exists, so that a
  failed creation is never repeated; acknowledging before republishing loses an
  event to a crash or a failing XADD; `sendToDlq` swallows its error and the
  entry is acknowledged; an overdue entry is dead-lettered without asking
  `processedMessages`; after a restart pending entries are reclaimed only if the
  guild was active within ten minutes.
* Configuration: one failing call makes the fallback last until a restart, and
  an invalidation made under it leaves the old value in Valkey; the API's writes
  are unseen for up to five minutes in each of two caches; half-open lets
  everything through, against its comment (`ValkeyClient.ts:667`).
* Verification: after a double click on the subclass menu the second one takes
  the user name for the nickname and adds a second request; a form in another
  guild overwrites the name; `createVerificationRequest` stores "pending" and
  empty strings whatever it is given, so that `/verificacion pendientes` lists
  everybody verified; the buttons to approve and reject do nothing.
* Elsewhere: `consumeOAuthState` gets and then deletes; logging out revokes the
  refresh token only if the body holds it; the API's rate limit renews its
  EXPIRE on every request and so locks a steady client out; the queue cache of
  the API fetches and then stores (`music-queue-cache.service.ts:133`); the
  shutdown closes Valkey before the handlers that still hold locks; a
  leaderboard consumer whose start was "deferred" is never started.

## 7. Not modelled

The API: it shares rows and Valkey with the bot and waits for nothing of it; its
races are single get-then-delete or fetch-then-store pairs over one key, like
the one `GuildConfig` has. The states of the circuit breaker: to a caller, an
open circuit is one of the reasons a call fails, and every call in the modules
may fail. Pub/sub and `getOrSet` have no caller in the bot. Embeds, wording,
permissions and role hierarchies (pure checks before a handler starts), the CRUD
of configuration, welcome texts, logs, images, start-up and shutdown, the
Angular applications, scripts and containers: no state that two actors share, or
nothing TLC could say about it. Functions nobody calls (`placeRouletteBet`,
`extendLock`, `reconnect`, `enqueueBatch`) are left out, as are the playlist
buffer that nothing sets up, the volume, and how a song is searched and
transcoded: it succeeds or fails. Three details are left out of handlers that
are modelled, and no property depends on them: after most clicks the
configuration panel puts the session it shows back into the Map
(`setup.ts:481`), the way back for a closed session that `PushMapping` has; the
title and the description the first form sets in a session that was opened for a
stored menu (`setup.ts:1288`) make it differ from the row also when nothing else
does; and the lock of the music queue neither lapses nor is lost to a missing
answer, its 30 s being longer than the 5 s of the transaction under it. Real time
appears only as "the TTL, the timer or the cooldown has run out".

A large part of the repository's lines are these parts, and much of the rest
builds embeds and menus; the map covers the handlers, services, repositories and
consumers named in section 2.

## 8. Plan

1. (done) Economy and locks, roulette, moderation, leaderboard.
2. (done) Interactions and economy commands, messages and XP, music, music
   stream, auto-roles, configuration and verification.
3. (done) Proofs of every safety property the passing runs check.
4. A second flow and a second guild for the verification, three messages for the
   anti-spam, two guilds for the music stream.
5. Sessions and rate limit of the API; the circuit breaker.
