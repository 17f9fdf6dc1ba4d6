------------------------------ MODULE Roulette ------------------------------
(***************************************************************************)
(* The roulette of a channel: the /ruleta command (ruleta.ts), the         *)
(* RouletteService, and atomicPlaceBet and atomicProcessRouletteResults of *)
(* EconomyRepo.ts.  A command finds or creates a game, takes the stake     *)
(* under the lock of the pocket and, if it has created the game, arms an   *)
(* in-memory timer; the timer spins the wheel and settles the bets.        *)
(*                                                                         *)
(* A lock is held or not: its retries and its TTL are EconomyRepo's        *)
(* subject.  cancelGame is absent: it is called when a timer finds no bet, *)
(* and ArmedGamesHaveBets shows that this does not happen.                 *)
(***************************************************************************)
EXTENDS Integers, FiniteSets, FiniteSetsExt

CONSTANTS
  Players,        \* numbers: the settlement locks the players in order
  Commands,       \* executions of /ruleta, each places at most one bet
  Games,          \* RouletteGame ids
  Stakes,         \* amounts the players bet
  Colours, Numbers, Green,   \* what the wheel shows
  Picks,        \* what the players of this instance bet on
  Outcomes,       \* [number, colour] pairs the wheel can stop at
  StartingPocket,
  ColourIsSelected,  \* FALSE: getRouletteGame as it is; TRUE: its select repaired
  CanFail,        \* may Discord and database calls fail and the bot crash?
  Nobody, NoOutcome, NoBet, NoGame

ASSUME RouletteAssumption ==
  /\ Players \subseteq Nat
  /\ IsFiniteSet(Commands)
  /\ Stakes \subseteq Nat \ {0}
  /\ StartingPocket \in Nat
  /\ Colours \cap Numbers = {}
  /\ Green \in Colours
  /\ Picks \subseteq Colours \cup Numbers
  /\ Outcomes \subseteq [number : Numbers, colour : Colours]
  /\ ColourIsSelected \in BOOLEAN /\ CanFail \in BOOLEAN

Requests == [player : Players, stake : Stakes, on : Picks]
Bets == [player : Players, stake : Stakes, on : Picks,
         game : Games, result : {"open", "win", "lose"}, paid : Nat]

ASSUME NothingAssumption == NoBet \notin Bets /\ Nobody \notin Commands \cup Games

VARIABLES
  pocket,    \* UserEconomy.pocket of every player
  game,      \* status and winning pair of every RouletteGame row
  bet,       \* the RouletteBet row a command has created
  pc,        \* where a command stands
  request,   \* what the command was asked to bet
  joined,    \* the game it bets on, and whether it created it
  isNew,
  read,      \* the pocket its transaction has read
  userLock,  \* cb:lock:economy:economy:user:g:u, held by a command
  rawLock,   \* economy:user:g:u, held by the settlement of a game
  flow,      \* spinRoulette of every game
  players,   \* the players whose raw locks the settlement takes
  settling   \* the bets the settlement's transaction has read

rows   == <<pocket, game, bet>>
cmds   == <<pc, request, joined, isNew, read, userLock>>
wheel  == <<flow, rawLock, players, settling>>
vars   == <<rows, cmds, wheel>>

Init ==
  /\ pocket = [p \in Players |-> StartingPocket]
  /\ game = [g \in Games |-> [status |-> "none", outcome |-> NoOutcome]]
  /\ bet = [c \in Commands |-> NoBet]
  /\ pc = [c \in Commands |-> "idle"]
  /\ request \in [Commands -> Requests]
  /\ joined = [c \in Commands |-> NoGame]
  /\ isNew = [c \in Commands |-> FALSE]
  /\ read = [c \in Commands |-> 0]
  /\ userLock = [p \in Players |-> Nobody]
  /\ rawLock = [p \in Players |-> Nobody]
  /\ flow = [g \in Games |-> "off"]
  /\ players = [g \in Games |-> {}]
  /\ settling = [g \in Games |-> {}]

Goto(c, l) == pc' = [pc EXCEPT ![c] = l]
Player(c)  == request[c].player

\* Mutant: the bets are included without their gameId.
BetsOfAnyGame(g) == {c \in Commands : bet[c] # NoBet}

BetsOf(g) == {c \in Commands : bet[c] # NoBet /\ bet[c].game = g}

-----------------------------------------------------------------------------
(* /ruleta: execute.                                                       *)

\* The checks before any write: the pocket is read without a lock.
Enter(c) ==
  /\ pc[c] = "idle"
  /\ Goto(c, IF pocket[Player(c)] >= request[c].stake THEN "lookup" ELSE "done")
  /\ UNCHANGED <<rows, request, joined, isNew, read, userLock, wheel>>

\* getActiveGame: any game of the channel that waits.
FindGame(c) ==
  /\ pc[c] = "lookup"
  /\ \/ \E g \in Games :
          /\ game[g].status = "waiting"
          /\ joined' = [joined EXCEPT ![c] = g]
          /\ Goto(c, "lock")
     \/ /\ \A g \in Games : game[g].status # "waiting"
        /\ Goto(c, "create")
        /\ UNCHANGED joined
  /\ UNCHANGED <<rows, request, isNew, read, userLock, wheel>>

CreateGame(c) ==
  /\ pc[c] = "create"
  /\ \E g \in Games :
       /\ game[g].status = "none"
       /\ game' = [game EXCEPT ![g].status = "waiting"]
       /\ joined' = [joined EXCEPT ![c] = g]
  /\ isNew' = [isNew EXCEPT ![c] = TRUE]
  /\ Goto(c, "lock")
  /\ UNCHANGED <<pocket, bet, request, read, userLock, wheel>>

-----------------------------------------------------------------------------
(* atomicPlaceBet: read, check and write under the lock of the pocket.     *)

\* Mutant: two bets of a player may be placed together.
LockPocketShared(c) ==
  /\ pc[c] = "lock"
  /\ userLock' = [userLock EXCEPT ![Player(c)] = c]
  /\ Goto(c, "read")
  /\ UNCHANGED <<rows, request, joined, isNew, read, wheel>>

LockPocket(c) ==
  /\ pc[c] = "lock"
  /\ userLock[Player(c)] = Nobody
  /\ userLock' = [userLock EXCEPT ![Player(c)] = c]
  /\ Goto(c, "read")
  /\ UNCHANGED <<rows, request, joined, isNew, read, wheel>>

\* Mutant: the timer is armed in a finally of the command.
LockRefusedArms(c) ==
  /\ pc[c] = "lock"
  /\ userLock[Player(c)] # Nobody
  /\ Goto(c, IF isNew[c] THEN "arm" ELSE "done")
  /\ UNCHANGED <<rows, request, joined, isNew, read, userLock, wheel>>

\* withLock has no attempt left: placeBet throws and the command ends.
LockRefused(c) ==
  /\ pc[c] = "lock"
  /\ userLock[Player(c)] # Nobody
  /\ Goto(c, "done")
  /\ UNCHANGED <<rows, request, joined, isNew, read, userLock, wheel>>

Unlocked(c) ==
  userLock' = [p \in Players |-> IF userLock[p] = c THEN Nobody ELSE userLock[p]]

ReadPocket(c) ==
  /\ pc[c] = "read"
  /\ read' = [read EXCEPT ![c] = pocket[Player(c)]]
  /\ IF pocket[Player(c)] >= request[c].stake
       THEN Goto(c, "write") /\ UNCHANGED userLock
       ELSE Goto(c, "done") /\ Unlocked(c)
  /\ UNCHANGED <<rows, request, joined, isNew, wheel>>

NewBet(c) == [player |-> Player(c), stake |-> request[c].stake,
              on |-> request[c].on, game |-> joined[c],
              result |-> "open", paid |-> 0]

\* The transaction commits the debit and the bet together; the game is not
\* read, so its status does not matter.
WriteBet(c) ==
  /\ pc[c] = "write"
  /\ pocket' = [pocket EXCEPT ![Player(c)] = read[c] - request[c].stake]
  /\ bet' = [bet EXCEPT ![c] = NewBet(c)]
  /\ Unlocked(c)
  /\ Goto(c, IF isNew[c] THEN "arm" ELSE "done")
  /\ UNCHANGED <<game, request, joined, isNew, read, wheel>>

\* The command that has created the game starts its 30 seconds.
ArmTimer(c) ==
  /\ pc[c] = "arm"
  /\ flow' = [flow EXCEPT ![joined[c]] = "armed"]
  /\ Goto(c, "done")
  /\ UNCHANGED <<rows, request, joined, isNew, read, userLock,
                 rawLock, players, settling>>

\* getGameBets or editReply rejects first: nobody will spin this game.
ReplyFails(c) ==
  /\ CanFail
  /\ pc[c] = "arm"
  /\ Goto(c, "done")
  /\ UNCHANGED <<rows, request, joined, isNew, read, userLock, wheel>>

-----------------------------------------------------------------------------
(* spinRoulette.                                                           *)

Flow(g, l) == flow' = [flow EXCEPT ![g] = l]

\* getGameBets and the "girando" message; RouletteService.spin after 3 seconds.
Spin(g) ==
  /\ flow[g] = "armed"
  /\ game[g].status = "waiting"
  /\ BetsOf(g) # {}
  /\ \E o \in Outcomes :
       game' = [game EXCEPT ![g] = [status |-> "spinning", outcome |-> o]]
  /\ Flow(g, "results")
  /\ UNCHANGED <<pocket, bet, cmds, rawLock, players, settling>>

\* A Discord call rejects before the spin: the timer is gone.
SpinFails(g) ==
  /\ CanFail
  /\ flow[g] = "armed"
  /\ Flow(g, "off")
  /\ UNCHANGED <<rows, cmds, rawLock, players, settling>>

\* processResults: getRouletteGame does not select winningColor, so
\* !game.winningColor throws "Game not found or not spun yet"; the query may
\* fail as well.
ResultsRefused(g) ==
  /\ flow[g] = "results"
  /\ ~ColourIsSelected \/ CanFail
  /\ Flow(g, "off")
  /\ UNCHANGED <<rows, cmds, rawLock, players, settling>>

\* atomicProcessRouletteResults: the bets read to know which locks to take.
ResultsAccepted(g) ==
  /\ flow[g] = "results"
  /\ ColourIsSelected
  /\ players' = [players EXCEPT ![g] = {bet[c].player : c \in BetsOf(g)}]
  /\ Flow(g, "locking")
  /\ UNCHANGED <<rows, cmds, rawLock, settling>>

Missing(g) == {p \in players[g] : rawLock[p] # g}

RawUnlocked(g) ==
  rawLock' = [p \in Players |-> IF rawLock[p] = g THEN Nobody ELSE rawLock[p]]

\* valkey.acquireLock, one attempt per player, in order.
RawLock(g) ==
  /\ flow[g] = "locking"
  /\ Missing(g) # {}
  /\ LET p == Min(Missing(g)) IN
       IF rawLock[p] = Nobody
         THEN rawLock' = [rawLock EXCEPT ![p] = g] /\ UNCHANGED flow
         ELSE RawUnlocked(g) /\ Flow(g, "off")
  /\ UNCHANGED <<rows, cmds, players, settling>>

\* The transaction re-fetches the game with its bets.
SettleReads(g) ==
  /\ flow[g] = "locking"
  /\ Missing(g) = {}
  /\ game[g].status = "spinning"
  /\ settling' = [settling EXCEPT ![g] = BetsOf(g)]
  /\ Flow(g, "paying")
  /\ UNCHANGED <<rows, cmds, rawLock, players>>

Won(b, o)    == b.on \in {o.number, o.colour}
WinAmount(b) == IF b.on = Green THEN b.stake * 14 ELSE b.stake * 2

Settled(b, o) == IF Won(b, o)
                   THEN [b EXCEPT !.result = "win", !.paid = WinAmount(b)]
                   ELSE [b EXCEPT !.result = "lose"]

\* The game's lock is refused, or the database rejects: nothing is written.
SettleFails(g) ==
  /\ CanFail
  /\ flow[g] \in {"locking", "paying"}
  /\ RawUnlocked(g)
  /\ Flow(g, "off")
  /\ UNCHANGED <<rows, cmds, players, settling>>

\* Mutant: a stake that wins is given back on top of the winnings.
SettlePaysStakeToo(g) ==
  LET o == game[g].outcome
      Winnings == [c \in settling[g] |-> Settled(bet[c], o).paid + bet[c].stake]
  IN /\ flow[g] = "paying"
     /\ pocket' = [p \in Players |-> pocket[p]
                     + SumFunctionOnSet(Winnings, {c \in settling[g] : bet[c].player = p})]
     /\ bet' = [c \in Commands |-> IF c \in settling[g]
                                     THEN Settled(bet[c], o) ELSE bet[c]]
     /\ game' = [game EXCEPT ![g].status = "finished"]
     /\ RawUnlocked(g)
     /\ Flow(g, "off")
     /\ UNCHANGED <<cmds, players, settling>>

\* It pays with increments, marks the bets it has read and finishes the game
\* (processResults then writes "finished" once more).
SettlePays(g) ==
  LET o == game[g].outcome
      Winnings == [c \in settling[g] |-> Settled(bet[c], o).paid]
  IN /\ flow[g] = "paying"
     /\ pocket' = [p \in Players |-> pocket[p]
                     + SumFunctionOnSet(Winnings, {c \in settling[g] : bet[c].player = p})]
     /\ bet' = [c \in Commands |-> IF c \in settling[g]
                                     THEN Settled(bet[c], o) ELSE bet[c]]
     /\ game' = [game EXCEPT ![g].status = "finished"]
     /\ RawUnlocked(g)
     /\ Flow(g, "off")
     /\ UNCHANGED <<cmds, players, settling>>

\* The bot dies: commands, timers and flows with it.  The rows stay; the TTL
\* frees the locks before the next bot serves its first command.
Crash ==
  /\ CanFail
  /\ \/ \E c \in Commands : pc[c] \notin {"idle", "done"}
     \/ \E g \in Games : flow[g] # "off"
  /\ pc' = [c \in Commands |-> IF pc[c] = "idle" THEN "idle" ELSE "done"]
  /\ flow' = [g \in Games |-> "off"]
  /\ userLock' = [p \in Players |-> Nobody]
  /\ rawLock' = [p \in Players |-> Nobody]
  /\ UNCHANGED <<rows, request, joined, isNew, read, players, settling>>

-----------------------------------------------------------------------------
Step(c) ==
  \/ FindGame(c) \/ CreateGame(c) \/ LockPocket(c) \/ LockRefused(c)
  \/ ReadPocket(c) \/ WriteBet(c) \/ ArmTimer(c)

Turn(g) ==
  \/ Spin(g) \/ ResultsRefused(g) \/ ResultsAccepted(g) \/ RawLock(g)
  \/ SettleReads(g) \/ SettlePays(g)

Next ==
  \/ \E c \in Commands : Enter(c) \/ Step(c) \/ ReplyFails(c)
  \/ \E g \in Games : Turn(g) \/ SpinFails(g) \/ SettleFails(g)
  \/ Crash

Spec == Init /\ [][Next]_vars

\* The event loop serves every awaited call and every timer.
FairSpec == Spec /\ \A c \in Commands : WF_vars(Step(c))
                 /\ \A g \in Games : WF_vars(Turn(g))

-----------------------------------------------------------------------------
\* The values of the variables.
TypeOK ==
  /\ pocket \in [Players -> Int]
  /\ game \in [Games -> [status : {"none", "waiting", "spinning", "finished"},
                         outcome : Outcomes \cup {NoOutcome}]]
  /\ bet \in [Commands -> Bets \cup {NoBet}]
  /\ pc \in [Commands -> {"idle", "lookup", "create", "lock", "read", "write",
                          "arm", "done"}]
  /\ request \in [Commands -> Requests]
  /\ joined \in [Commands -> Games \cup {NoGame}]
  /\ isNew \in [Commands -> BOOLEAN]
  /\ read \in [Commands -> Int]
  /\ userLock \in [Players -> Commands \cup {Nobody}]
  /\ rawLock \in [Players -> Games \cup {Nobody}]
  /\ flow \in [Games -> {"off", "armed", "results", "locking", "paying"}]
  /\ players \in [Games -> SUBSET Players]
  /\ settling \in [Games -> SUBSET Commands]

BetsBy(p)   == {c \in Commands : bet[c] # NoBet /\ bet[c].player = p}
Gains(p)    == [c \in BetsBy(p) |-> bet[c].paid - bet[c].stake]
Fair(p)     == StartingPocket + SumFunctionOnSet(Gains(p), BetsBy(p))

\* The lock of the pocket and the transaction keep stakes and bets together:
\* nobody's pocket ever holds more than the start, minus the stakes of the
\* bets placed, plus what these bets were paid (EconomyRepo.ts:935-968).
NeverOverpaid == \A p \in Players : pocket[p] <= Fair(p)

\* ... and until a payout, not less either: no stake is taken without its bet,
\* whatever crashes or collides.  (A payout writes pockets under other locks
\* than the bets do, and may lose to one of them.)
StakesMatchBets ==
  (\A g \in Games : game[g].status # "finished") =>
    \A p \in Players : pocket[p] = Fair(p)

\* A timer runs only for a game that has a bet: the cancellation of
\* spinRoulette (ruleta.ts:243-250) is not reachable.
ArmedGamesHaveBets ==
  \A g \in Games : flow[g] # "off" => BetsOf(g) # {}

\* A game is finished by its settlement alone, and a bet is settled once,
\* by the outcome of its own game, whatever commands and games overlap.
SettledOnce ==
  [][\A c \in Commands :
       bet[c] # NoBet /\ bet'[c] # bet[c] =>
         /\ bet[c].result = "open"
         /\ game'[bet[c].game].status = "finished"
         /\ (bet'[c].result = "win") <=> Won(bet[c], game'[bet[c].game].outcome)]_vars

\* ECONOMY_GAMES.md:249: the winnings are paid automatically.
BetsSettled ==
  \A c \in Commands :
    (bet[c] # NoBet) ~> (bet[c] # NoBet /\ bet[c].result # "open")
=============================================================================
