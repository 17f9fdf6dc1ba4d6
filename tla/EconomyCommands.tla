-------------------------- MODULE EconomyCommands --------------------------
(***************************************************************************)
(* The economy commands /work, /crime, /rob, /bail, /deposit and /retirar, *)
(* run by the interactions the gate lets in.  A command is a sequence of   *)
(* awaits: the rate limit in Valkey, the prison, a read of the balances it *)
(* decides on, and then the writes.  What EconomyRepo does to the pockets  *)
(* and banks under its locks takes effect in one step here (EconomyRepo    *)
(* shows when that is so); what a command reads and writes without a lock  *)
(* is a step of its own.                                                   *)
(*                                                                         *)
(* Clocks are replaced by what the code asks them: a cooldown runs or has  *)
(* elapsed, a sentence is being served or is served.  The rows of the      *)
(* users and of their banks exist.                                         *)
(***************************************************************************)
EXTENDS InteractionGate, Integers

CONSTANTS
  Users,
  Requests,      \* what the interactions ask: [kind, user, peer, amount]
  StartPockets,  \* what the pockets may hold at the start
  StartBank,
  Records,       \* the sentences the users may have at the start
  WorkPay,       \* the earnings of a shift
  Multiplier,    \* config.crimeMultiplier
  RateLimits,    \* uses per window of work, crime and rob
  NoRequest,
  MaxIncidents   \* bound: failing or slow calls, crashes, timers that fire

Limited == {"work", "crime", "rob"}
Sentences == {"none", "serving", "served"}

\* Discord refuses an amount below 1 (setMinValue); the other commands take none.
ASSUME CommandsAssumption ==
  /\ Requests \subseteq [kind : Limited \cup {"bail", "deposit", "retirar"},
                          user : Users, peer : Users, amount : Nat]
  /\ NoRequest \notin Requests
  /\ StartPockets \subseteq [Users -> Nat] /\ StartBank \in Nat
  /\ Records \subseteq [Users -> Sentences]
  /\ WorkPay \in Nat /\ Multiplier \in Nat
  /\ MaxIncidents \in Nat

VARIABLES
  request,   \* the request of every interaction
  step,      \* the await a running command is at
  plan,      \* the values it has read and decided on
  pocket, bank,
  sentence,  \* inJail and jailReleaseAt: "none", "serving" or "served"
  cooling,   \* the cooldowns of a user that have not elapsed
  rate,      \* the counters in Valkey
  incidents  \* how many of those there have been

moneyVars == <<pocket, bank>>
userVars == <<pocket, bank, sentence, cooling>>
vars == <<gateVars, request, step, plan, userVars, rate, incidents>>

Steps == {"idle", "limit", "expire", "jail", "clear", "look", "read", "claim",
          "balance", "act", "free", "end"}
Acts == {"none", "earn", "fine", "imprison", "transfer", "pay",
         "deposit", "withdraw", "caught"}

Plans == [act : Acts, amount : Nat, from : Int]
NoPlan == [act |-> "none", amount |-> 0, from |-> 0]

TypeOK ==
  /\ GateTypeOK
  /\ request \in [Interactions -> Requests \cup {NoRequest}]
  /\ step \in [Deliveries -> Steps]
  /\ plan \in [Deliveries -> Plans]
  /\ pocket \in [Users -> Int] /\ bank \in [Users -> Int]
  /\ sentence \in [Users -> Sentences]
  /\ cooling \in [Users -> SUBSET Limited]
  /\ rate \in [Users -> [Limited -> [used : Nat, expires : BOOLEAN]]]
  /\ incidents \in 0 .. MaxIncidents

NoUse == [used |-> 0, expires |-> FALSE]

Init ==
  /\ GateInit
  /\ request = [i \in Interactions |-> NoRequest]
  /\ step = [d \in Deliveries |-> "idle"]
  /\ plan = [d \in Deliveries |-> NoPlan]
  /\ pocket \in StartPockets
  /\ bank = [u \in Users |-> StartBank]
  /\ sentence \in Records
  /\ cooling = [u \in Users |-> {}]
  /\ rate = [u \in Users |-> [k \in Limited |-> NoUse]]
  /\ incidents = 0

Incident == incidents < MaxIncidents /\ incidents' = incidents + 1

Req(d) == request[arrival[d].id]
Who(d) == Req(d).user
Kind(d) == Req(d).kind

At(d, s) == arrival[d].at = "running" /\ step[d] = s
Goes(d, s) == step' = [step EXCEPT ![d] = s]
Ends(d) == Goes(d, "end")
Decides(d, act, amount) ==
  plan' = [plan EXCEPT ![d].act = act, ![d].amount = amount]

\* Math.round of a share of a whole, non-negative amount: halves go up.
Share(amount, tenths) == (amount * tenths + 5) \div 10

(***************************************************************************)
(* The gate lets a delivery in: its command starts.                        *)
(***************************************************************************)
FirstStep(k) ==
  CASE k \in Limited -> "limit"
    [] k = "bail"    -> "look"
    [] OTHER         -> "jail"

Begin(d) ==
  /\ \/ Won(d) /\ UNCHANGED incidents
     \/ TimesOut(d) /\ Incident
  /\ Goes(d, FirstStep(Kind(d)))
  /\ UNCHANGED <<request, plan, userVars, rate>>

\* A request is made by a user, and keeps its interaction when it is repeated.
Asked(d, b, i) ==
  /\ Arrive(d, b, i)
  /\ IF request[i] # NoRequest THEN UNCHANGED request
     ELSE \E r \in Requests : request' = [request EXCEPT ![i] = r]
  /\ UNCHANGED <<step, plan, userVars, rate, incidents>>

Answered(d) ==
  /\ \/ (SetLands(d) \/ Refused(d)) /\ UNCHANGED incidents
     \/ CallFails(d) /\ Incident
  /\ UNCHANGED <<request, step, plan, userVars, rate>>

Cleanup(b) ==
  /\ Incident
  /\ cleanupLocalIdempotency(b)
  /\ UNCHANGED <<request, step, plan, userVars, rate>>

Return(d) ==
  /\ At(d, "end")
  /\ Finish(d)
  /\ Goes(d, "idle")
  /\ plan' = [plan EXCEPT ![d] = NoPlan]
  /\ UNCHANGED <<request, userVars, rate, incidents>>

\* Any await may reject: the command answers with an error and ends.
Throws(d) ==
  /\ Incident
  /\ arrival[d].at = "running"
  /\ step[d] \notin {"limit", "expire", "jail", "clear", "end"}
  /\ Ends(d)
  /\ UNCHANGED <<gateVars, request, plan, userVars, rate>>

Dies(b) ==
  /\ Incident
  /\ Crash(b)
  /\ step' = [d \in Deliveries |->
                IF arrival'[d].at = "lost" THEN "idle" ELSE step[d]]
  /\ plan' = [d \in Deliveries |->
                IF arrival'[d].at = "lost" THEN NoPlan ELSE plan[d]]
  /\ UNCHANGED <<request, userVars, rate>>

(***************************************************************************)
(* rateLimitCommand: INCR, and EXPIRE by the call that created the counter. *)
(***************************************************************************)
AfterLimit(k) == IF k = "work" THEN "look" ELSE "jail"

RateLimitIncr(d) ==
  LET used == rate[Who(d)][Kind(d)].used + 1 IN
  /\ At(d, "limit")
  /\ rate' = [rate EXCEPT ![Who(d)][Kind(d)].used = used]
  /\ Goes(d, IF used = 1 THEN "expire"
             ELSE IF used <= RateLimits[Kind(d)] THEN AfterLimit(Kind(d))
             ELSE "end")
  /\ UNCHANGED <<gateVars, request, plan, userVars, incidents>>

RateLimitExpire(d) ==
  /\ At(d, "expire")
  /\ rate' = [rate EXCEPT ![Who(d)][Kind(d)].expires = TRUE]
  /\ Goes(d, AfterLimit(Kind(d)))
  /\ UNCHANGED <<gateVars, request, plan, userVars, incidents>>

\* "Fail-open per design": the error of either call lets the command through.
RateLimitFails(d) ==
  /\ Incident
  /\ At(d, "limit") \/ At(d, "expire")
  /\ Goes(d, AfterLimit(Kind(d)))
  /\ UNCHANGED <<gateVars, request, plan, userVars, rate>>

WindowEnds(u, k) ==
  /\ Incident
  /\ rate[u][k].expires
  /\ rate' = [rate EXCEPT ![u][k] = NoUse]
  /\ UNCHANGED <<gateVars, request, step, plan, userVars>>

(***************************************************************************)
(* EconomyService.isInJail: a read, and a second statement that clears a   *)
(* sentence found to be over.  An error of either counts as "not in jail". *)
(***************************************************************************)
AfterJail(k) == IF k = "crime" THEN "look" ELSE "read"

IsInJail(d) ==
  LET s == sentence[Who(d)] IN
  /\ At(d, "jail")
  /\ Goes(d, IF s = "none" THEN AfterJail(Kind(d))
             ELSE IF s = "served" THEN "clear" ELSE "end")
  /\ UNCHANGED <<gateVars, request, plan, userVars, rate, incidents>>

ClearSentence(d) ==
  /\ At(d, "clear")
  /\ sentence' = [sentence EXCEPT ![Who(d)] = "none"]
  /\ Goes(d, AfterJail(Kind(d)))
  /\ UNCHANGED <<gateVars, request, plan, moneyVars, cooling, rate, incidents>>

IsInJailFails(d) ==
  /\ Incident
  /\ At(d, "jail") \/ At(d, "clear")
  /\ Goes(d, AfterJail(Kind(d)))
  /\ UNCHANGED <<gateVars, request, plan, userVars, rate>>

SentenceRunsOut(u) ==
  /\ sentence[u] = "serving"
  /\ sentence' = [sentence EXCEPT ![u] = "served"]
  /\ UNCHANGED <<gateVars, request, step, plan, moneyVars, cooling, rate, incidents>>

CooldownElapses(u, k) ==
  /\ Incident
  /\ k \in cooling[u]
  /\ cooling' = [cooling EXCEPT ![u] = @ \ {k}]
  /\ UNCHANGED <<gateVars, request, step, plan, moneyVars, sentence, rate>>

(***************************************************************************)
(* What the commands read and decide.                                      *)
(***************************************************************************)
\* /work refuses as long as jailReleaseAt is set, were it in the past.
WorkLooks(d) ==
  /\ At(d, "look") /\ Kind(d) = "work"
  /\ IF sentence[Who(d)] = "none" /\ "work" \notin cooling[Who(d)]
     THEN Decides(d, "earn", WorkPay) /\ Goes(d, "act")
     ELSE Ends(d) /\ UNCHANGED plan
  /\ UNCHANGED <<gateVars, request, userVars, rate, incidents>>

CrimeLooks(d) ==
  /\ At(d, "look") /\ Kind(d) = "crime"
  /\ Goes(d, IF "crime" \in cooling[Who(d)] THEN "end" ELSE "read")
  /\ UNCHANGED <<gateVars, request, plan, userVars, rate, incidents>>

\* The row is read once; the fine is half of the pocket it showed.
CrimeReads(d) ==
  LET fine == Share(pocket[Who(d)], 5) IN
  /\ At(d, "read") /\ Kind(d) = "crime"
  /\ \/ Decides(d, "earn", WorkPay * Multiplier)
     \/ fine < 1 /\ Decides(d, "imprison", 0)
     \/ fine >= 1 /\ Decides(d, "fine", fine)
  /\ Goes(d, "act")
  /\ UNCHANGED <<gateVars, request, userVars, rate, incidents>>

\* The victim's pocket is read here; the share of it is taken two awaits later.
RobReads(d) ==
  LET seen == pocket[Req(d).peer] IN
  /\ At(d, "read") /\ Kind(d) = "rob"
  /\ IF seen <= 0 THEN Ends(d) /\ UNCHANGED plan
     ELSE /\ Goes(d, "claim")
          /\ \/ \E loot \in Share(seen, 4) .. Share(seen, 8) :
                  Decides(d, "transfer", loot)
             \/ Decides(d, "caught", 0)
  /\ UNCHANGED <<gateVars, request, userVars, rate, incidents>>

\* The penalty is a fifth of everything, paid from the pocket or in prison.
RobBalance(d) ==
  LET u == Who(d)
      penalty == Share(pocket[u] + bank[u], 2) IN
  /\ At(d, "balance")
  /\ IF pocket[u] < penalty THEN Decides(d, "imprison", 0)
     ELSE Decides(d, "pay", penalty)
  /\ Goes(d, "act")
  /\ UNCHANGED <<gateVars, request, userVars, rate, incidents>>

BailLooks(d) ==
  /\ At(d, "look") /\ Kind(d) = "bail"
  /\ Goes(d, IF sentence[Who(d)] = "none" THEN "end" ELSE "read")
  /\ UNCHANGED <<gateVars, request, plan, userVars, rate, incidents>>

BailReads(d) ==
  LET u == Who(d)
      price == Share(pocket[u] + bank[u], 2) IN
  /\ At(d, "read") /\ Kind(d) = "bail"
  /\ IF bank[u] < price THEN Ends(d) /\ UNCHANGED plan
     ELSE /\ plan' = [plan EXCEPT ![d].amount = price, ![d].from = bank[u]]
          /\ Goes(d, "act")
  /\ UNCHANGED <<gateVars, request, userVars, rate, incidents>>

\* /deposit and /retirar cap the amount asked at the balance they read.
MoveReads(d, kind, act, balance) ==
  LET asked == Req(d).amount IN
  /\ At(d, "read") /\ Kind(d) = kind
  /\ IF balance[Who(d)] <= 0 THEN Ends(d) /\ UNCHANGED plan
     ELSE /\ Decides(d, act, IF asked > balance[Who(d)] THEN balance[Who(d)]
                             ELSE asked)
          /\ Goes(d, "act")
  /\ UNCHANGED <<gateVars, request, userVars, rate, incidents>>

DepositReads(d) == MoveReads(d, "deposit", "deposit", pocket)
RetirarReads(d) == MoveReads(d, "retirar", "withdraw", bank)

(***************************************************************************)
(* What the commands write.  Earn, Fine, Transfer, Deposit, Withdraw and   *)
(* RobClaims are the atomic functions of EconomyRepo: they check again, on *)
(* the row they lock, or throw; so does an amount rounded down to nothing. *)
(***************************************************************************)
Acting(d, act) == At(d, "act") /\ plan[d].act = act

CooldownFree(d) == Kind(d) \notin cooling[Who(d)]

\* Mutant: the atomic functions trust the balance the command has read.
TrustsTheCaller(u, amount) == amount > 0

Affords(u, amount) == amount > 0 /\ pocket[u] >= amount

\* The robber's cooldown is claimed before the robbery, which may still fail.
RobClaims(d) ==
  /\ At(d, "claim")
  /\ IF CooldownFree(d)
     THEN /\ cooling' = [cooling EXCEPT ![Who(d)] = @ \cup {"rob"}]
          /\ Goes(d, IF plan[d].act = "caught" THEN "balance" ELSE "act")
     ELSE Ends(d) /\ UNCHANGED cooling
  /\ UNCHANGED <<gateVars, request, plan, moneyVars, sentence, rate, incidents>>

\* Adds to the pocket, or takes the fine from it, and claims the cooldown.
Settle(d, act, allowed, change) ==
  /\ Acting(d, act)
  /\ IF allowed /\ CooldownFree(d)
     THEN /\ pocket' = [pocket EXCEPT ![Who(d)] = @ + change]
          /\ cooling' = [cooling EXCEPT ![Who(d)] = @ \cup {Kind(d)}]
     ELSE UNCHANGED <<pocket, cooling>>
  /\ Ends(d)
  /\ UNCHANGED <<gateVars, request, plan, bank, sentence, rate, incidents>>

Earn(d) == Settle(d, "earn", TRUE, plan[d].amount)
Fine(d) == Settle(d, "fine", Affords(Who(d), plan[d].amount), -plan[d].amount)

Transfer(d, act, from, to) ==
  /\ Acting(d, act)
  /\ IF Affords(from, plan[d].amount)
     THEN pocket' = [pocket EXCEPT ![from] = @ - plan[d].amount,
                                   ![to] = @ + plan[d].amount]
     ELSE UNCHANGED pocket
  /\ Ends(d)
  /\ UNCHANGED <<gateVars, request, plan, bank, sentence, cooling, rate, incidents>>

Steal(d) == Transfer(d, "transfer", Req(d).peer, Who(d))
PayPenalty(d) == Transfer(d, "pay", Who(d), Req(d).peer)

\* EconomyService.sendToJail: an update of its own, of the sentence only.
SendToJail(d) ==
  /\ Acting(d, "imprison")
  /\ sentence' = [sentence EXCEPT ![Who(d)] = "serving"]
  /\ Ends(d)
  /\ UNCHANGED <<gateVars, request, plan, moneyVars, cooling, rate, incidents>>

\* "in" is what the bank gets: negative for a withdrawal.
MoveMoney(d, act, allowed, in) ==
  /\ Acting(d, act)
  /\ IF allowed
     THEN /\ pocket' = [pocket EXCEPT ![Who(d)] = @ - in]
          /\ bank' = [bank EXCEPT ![Who(d)] = @ + in]
     ELSE UNCHANGED <<pocket, bank>>
  /\ Ends(d)
  /\ UNCHANGED <<gateVars, request, plan, sentence, cooling, rate, incidents>>

Deposit(d) ==
  MoveMoney(d, "deposit", Affords(Who(d), plan[d].amount), plan[d].amount)
Withdraw(d) ==
  MoveMoney(d, "withdraw", bank[Who(d)] >= plan[d].amount, -plan[d].amount)

\* The bail is paid from the balance that was read, as an absolute value and
\* without the lock of the bank; the sentence is lifted by the next statement.
BailPays(d) ==
  /\ At(d, "act") /\ Kind(d) = "bail"
  /\ bank' = [bank EXCEPT ![Who(d)] = plan[d].from - plan[d].amount]
  /\ Goes(d, "free")
  /\ UNCHANGED <<gateVars, request, plan, pocket, sentence, cooling, rate, incidents>>

BailFrees(d) ==
  /\ At(d, "free")
  /\ sentence' = [sentence EXCEPT ![Who(d)] = "none"]
  /\ Ends(d)
  /\ UNCHANGED <<gateVars, request, plan, moneyVars, cooling, rate, incidents>>

Command(d) ==
  \/ \E b \in Bots, i \in Interactions : Asked(d, b, i)
  \/ Answered(d) \/ Begin(d) \/ Return(d) \/ Throws(d)
  \/ RateLimitIncr(d) \/ RateLimitExpire(d) \/ RateLimitFails(d)
  \/ IsInJail(d) \/ ClearSentence(d) \/ IsInJailFails(d)
  \/ WorkLooks(d) \/ CrimeLooks(d) \/ CrimeReads(d)
  \/ RobReads(d) \/ RobClaims(d) \/ RobBalance(d)
  \/ BailLooks(d) \/ BailReads(d) \/ BailPays(d) \/ BailFrees(d)
  \/ DepositReads(d) \/ RetirarReads(d) \/ Deposit(d) \/ Withdraw(d)
  \/ Earn(d) \/ Fine(d) \/ Steal(d) \/ PayPenalty(d) \/ SendToJail(d)

Elapse ==
  \E u \in Users : \/ SentenceRunsOut(u)
                   \/ \E k \in Limited : CooldownElapses(u, k) \/ WindowEnds(u, k)

Next ==
  \/ \E d \in Deliveries : Command(d)
  \/ \E b \in Bots : Dies(b) \/ Cleanup(b)
  \/ Elapse

Spec == Init /\ [][Next]_vars

(***************************************************************************)
(* Properties.                                                             *)
(***************************************************************************)
\* Nobody ends in debt, whatever happened between the balance a command decided
\* on and the moment it pays: fines, loot and penalties are computed from an
\* old row, the bail is written over the bank as an absolute value.
NobodyInDebt == \A u \in Users : pocket[u] >= 0 /\ bank[u] >= 0
=============================================================================
