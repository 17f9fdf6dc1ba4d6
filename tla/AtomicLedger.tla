---------------------------- MODULE AtomicLedger ----------------------------
(***************************************************************************)
(* What the economy promises: a call takes effect in ONE step, on the      *)
(* values current at that step, somewhere between the moment a command     *)
(* makes it and the moment it returns; or it is rejected and has no effect.*)
(* The word "ATOMIC" on the operations of EconomyService.ts, stated.       *)
(***************************************************************************)
EXTENDS EconomyTypes

CONSTANTS NoCall   \* a caller with nothing in flight

VARIABLES
  user,      \* the UserEconomy row of every account
  bank,      \* the GlobalBank balance of every user (no row reads as 0)
  cooling,   \* the cooldowns of an account that have not elapsed
  call,      \* the call every caller has in flight
  outcome    \* whether that call has taken effect or thrown

ledgerVars == <<user, bank, cooling, call, outcome>>

Outcomes == {"none", "committed", "threw"}

Init ==
  /\ user \in [Accounts -> {NoRow, StartingRow}]
  /\ bank = [u \in Users |-> OpeningBalance]
  /\ cooling = [a \in Accounts |-> {}]
  /\ call = [c \in Callers |-> NoCall]
  /\ outcome = [c \in Callers |-> "none"]

Start(c, op) ==
  /\ call[c] = NoCall
  /\ call' = [call EXCEPT ![c] = op]
  /\ outcome' = [outcome EXCEPT ![c] = "none"]
  /\ UNCHANGED <<user, bank, cooling>>

Add(op) ==
  /\ op.kind = "add"
  /\ user[op.acct].exists
  /\ CooldownFree(op, cooling[op.acct])
  /\ user' = [user EXCEPT ![op.acct] = Credit(@, @, op.amount)]
  /\ cooling' = [cooling EXCEPT ![op.acct] = @ \cup Claimed(op)]
  /\ UNCHANGED bank

Subtract(op) ==
  /\ op.kind = "subtract"
  /\ Affords(user[op.acct], op.amount)
  /\ CooldownFree(op, cooling[op.acct])
  /\ user' = [user EXCEPT ![op.acct] = Debit(@, @, op.amount)]
  /\ cooling' = [cooling EXCEPT ![op.acct] = @ \cup Claimed(op)]
  /\ UNCHANGED bank

Claim(op) ==
  /\ op.kind = "claim"
  /\ user[op.acct].exists
  /\ CooldownFree(op, cooling[op.acct])
  /\ cooling' = [cooling EXCEPT ![op.acct] = @ \cup Claimed(op)]
  /\ UNCHANGED <<user, bank>>

Deposit(op) ==
  /\ op.kind = "deposit"
  /\ Affords(user[op.acct], op.amount)
  /\ user' = [user EXCEPT ![op.acct] = MoveOut(@, @, op.amount)]
  /\ bank' = [bank EXCEPT ![op.acct[2]] = @ + op.amount]
  /\ UNCHANGED cooling

Withdraw(op) ==
  /\ op.kind = "withdraw"
  /\ bank[op.acct[2]] >= op.amount
  /\ user' = [user EXCEPT ![op.acct] = MoveIn(@, @, op.amount)]
  /\ bank' = [bank EXCEPT ![op.acct[2]] = @ - op.amount]
  /\ UNCHANGED cooling

Transfer(op) ==
  /\ op.kind = "transfer"
  /\ Affords(user[op.acct], op.amount)
  /\ user[op.peer].exists
  /\ user' = [user EXCEPT ![op.acct] = Debit(@, @, op.amount),
                          ![op.peer] = Credit(@, @, op.amount)]
  /\ UNCHANGED <<bank, cooling>>

Effect(op) ==
  Add(op) \/ Subtract(op) \/ Claim(op)
    \/ Deposit(op) \/ Withdraw(op) \/ Transfer(op)

Take(c) ==
  /\ call[c] # NoCall
  /\ outcome[c] = "none"
  /\ Effect(call[c])
  /\ outcome' = [outcome EXCEPT ![c] = "committed"]
  /\ UNCHANGED call

Reject(c) ==
  /\ call[c] # NoCall
  /\ outcome[c] = "none"
  /\ outcome' = [outcome EXCEPT ![c] = "threw"]
  /\ UNCHANGED <<user, bank, cooling, call>>

Return(c) ==
  /\ call[c] # NoCall
  /\ outcome[c] # "none"
  /\ call' = [call EXCEPT ![c] = NoCall]
  /\ outcome' = [outcome EXCEPT ![c] = "none"]
  /\ UNCHANGED <<user, bank, cooling>>

\* The bot process dies: what was in flight is forgotten.
Restart ==
  /\ call' = [c \in Callers |-> NoCall]
  /\ outcome' = [c \in Callers |-> "none"]
  /\ UNCHANGED <<user, bank, cooling>>

\* A user's first command in a guild creates the row with the starting money.
Enroll(a) ==
  /\ ~user[a].exists
  /\ user' = [user EXCEPT ![a] = StartingRow]
  /\ UNCHANGED <<bank, cooling, call, outcome>>

CooldownElapses(a, t) ==
  /\ t \in cooling[a]
  /\ cooling' = [cooling EXCEPT ![a] = @ \ {t}]
  /\ UNCHANGED <<user, bank, call, outcome>>

Next ==
  \/ \E c \in Callers : \/ \E op \in Calls : Start(c, op)
                        \/ Take(c)
                        \/ Reject(c)
                        \/ Return(c)
  \/ Restart
  \/ \E a \in Accounts : Enroll(a)
  \/ \E a \in Accounts, t \in CooldownTypes : CooldownElapses(a, t)

Spec == Init /\ [][Next]_ledgerVars
=============================================================================
