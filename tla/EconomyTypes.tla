---------------------------- MODULE EconomyTypes ----------------------------
(***************************************************************************)
(* The data of the economy: what a UserEconomy row holds, which calls the  *)
(* atomic functions of EconomyRepo.ts accept and what each of them does to *)
(* a row.  Shared by the abstract ledger (AtomicLedger) and by the         *)
(* implementation with distributed locks and transactions (EconomyRepo).   *)
(***************************************************************************)
EXTENDS Integers

CONSTANTS
  Guilds,         \* Discord servers: a pocket belongs to a user in a guild
  Users,          \* Discord users: the bank account is global to a user
  Callers,        \* command executions that may be in flight together
  Kinds,          \* the operations the commands call in this instance
  Amounts,        \* whole positive amounts the commands pass
  CooldownTypes,  \* "work" | "crime" | "rob"
  NoCooldown,     \* cooldownType === undefined
  StartingMoney,  \* economyConfig.startingMoney
  OpeningBalance, \* what the bank accounts hold when the bot starts
  MaxInt          \* the largest value an Int column stores

\* The functions that serialise on the lock of every pocket they touch.
UserLockedKinds == {"add", "subtract", "claim", "deposit", "withdraw"}

ASSUME KindsAssumption == Kinds \subseteq UserLockedKinds \cup {"transfer"}

ASSUME MoneyAssumption ==
  /\ Amounts \subseteq Nat \ {0}
  /\ StartingMoney \in Nat
  /\ MaxInt \in Nat
  /\ StartingMoney <= MaxInt
  /\ OpeningBalance \in 0 .. MaxInt

ASSUME CooldownAssumption == NoCooldown \notin CooldownTypes

Accounts == Guilds \X Users

\* PostgreSQL's Int, scaled down: signed, and a value outside it is an error.
IntColumn == -(MaxInt + 1) .. MaxInt

\* A row of UserEconomy; "exists" tells whether the row was created.
Rows == [exists : BOOLEAN, pocket : IntColumn,
         earned : IntColumn, lost : IntColumn]

NoRow == [exists |-> FALSE, pocket |-> 0, earned |-> 0, lost |-> 0]

\* The row getOrCreateUser creates.
StartingRow == [NoRow EXCEPT !.exists = TRUE, !.pocket = StartingMoney]

(***************************************************************************)
(* One call of an atomic function.  A claim moves no money (amount 0); a   *)
(* transfer names another user of the same guild; the functions with a     *)
(* cooldownType parameter may be asked to claim that cooldown.             *)
(***************************************************************************)
Call == [kind : Kinds, acct : Accounts, peer : Accounts,
         amount : Amounts \cup {0}, cooldown : CooldownTypes \cup {NoCooldown}]

LegalCall(op) ==
  /\ (op.kind = "claim") <=> (op.amount = 0)
  /\ (op.kind = "transfer") <=> (op.peer # op.acct)
  /\ op.peer[1] = op.acct[1]
  /\ op.kind = "claim" => op.cooldown # NoCooldown
  /\ op.kind \in {"deposit", "withdraw", "transfer"} => op.cooldown = NoCooldown

Calls == {op \in Call : LegalCall(op)}

\* What the updates write over the current row: absolute values computed from
\* the row the transaction has read; the columns they do not name keep theirs.
Credit(current, read, amount) ==
  [current EXCEPT !.pocket = read.pocket + amount,
                  !.earned = read.earned + amount]

Debit(current, read, amount) ==
  [current EXCEPT !.pocket = read.pocket - amount,
                  !.lost = read.lost + amount]

MoveIn(current, read, amount) ==
  [current EXCEPT !.exists = TRUE, !.pocket = read.pocket + amount]

MoveOut(current, read, amount) ==
  [current EXCEPT !.pocket = read.pocket - amount]

\* The cooldown an accepted call leaves running.
Claimed(op) == IF op.cooldown = NoCooldown THEN {} ELSE {op.cooldown}

\* The checks of the functions, on the values they have read.
CooldownFree(op, running) == op.cooldown \notin running
Affords(row, amount) == row.exists /\ row.pocket >= amount
=============================================================================
