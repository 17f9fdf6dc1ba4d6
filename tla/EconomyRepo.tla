---------------------------- MODULE EconomyRepo -----------------------------
(***************************************************************************)
(* The atomic functions of apps/bot/src/config/repositories/EconomyRepo.ts *)
(* as the code runs them: withDistributedLock nests ValkeyClient.withLock  *)
(* around a Prisma transaction, which reads its rows one statement at a    *)
(* time, checks them, and writes ABSOLUTE values computed from what it     *)
(* read.  PostgreSQL runs the transaction at Read Committed: a read sees   *)
(* what is committed at that moment, takes no row lock, and nothing but    *)
(* the Valkey lock keeps two transactions from reading the same row.       *)
(***************************************************************************)
EXTENDS EconomyTypes, Sequences

CONSTANTS
  MaxRetries,      \* withDistributedLock's maxRetries (3)
  MaxCalls,        \* bound of the model: calls started in a behaviour
  LeaseCanLapse,   \* may a lock's TTL run out before its holder releases it?
  Free,            \* no value under the lock's key
  Orphan,          \* the key holds an ownerId that no running call has
  NoCall

ASSUME RepoAssumption ==
  /\ MaxRetries \in Nat
  /\ MaxCalls \in Nat
  /\ LeaseCanLapse \in BOOLEAN
  /\ Free \notin Callers \cup {Orphan}
  /\ Orphan \notin Callers
  /\ NoCall \notin Calls

VARIABLES
  user, bank, cooling, call, outcome,   \* as in AtomicLedger
  lock,      \* Valkey: the owner stored under every lock key
  pc,        \* where a call stands in withLock and in the transaction
  depth,     \* how many locks of its plan the call has acquired
  attempt,   \* refused attempts on the lock it is acquiring
  own,       \* the row of op.acct as the transaction read it
  peerRow,   \* the row of op.peer as the transaction read it
  balance,   \* the bank balance as the transaction read it
  started    \* calls started so far, at most MaxCalls

data  == <<user, bank, cooling>>
snapshot == <<own, peerRow, balance>>
locks == <<lock, depth, attempt>>
vars  == <<user, bank, cooling, call, outcome, lock, pc, depth, attempt,
           own, peerRow, balance, started>>

-----------------------------------------------------------------------------
(* The keys of locks.ts, all under keys.lock('economy', ...).              *)

UserLock(a)    == <<"user", a>>
BankLock(u)    == <<"bank", u>>
\* The two user ids are sorted: the key does not depend on who pays.
PairLock(a, b) == <<"transfer", {a, b}>>

LockKeys == {UserLock(a) : a \in Accounts}
            \cup {BankLock(u) : u \in Users}
            \cup {PairLock(a, b) : a \in Accounts, b \in Accounts}

\* Mutant: the pocket is left to the lock of the bank account.
BankLockOnly(op) ==
  IF op.kind \in {"deposit", "withdraw"}
    THEN <<BankLock(op.acct[2])>>
    ELSE <<UserLock(op.acct)>>

\* Mutant: the bank is left to the lock of the pocket.
UserLockOnly(op) == <<UserLock(op.acct)>>

LockPlan(op) ==
  IF op.kind \in {"deposit", "withdraw"}
    THEN <<BankLock(op.acct[2]), UserLock(op.acct)>>
    ELSE IF op.kind = "transfer"
           THEN <<PairLock(op.acct, op.peer)>>
           ELSE <<UserLock(op.acct)>>

NextLock(c) == LockPlan(call[c])[depth[c] + 1]
LastLock(c) == LockPlan(call[c])[depth[c]]

PCs == {"idle", "locking", "read", "read2", "write", "unlocking"}

Init ==
  /\ user \in [Accounts -> {NoRow, StartingRow}]
  /\ bank = [u \in Users |-> OpeningBalance]
  /\ cooling = [a \in Accounts |-> {}]
  /\ call = [c \in Callers |-> NoCall]
  /\ outcome = [c \in Callers |-> "none"]
  /\ lock = [k \in LockKeys |-> Free]
  /\ pc = [c \in Callers |-> "idle"]
  /\ depth = [c \in Callers |-> 0]
  /\ attempt = [c \in Callers |-> 0]
  /\ own = [c \in Callers |-> NoRow]
  /\ peerRow = [c \in Callers |-> NoRow]
  /\ balance = [c \in Callers |-> 0]
  /\ started = 0

-----------------------------------------------------------------------------
(* withLock: SET key owner EX ttl NX, at most 1 + MaxRetries times.        *)

Goto(c, l) == pc' = [pc EXCEPT ![c] = l]

Start(c, op) ==
  /\ pc[c] = "idle"
  /\ started < MaxCalls
  /\ started' = started + 1
  /\ call' = [call EXCEPT ![c] = op]
  /\ Goto(c, "locking")
  /\ UNCHANGED <<data, outcome, locks, snapshot>>

\* Mutant: SET without NX.
AcquireWithoutNX(c) ==
  /\ pc[c] = "locking"
  /\ lock' = [lock EXCEPT ![NextLock(c)] = c]
  /\ depth' = [depth EXCEPT ![c] = @ + 1]
  /\ attempt' = [attempt EXCEPT ![c] = 0]
  /\ Goto(c, IF depth[c] + 1 = Len(LockPlan(call[c])) THEN "read" ELSE "locking")
  /\ UNCHANGED <<data, call, outcome, snapshot, started>>

Acquire(c) ==
  /\ pc[c] = "locking"
  /\ lock[NextLock(c)] = Free
  /\ lock' = [lock EXCEPT ![NextLock(c)] = c]
  /\ depth' = [depth EXCEPT ![c] = @ + 1]
  /\ attempt' = [attempt EXCEPT ![c] = 0]
  /\ Goto(c, IF depth[c] + 1 = Len(LockPlan(call[c])) THEN "read" ELSE "locking")
  /\ UNCHANGED <<data, call, outcome, snapshot, started>>

\* Mutants: one attempt too many; retrying for ever.
RetryOnceMore(c) ==
  IF attempt[c] <= MaxRetries
    THEN /\ attempt' = [attempt EXCEPT ![c] = @ + 1]
         /\ UNCHANGED <<pc, outcome>>
    ELSE /\ attempt' = [attempt EXCEPT ![c] = 0]
         /\ outcome' = [outcome EXCEPT ![c] = "threw"]
         /\ Goto(c, "unlocking")

RetryForEver(c) == UNCHANGED <<attempt, pc, outcome>>

\* acquireLock answered false: back off and try again, or throw.
RetryOrThrow(c) ==
  IF attempt[c] < MaxRetries
    THEN /\ attempt' = [attempt EXCEPT ![c] = @ + 1]
         /\ UNCHANGED <<pc, outcome>>
    ELSE /\ attempt' = [attempt EXCEPT ![c] = 0]
         /\ outcome' = [outcome EXCEPT ![c] = "threw"]
         /\ Goto(c, "unlocking")

LockTaken(c) ==
  /\ pc[c] = "locking"
  /\ lock[NextLock(c)] # Free
  /\ RetryOrThrow(c)
  /\ UNCHANGED <<data, call, lock, depth, snapshot, started>>

\* An error of the SET reads as "not acquired".  The server may have applied
\* it: the key is then held by an ownerId whose own NX retries are refused.
LockCallFails(c) ==
  /\ pc[c] = "locking"
  /\ \/ UNCHANGED lock
     \/ /\ lock[NextLock(c)] = Free
        /\ lock' = [lock EXCEPT ![NextLock(c)] = Orphan]
  /\ RetryOrThrow(c)
  /\ UNCHANGED <<data, call, depth, snapshot, started>>

\* Mutant: the unconditional DEL of releaseLock without an ownerId.
ReleaseUnchecked(c) ==
  /\ pc[c] = "unlocking"
  /\ depth[c] > 0
  /\ lock' = [lock EXCEPT ![LastLock(c)] = Free]
  /\ depth' = [depth EXCEPT ![c] = @ - 1]
  /\ UNCHANGED <<data, call, outcome, pc, attempt, snapshot, started>>

\* Mutant: the release follows the callback instead of standing in a finally:
\* a call that throws leaves its keys behind.
ReleaseOnSuccess(c) ==
  /\ pc[c] = "unlocking"
  /\ depth[c] > 0
  /\ lock' = IF outcome[c] = "committed" /\ lock[LastLock(c)] = c
               THEN [lock EXCEPT ![LastLock(c)] = Free]
               ELSE lock
  /\ depth' = [depth EXCEPT ![c] = @ - 1]
  /\ UNCHANGED <<data, call, outcome, pc, attempt, snapshot, started>>

\* The finally of withLock, innermost lock first.  The script deletes the key
\* only if it still holds the caller's ownerId; an error is swallowed and
\* leaves the key to its TTL.
Release(c) ==
  /\ pc[c] = "unlocking"
  /\ depth[c] > 0
  /\ \/ lock' = IF lock[LastLock(c)] = c
                  THEN [lock EXCEPT ![LastLock(c)] = Free]
                  ELSE lock
     \/ lock' = IF lock[LastLock(c)] = c
                  THEN [lock EXCEPT ![LastLock(c)] = Orphan]
                  ELSE lock
  /\ depth' = [depth EXCEPT ![c] = @ - 1]
  /\ UNCHANGED <<data, call, outcome, pc, attempt, snapshot, started>>

Return(c) ==
  /\ pc[c] = "unlocking"
  /\ depth[c] = 0
  /\ Goto(c, "idle")
  /\ call' = [call EXCEPT ![c] = NoCall]
  /\ outcome' = [outcome EXCEPT ![c] = "none"]
  /\ own' = [own EXCEPT ![c] = NoRow]
  /\ peerRow' = [peerRow EXCEPT ![c] = NoRow]
  /\ balance' = [balance EXCEPT ![c] = 0]
  /\ UNCHANGED <<data, locks, started>>

\* The TTL of a key runs out.
Expire(k) ==
  /\ \/ lock[k] = Orphan
     \/ LeaseCanLapse /\ lock[k] \in Callers
  /\ lock' = [lock EXCEPT ![k] = Free]
  /\ UNCHANGED <<data, call, outcome, pc, depth, attempt, snapshot, started>>

-----------------------------------------------------------------------------
(* The transactions: reads and checks.                                     *)

Throw(c) ==
  /\ outcome' = [outcome EXCEPT ![c] = "threw"]
  /\ Goto(c, "unlocking")

\* Continue at l when the check holds, else throw out of the transaction.
Check(c, ok, l) ==
  IF ok THEN Goto(c, l) /\ UNCHANGED outcome ELSE Throw(c)

ReadsUser(c, l, ok) ==
  /\ own' = [own EXCEPT ![c] = user[call[c].acct]]
  /\ Check(c, ok, l)
  /\ UNCHANGED <<data, call, locks, peerRow, balance, started>>

ReadsBank(c, l, ok) ==
  /\ balance' = [balance EXCEPT ![c] = bank[call[c].acct[2]]]
  /\ Check(c, ok, l)
  /\ UNCHANGED <<data, call, locks, own, peerRow, started>>

\* Mutant: the cooldown is written but not checked.
ReadPocketRowUnchecked(c) ==
  /\ pc[c] = "read"
  /\ call[c].kind \in {"add", "subtract", "claim"}
  /\ ReadsUser(c, "write",
        /\ user[call[c].acct].exists
        /\ call[c].kind = "subtract" => Affords(user[call[c].acct], call[c].amount))

\* atomicAddPocket, atomicSubtractPocket, atomicClaimCooldown: findUnique, the
\* funds check of a subtraction, the cooldown check.
ReadPocketRow(c) ==
  LET op == call[c] IN
  /\ pc[c] = "read"
  /\ op.kind \in {"add", "subtract", "claim"}
  /\ ReadsUser(c, "write",
        /\ user[op.acct].exists
        /\ op.kind = "subtract" => Affords(user[op.acct], op.amount)
        /\ CooldownFree(op, cooling[op.acct]))

DepositReadsUser(c) ==
  /\ pc[c] = "read"
  /\ call[c].kind = "deposit"
  /\ ReadsUser(c, "read2", Affords(user[call[c].acct], call[c].amount))

DepositReadsBank(c) ==
  /\ pc[c] = "read2"
  /\ call[c].kind = "deposit"
  /\ ReadsBank(c, "write", TRUE)

\* Mutant: the balance is not checked.
WithdrawReadsBankUnchecked(c) ==
  /\ pc[c] = "read"
  /\ call[c].kind = "withdraw"
  /\ ReadsBank(c, "read2", TRUE)

WithdrawReadsBank(c) ==
  /\ pc[c] = "read"
  /\ call[c].kind = "withdraw"
  /\ ReadsBank(c, "read2", bank[call[c].acct[2]] >= call[c].amount)

\* An absent row is created by the transaction itself (see WithdrawWrites).
WithdrawReadsUser(c) ==
  /\ pc[c] = "read2"
  /\ call[c].kind = "withdraw"
  /\ ReadsUser(c, "write", TRUE)

TransferReadsFrom(c) ==
  /\ pc[c] = "read"
  /\ call[c].kind = "transfer"
  /\ ReadsUser(c, "read2", TRUE)

TransferReadsTo(c) ==
  LET op == call[c] IN
  /\ pc[c] = "read2"
  /\ op.kind = "transfer"
  /\ peerRow' = [peerRow EXCEPT ![c] = user[op.peer]]
  /\ Check(c, user[op.peer].exists /\ Affords(own[c], op.amount), "write")
  /\ UNCHANGED <<data, call, locks, own, balance, started>>

-----------------------------------------------------------------------------
(* The transactions: the updates and the commit.  A value that does not    *)
(* fit the Int column makes the update throw (TransactionFails).           *)

Committed(c) ==
  /\ outcome' = [outcome EXCEPT ![c] = "committed"]
  /\ Goto(c, "unlocking")
  /\ UNCHANGED <<call, locks, snapshot, started>>

\* update({where: a}) to a row whose columns all fit.
Writes(a, row) ==
  /\ row \in Rows
  /\ user' = [user EXCEPT ![a] = row]

WritesBank(u, value) ==
  /\ value \in IntColumn
  /\ bank' = [bank EXCEPT ![u] = value]

AddWrites(c) ==
  LET op == call[c] IN
  /\ pc[c] = "write"
  /\ op.kind = "add"
  /\ Writes(op.acct, Credit(user[op.acct], own[c], op.amount))
  /\ cooling' = [cooling EXCEPT ![op.acct] = @ \cup Claimed(op)]
  /\ UNCHANGED bank
  /\ Committed(c)

SubtractWrites(c) ==
  LET op == call[c] IN
  /\ pc[c] = "write"
  /\ op.kind = "subtract"
  /\ Writes(op.acct, Debit(user[op.acct], own[c], op.amount))
  /\ cooling' = [cooling EXCEPT ![op.acct] = @ \cup Claimed(op)]
  /\ UNCHANGED bank
  /\ Committed(c)

ClaimWrites(c) ==
  LET op == call[c] IN
  /\ pc[c] = "write"
  /\ op.kind = "claim"
  /\ cooling' = [cooling EXCEPT ![op.acct] = @ \cup Claimed(op)]
  /\ UNCHANGED <<user, bank>>
  /\ Committed(c)

DepositWrites(c) ==
  LET op == call[c] IN
  /\ pc[c] = "write"
  /\ op.kind = "deposit"
  /\ Writes(op.acct, MoveOut(user[op.acct], own[c], op.amount))
  /\ WritesBank(op.acct[2], balance[c] + op.amount)
  /\ UNCHANGED cooling
  /\ Committed(c)

\* The insert of a new row violates the unique key if the row was created
\* since the transaction looked.
WithdrawWrites(c) ==
  LET op == call[c] IN
  /\ pc[c] = "write"
  /\ op.kind = "withdraw"
  /\ ~own[c].exists => ~user[op.acct].exists
  /\ Writes(op.acct, MoveIn(user[op.acct], own[c], op.amount))
  /\ WritesBank(op.acct[2], balance[c] - op.amount)
  /\ UNCHANGED cooling
  /\ Committed(c)

TransferWrites(c) ==
  LET op == call[c]
      from == Debit(user[op.acct], own[c], op.amount)
      to == Credit(user[op.peer], peerRow[c], op.amount) IN
  /\ pc[c] = "write"
  /\ op.kind = "transfer"
  /\ from \in Rows
  /\ to \in Rows
  /\ user' = [user EXCEPT ![op.acct] = from, ![op.peer] = to]
  /\ UNCHANGED <<bank, cooling>>
  /\ Committed(c)

\* A statement, the commit or Prisma's own time limit fails: rolled back.
TransactionFails(c) ==
  /\ pc[c] \in {"read", "read2", "write"}
  /\ Throw(c)
  /\ UNCHANGED <<data, call, locks, snapshot, started>>

-----------------------------------------------------------------------------
(* The environment.                                                        *)

\* The bot dies: its calls are gone, open transactions roll back, and the
\* locks it held stay in Valkey until their TTL.
Crash ==
  /\ call' = [c \in Callers |-> NoCall]
  /\ outcome' = [c \in Callers |-> "none"]
  /\ pc' = [c \in Callers |-> "idle"]
  /\ depth' = [c \in Callers |-> 0]
  /\ attempt' = [c \in Callers |-> 0]
  /\ own' = [c \in Callers |-> NoRow]
  /\ peerRow' = [c \in Callers |-> NoRow]
  /\ balance' = [c \in Callers |-> 0]
  /\ lock' = [k \in LockKeys |-> IF lock[k] \in Callers THEN Orphan ELSE lock[k]]
  /\ UNCHANGED <<data, started>>

\* getOrCreateUser of some other command: no lock is taken, the unique key
\* makes a second creation fail.
Enroll(a) ==
  /\ ~user[a].exists
  /\ user' = [user EXCEPT ![a] = StartingRow]
  /\ UNCHANGED <<bank, cooling, call, outcome, pc, locks, snapshot, started>>

CooldownElapses(a, t) ==
  /\ t \in cooling[a]
  /\ cooling' = [cooling EXCEPT ![a] = @ \ {t}]
  /\ UNCHANGED <<user, bank, call, outcome, pc, locks, snapshot, started>>

Locking(c) == Acquire(c) \/ LockTaken(c) \/ LockCallFails(c)

Reading(c) ==
  \/ ReadPocketRow(c)
  \/ DepositReadsUser(c) \/ DepositReadsBank(c)
  \/ WithdrawReadsBank(c) \/ WithdrawReadsUser(c)
  \/ TransferReadsFrom(c) \/ TransferReadsTo(c)

Writing(c) ==
  \/ AddWrites(c) \/ SubtractWrites(c) \/ ClaimWrites(c)
  \/ DepositWrites(c) \/ WithdrawWrites(c) \/ TransferWrites(c)

Unlocking(c) == Release(c) \/ Return(c)

Progress(c) ==
  Locking(c) \/ Reading(c) \/ Writing(c) \/ TransactionFails(c) \/ Unlocking(c)

Next ==
  \/ \E c \in Callers : \/ \E op \in Calls : Start(c, op)
                        \/ Progress(c)
  \/ \E k \in LockKeys : Expire(k)
  \/ Crash
  \/ \E a \in Accounts : Enroll(a)
  \/ \E a \in Accounts, t \in CooldownTypes : CooldownElapses(a, t)

Spec == Init /\ [][Next]_vars

OrphanExpires(k) == lock[k] = Orphan /\ Expire(k)

\* A running async function is resumed by the event loop.  The TTL is counted
\* on for a key nobody is left to release; that a lease lapses under a living
\* holder may happen (LeaseCanLapse) and is never assumed to.
Fairness ==
  /\ \A c \in Callers : WF_vars(Progress(c))
  /\ \A k \in LockKeys : WF_vars(OrphanExpires(k))

FairSpec == Spec /\ Fairness

-----------------------------------------------------------------------------
(* Properties.                                                             *)

TypeOK ==
  /\ user \in [Accounts -> Rows]
  /\ bank \in [Users -> IntColumn]
  /\ cooling \in [Accounts -> SUBSET CooldownTypes]
  /\ call \in [Callers -> Calls \cup {NoCall}]
  /\ outcome \in [Callers -> {"none", "committed", "threw"}]
  /\ lock \in [LockKeys -> Callers \cup {Free, Orphan}]
  /\ pc \in [Callers -> PCs]
  /\ depth \in [Callers -> 0 .. 2]
  /\ attempt \in [Callers -> 0 .. MaxRetries]
  /\ own \in [Callers -> Rows]
  /\ peerRow \in [Callers -> Rows]
  /\ balance \in [Callers -> IntColumn]
  /\ started \in 0 .. MaxCalls

\* Where a transaction has read its own row, the peer's row, the balance.
ReadOwn(c) ==
  \/ pc[c] = "write"
  \/ pc[c] = "read2" /\ call[c].kind \in {"deposit", "transfer"}

ReadPeer(c) == pc[c] = "write" /\ call[c].kind = "transfer"

ReadBalance(c) ==
  \/ pc[c] = "write" /\ call[c].kind \in {"deposit", "withdraw"}
  \/ pc[c] = "read2" /\ call[c].kind = "withdraw"

OwnRowFresh(c) ==
  ReadOwn(c) /\ own[c].exists => own[c] = user[call[c].acct]

PeerRowFresh(c) ==
  ReadPeer(c) /\ peerRow[c].exists => peerRow[c] = user[call[c].peer]

BalanceFresh(c) ==
  ReadBalance(c) => balance[c] = bank[call[c].acct[2]]

\* Nobody spends more than the pocket or the bank holds: the balance checked is
\* the balance the update subtracts from.
NoOverdraft ==
  /\ \A a \in Accounts : user[a].pocket >= 0
  /\ \A u \in Users : bank[u] >= 0

\* No stale write: what an open transaction has read of the pockets, and will
\* write back as an absolute value, is still what the database holds.  This is
\* what "We also lock the per-guild user row to avoid races with other pocket
\* operations" asks of the locks (EconomyRepo.ts, atomicDeposit).
PocketSnapshotsFresh ==
  \A c \in Callers : OwnRowFresh(c) /\ PeerRowFresh(c)

\* The same for the bank, which is written from every guild the user is in:
\* "Global bank is keyed ONLY by userId, so we need a global lock".
BankSnapshotsFresh == \A c \in Callers : BalanceFresh(c)

\* Every call is atomic: it takes effect in one step, on current values, or
\* not at all ("ATOMIC" in EconomyService.ts).
Ledger == INSTANCE AtomicLedger WITH
            user <- user, bank <- bank, cooling <- cooling,
            call <- call, outcome <- outcome
LedgerSpec == Ledger!Spec

Commits(c) == outcome[c] = "none" /\ outcome'[c] = "committed"

\* A cooldown is claimed once per window, whatever else runs on the account:
\* nobody works, robs or commits a crime twice by racing two commands.
CooldownClaimedOnce ==
  [][\A c \in Callers :
        Commits(c) => call[c].cooldown \notin cooling[call[c].acct]]_vars

\* A call that lets go of its lock never frees a key somebody else holds by
\* now, even when its own lease ran out long ago (RELEASE_LOCK_SCRIPT).
NoForeignRelease ==
  [][\A c, d \in Callers : \A k \in LockKeys :
        (/\ c # d
         /\ lock[k] = c
         /\ pc[d] = "unlocking" /\ depth'[d] < depth[d]
         /\ pc'[d] = "unlocking")
        => lock'[k] = c]_vars

\* Every command gets an answer, success or error, however the locks are
\* contended: the retries are finite and nothing waits for ever.
CallsReturn == \A c \in Callers : pc[c] # "idle" ~> pc[c] = "idle"

\* No lock stays taken.  A key with a living holder comes free because that
\* call gets through its retries on the inner lock, its transaction and the
\* finally of withLock, thrown or not; the TTL has to help only with a key that
\* a crash, a lost answer to the SET or a failed release has orphaned.
LocksComeFree == \A k \in LockKeys : lock[k] # Free ~> lock[k] = Free
=============================================================================
