------------------------- MODULE EconomyRepoProofs --------------------------
(***************************************************************************)
(* Theorems about EconomyRepo for every number of guilds, users, callers   *)
(* and calls, every amount and every retry limit.                          *)
(***************************************************************************)
EXTENDS EconomyRepo, TLAPS

-----------------------------------------------------------------------------
(* Where a call stands determines its locks, its arguments and its outcome.*)

InTx(c) == pc[c] \in {"read", "read2", "write"}

ControlOK(c) ==
  /\ pc[c] = "idle" => call[c] = NoCall /\ depth[c] = 0
  /\ pc[c] # "idle" => call[c] \in Calls /\ depth[c] <= Len(LockPlan(call[c]))
  /\ pc[c] = "locking" => depth[c] < Len(LockPlan(call[c]))
  /\ InTx(c) => depth[c] = Len(LockPlan(call[c]))
  /\ pc[c] = "read2" => call[c].kind \in {"deposit", "withdraw", "transfer"}
  /\ (pc[c] = "unlocking") <=> (outcome[c] # "none")

Control == \A c \in Callers : ControlOK(c)

TypeInv == TypeOK /\ Control

\* A plan names one or two different keys; the lock of the account is the last
\* one unless the call is a transfer, the lock of the bank account the first.
LEMMA PlanShape ==
  ASSUME NEW op \in Calls
  PROVE  /\ Len(LockPlan(op)) \in 1 .. 2
         /\ \A i \in 1 .. Len(LockPlan(op)) : LockPlan(op)[i] \in LockKeys
         /\ \A i, j \in 1 .. Len(LockPlan(op)) :
               LockPlan(op)[i] = LockPlan(op)[j] => i = j
         /\ op.kind # "transfer" =>
               LockPlan(op)[Len(LockPlan(op))] = UserLock(op.acct)
         /\ op.kind \in {"deposit", "withdraw"} =>
               LockPlan(op)[1] = BankLock(op.acct[2])
<1> op.acct \in Accounts /\ op.peer \in Accounts /\ op.acct[2] \in Users
  BY DEF Calls, Call, Accounts
<1>1. CASE op.kind \in {"deposit", "withdraw"}
  BY <1>1 DEF LockPlan, LockKeys, UserLock, BankLock
<1>2. CASE op.kind = "transfer"
  BY <1>2 DEF LockPlan, LockKeys, PairLock
<1>3. CASE op.kind \notin {"deposit", "withdraw", "transfer"}
  BY <1>3 DEF LockPlan, LockKeys, UserLock
<1> QED BY <1>1, <1>2, <1>3

\* The fields of a call.
LEMMA CallFields ==
  ASSUME NEW op \in Calls
  PROVE  /\ op.acct \in Accounts /\ op.peer \in Accounts
         /\ op.acct[2] \in Users
         /\ op.kind \in Kinds
         /\ op.amount \in Nat
         /\ op.cooldown \in CooldownTypes \cup {NoCooldown}
         /\ Claimed(op) \in SUBSET CooldownTypes
<1>1. /\ op.acct \in Guilds \X Users /\ op.peer \in Guilds \X Users
      /\ op.kind \in Kinds
      /\ op.amount \in Amounts \cup {0}
      /\ op.cooldown \in CooldownTypes \cup {NoCooldown}
  BY DEF Calls, Call, Accounts
<1>2. op.amount \in Nat
  BY <1>1, MoneyAssumption
<1>3. op.acct[2] \in Users
  BY <1>1
<1>4. Claimed(op) \in SUBSET CooldownTypes
  BY <1>1 DEF Claimed
<1> QED BY <1>1, <1>2, <1>3, <1>4 DEF Accounts

\* The rows a fresh database holds fit the columns.
LEMMA OpeningRows == NoRow \in Rows /\ StartingRow \in Rows
<1>1. 0 \in IntColumn /\ StartingMoney \in IntColumn
  BY MoneyAssumption DEF IntColumn
<1> QED BY <1>1 DEF Rows, NoRow, StartingRow

LEMMA InitTypeInv == Init => TypeInv
<1> SUFFICES ASSUME Init PROVE TypeInv
  OBVIOUS
<1>1. TypeOK
  BY OpeningRows, MoneyAssumption, RepoAssumption
     DEF Init, TypeOK, PCs, IntColumn
<1>2. Control
  BY DEF Init, Control, ControlOK, InTx
<1> QED BY <1>1, <1>2 DEF TypeInv

-----------------------------------------------------------------------------
(* Type correctness is preserved by every step.                            *)

LEMMA LockingTypeInv ==
  ASSUME TypeInv, NEW c \in Callers, Locking(c)
  PROVE  TypeInv'
<1> USE RepoAssumption DEF TypeInv, Control, ControlOK, InTx, Locking
<1>1. call[c] \in Calls /\ pc[c] = "locking"
  BY DEF Acquire, LockTaken, LockCallFails
<1>2. CASE Acquire(c)
  <2> DEFINE n == Len(LockPlan(call[c]))
  <2>1. n \in 1 .. 2 /\ depth[c] \in 0 .. 2 /\ depth[c] < n
    BY <1>1, PlanShape DEF TypeOK
  <2>2. /\ lock' = [lock EXCEPT ![NextLock(c)] = c]
        /\ depth' = [depth EXCEPT ![c] = @ + 1]
        /\ attempt' = [attempt EXCEPT ![c] = 0]
        /\ pc' = [pc EXCEPT ![c] = IF depth[c] + 1 = n THEN "read" ELSE "locking"]
        /\ UNCHANGED <<data, call, outcome, snapshot, started>>
    BY <1>2 DEF Acquire, Goto
  <2> HIDE DEF n
  <2>3. TypeOK'
    <3>1. /\ lock' \in [LockKeys -> Callers \cup {Free, Orphan}]
          /\ pc' \in [Callers -> PCs]
      BY <2>2 DEF TypeOK, PCs
    <3>2. depth' \in [Callers -> 0 .. 2]
      BY <2>1, <2>2 DEF TypeOK
    <3>3. attempt' \in [Callers -> 0 .. MaxRetries]
      BY <2>2 DEF TypeOK
    <3> QED BY <2>2, <3>1, <3>2, <3>3 DEF TypeOK, data, snapshot
  <2>4. Control'
    <3> SUFFICES ASSUME NEW d \in Callers PROVE ControlOK(d)'
      BY DEF Control
    <3>1. CASE d = c
      BY <1>1, <2>1, <2>2, <3>1 DEF TypeOK, n
    <3>2. CASE d # c
      BY <2>2, <3>2 DEF TypeOK
    <3> QED BY <3>1, <3>2
  <2> QED BY <2>3, <2>4
<1>3. CASE LockTaken(c) \/ LockCallFails(c)
  <2>1. /\ UNCHANGED <<data, call, depth, snapshot, started>>
        /\ lock' \in [LockKeys -> Callers \cup {Free, Orphan}]
        /\ pc[c] = "locking"
        /\ RetryOrThrow(c)
    BY <1>3 DEF LockTaken, LockCallFails, TypeOK
  <2>2. TypeOK'
    <3>1. /\ outcome' \in [Callers -> {"none", "committed", "threw"}]
          /\ pc' \in [Callers -> PCs]
      BY <2>1 DEF RetryOrThrow, Goto, TypeOK, PCs
    <3>2. attempt' \in [Callers -> 0 .. MaxRetries]
      <4>1. attempt \in [Callers -> 0 .. MaxRetries]
        BY DEF TypeOK
      <4>2. CASE attempt[c] < MaxRetries
        <5>1. attempt' = [attempt EXCEPT ![c] = @ + 1]
          BY <2>1, <4>2 DEF RetryOrThrow
        <5>2. attempt[c] + 1 \in 0 .. MaxRetries
          BY <4>1, <4>2
        <5> QED BY <4>1, <5>1, <5>2
      <4>3. CASE ~(attempt[c] < MaxRetries)
        <5>1. attempt' = [attempt EXCEPT ![c] = 0]
          BY <2>1, <4>3 DEF RetryOrThrow
        <5> QED BY <4>1, <5>1
      <4> QED BY <4>2, <4>3
    <3> QED BY <2>1, <3>1, <3>2 DEF TypeOK, data, snapshot
  <2>3. Control'
    <3> SUFFICES ASSUME NEW d \in Callers PROVE ControlOK(d)'
      BY DEF Control
    <3>1. CASE d = c
      BY <1>1, <2>1, <3>1 DEF RetryOrThrow, TypeOK, Goto
    <3>2. CASE d # c
      BY <2>1, <3>2 DEF RetryOrThrow, TypeOK, Goto
    <3> QED BY <3>1, <3>2
  <2> QED BY <2>2, <2>3
<1> QED BY <1>2, <1>3

LEMMA UnlockingTypeInv ==
  ASSUME TypeInv, NEW c \in Callers, Unlocking(c)
  PROVE  TypeInv'
<1> USE RepoAssumption DEF TypeInv, Control, ControlOK, InTx, Unlocking
<1>1. call[c] \in Calls /\ pc[c] = "unlocking"
  BY DEF Release, Return
<1>2. CASE Release(c)
  <2>1. /\ lock' \in [LockKeys -> Callers \cup {Free, Orphan}]
        /\ depth[c] > 0
        /\ depth' = [depth EXCEPT ![c] = @ - 1]
        /\ UNCHANGED <<data, call, outcome, pc, attempt, snapshot, started>>
    BY <1>2 DEF Release, TypeOK
  <2>2. TypeOK'
    BY <2>1 DEF TypeOK, data, snapshot
  <2>3. Control'
    <3> SUFFICES ASSUME NEW d \in Callers PROVE ControlOK(d)'
      BY DEF Control
    <3>1. Len(LockPlan(call[c])) \in Nat
      <4>1. Len(LockPlan(call[c])) \in 1 .. 2
        BY <1>1, PlanShape
      <4> QED BY <4>1
    <3>b. depth[c] \in Nat /\ depth'[c] = depth[c] - 1
      BY <2>1 DEF TypeOK
    <3>2. CASE d = c
      <4>1. /\ call'[c] = call[c] /\ pc'[c] = "unlocking"
            /\ outcome'[c] = outcome[c] /\ outcome[c] # "none"
            /\ depth[c] <= Len(LockPlan(call[c]))
        BY <1>1, <2>1
      <4> QED BY <1>1, <3>1, <3>b, <3>2, <4>1
    <3>3. CASE d # c
      BY <2>1, <3>3 DEF TypeOK
    <3> QED BY <3>2, <3>3
  <2> QED BY <2>2, <2>3
<1>3. CASE Return(c)
  BY <1>1, <1>3, OpeningRows, MoneyAssumption
     DEF Return, TypeOK, Goto, PCs, data, locks, IntColumn
<1> QED BY <1>2, <1>3

\* What the reads of a transaction have in common.
ReadStep(c) ==
  /\ pc[c] \in {"read", "read2"}
  /\ UNCHANGED <<data, call, locks, started>>
  /\ own' \in [Callers -> Rows]
  /\ peerRow' \in [Callers -> Rows]
  /\ balance' \in [Callers -> IntColumn]
  /\ \/ /\ pc' = [pc EXCEPT ![c] = "read2"]
        /\ call[c].kind \in {"deposit", "withdraw", "transfer"}
        /\ UNCHANGED outcome
     \/ /\ pc' = [pc EXCEPT ![c] = "write"]
        /\ UNCHANGED outcome
     \/ /\ pc' = [pc EXCEPT ![c] = "unlocking"]
        /\ outcome' = [outcome EXCEPT ![c] = "threw"]

LEMMA ReadingIsReadStep ==
  ASSUME TypeInv, NEW c \in Callers, Reading(c)
  PROVE  ReadStep(c)
<1>1. call[c] \in Calls
  BY DEF TypeInv, Control, ControlOK, Reading, ReadPocketRow,
         DepositReadsUser, DepositReadsBank, WithdrawReadsBank,
         WithdrawReadsUser, TransferReadsFrom, TransferReadsTo
<1>2. /\ user[call[c].acct] \in Rows /\ user[call[c].peer] \in Rows
      /\ bank[call[c].acct[2]] \in IntColumn
  BY <1>1, CallFields DEF TypeInv, TypeOK
<1> USE <1>2 DEF ReadStep, ReadsUser, ReadsBank, Check, Throw, Goto,
                 TypeInv, TypeOK
<1>3. CASE ReadPocketRow(c)
  BY <1>3 DEF ReadPocketRow
<1>4. CASE DepositReadsUser(c)
  BY <1>4 DEF DepositReadsUser
<1>5. CASE DepositReadsBank(c)
  BY <1>5 DEF DepositReadsBank
<1>6. CASE WithdrawReadsBank(c)
  BY <1>6 DEF WithdrawReadsBank
<1>7. CASE WithdrawReadsUser(c)
  BY <1>7 DEF WithdrawReadsUser
<1>8. CASE TransferReadsFrom(c)
  BY <1>8 DEF TransferReadsFrom
<1>9. CASE TransferReadsTo(c)
  BY <1>9 DEF TransferReadsTo
<1> QED BY <1>3, <1>4, <1>5, <1>6, <1>7, <1>8, <1>9 DEF Reading

\* What the commits have in common.
CommitStep(c) ==
  /\ pc[c] = "write"
  /\ pc' = [pc EXCEPT ![c] = "unlocking"]
  /\ outcome' = [outcome EXCEPT ![c] = "committed"]
  /\ UNCHANGED <<call, locks, snapshot, started>>
  /\ user' \in [Accounts -> Rows]
  /\ bank' \in [Users -> IntColumn]
  /\ cooling' \in [Accounts -> SUBSET CooldownTypes]

LEMMA WritingIsCommitStep ==
  ASSUME TypeInv, NEW c \in Callers, Writing(c)
  PROVE  CommitStep(c)
<1>1. call[c] \in Calls
  BY DEF TypeInv, Control, ControlOK, Writing, AddWrites, SubtractWrites,
         ClaimWrites, DepositWrites, WithdrawWrites, TransferWrites
<1>2. Claimed(call[c]) \in SUBSET CooldownTypes
  BY <1>1, CallFields
<1> USE <1>2 DEF CommitStep, Committed, Goto, Writes, WritesBank,
                 TypeInv, TypeOK
<1>3. CASE AddWrites(c)
  BY <1>3 DEF AddWrites
<1>4. CASE SubtractWrites(c)
  BY <1>4 DEF SubtractWrites
<1>5. CASE ClaimWrites(c)
  BY <1>5 DEF ClaimWrites
<1>6. CASE DepositWrites(c)
  BY <1>6 DEF DepositWrites
<1>7. CASE WithdrawWrites(c)
  BY <1>7 DEF WithdrawWrites
<1>8. CASE TransferWrites(c)
  BY <1>8 DEF TransferWrites
<1> QED BY <1>3, <1>4, <1>5, <1>6, <1>7, <1>8 DEF Writing

LEMMA TransactionTypeInv ==
  ASSUME TypeInv, NEW c \in Callers,
         ReadStep(c) \/ CommitStep(c) \/ TransactionFails(c)
  PROVE  TypeInv'
<1>1. InTx(c) /\ UNCHANGED <<call, locks, started>>
  BY DEF ReadStep, CommitStep, TransactionFails, InTx
<1>2. /\ pc' \in [Callers -> PCs]
      /\ outcome' \in [Callers -> {"none", "committed", "threw"}]
  BY DEF ReadStep, CommitStep, TransactionFails, Throw, Goto, TypeInv, TypeOK, PCs
<1>3. /\ user' \in [Accounts -> Rows]
      /\ bank' \in [Users -> IntColumn]
      /\ cooling' \in [Accounts -> SUBSET CooldownTypes]
      /\ own' \in [Callers -> Rows]
      /\ peerRow' \in [Callers -> Rows]
      /\ balance' \in [Callers -> IntColumn]
  BY DEF ReadStep, CommitStep, TransactionFails, TypeInv, TypeOK, data, snapshot
<1>4. TypeOK'
  BY <1>1, <1>2, <1>3 DEF TypeInv, TypeOK, locks
<1>5. Control'
  <2> SUFFICES ASSUME NEW d \in Callers PROVE ControlOK(d)'
    BY DEF Control
  <2>1. ControlOK(d) /\ ControlOK(c)
    BY DEF TypeInv, Control
  <2>2. /\ call'[d] = call[d] /\ depth'[d] = depth[d]
    BY <1>1 DEF locks
  <2>3. CASE d # c
    <3>1. pc'[d] = pc[d] /\ outcome'[d] = outcome[d]
      BY <2>3 DEF ReadStep, CommitStep, TransactionFails, Throw, Goto, TypeInv, TypeOK
    <3> QED BY <2>1, <2>2, <3>1 DEF ControlOK, InTx
  <2>4. CASE d = c
    <3>1. \/ pc'[c] = "read2" /\ outcome'[c] = outcome[c]
             /\ call[c].kind \in {"deposit", "withdraw", "transfer"}
          \/ pc'[c] = "write" /\ outcome'[c] = outcome[c]
          \/ pc'[c] = "unlocking" /\ outcome'[c] \in {"committed", "threw"}
      BY DEF ReadStep, CommitStep, TransactionFails, Throw, Goto, TypeInv, TypeOK
    <3>2. /\ call[c] \in Calls /\ depth[c] = Len(LockPlan(call[c]))
          /\ depth[c] <= Len(LockPlan(call[c]))
          /\ outcome[c] = "none"
      BY <1>1, <2>1 DEF ControlOK, InTx
    <3> QED BY <2>2, <2>4, <3>1, <3>2 DEF ControlOK, InTx
  <2> QED BY <2>3, <2>4
<1> QED BY <1>4, <1>5 DEF TypeInv

LEMMA StartTypeInv ==
  ASSUME TypeInv, NEW c \in Callers, NEW op \in Calls, Start(c, op)
  PROVE  TypeInv'
<1>1. TypeOK'
  BY RepoAssumption
     DEF Start, Goto, TypeInv, TypeOK, PCs, data, locks, snapshot
<1>2. Control'
  <2> SUFFICES ASSUME NEW d \in Callers PROVE ControlOK(d)'
    BY DEF Control
  <2>1. ControlOK(d) /\ ControlOK(c)
    BY DEF TypeInv, Control
  <2>2. CASE d # c
    BY <2>1, <2>2 DEF Start, Goto, ControlOK, InTx, locks, TypeInv, TypeOK
  <2>3. CASE d = c
    <3>1. /\ call'[c] = op /\ pc'[c] = "locking" /\ depth'[c] = 0
          /\ outcome'[c] = "none"
      BY <2>1 DEF Start, Goto, ControlOK, locks, TypeInv, TypeOK
    <3>2. Len(LockPlan(op)) \in 1 .. 2
      BY PlanShape
    <3> QED BY <2>3, <3>1, <3>2 DEF ControlOK, InTx
  <2> QED BY <2>2, <2>3
<1> QED BY <1>1, <1>2 DEF TypeInv

LEMMA EnvironmentTypeInv ==
  ASSUME TypeInv,
         \/ \E k \in LockKeys : Expire(k)
         \/ Crash
         \/ \E a \in Accounts : Enroll(a)
         \/ \E a \in Accounts, t \in CooldownTypes : CooldownElapses(a, t)
         \/ UNCHANGED vars
  PROVE  TypeInv'
<1>1. CASE \E k \in LockKeys : Expire(k)
  BY <1>1 DEF Expire, TypeInv, TypeOK, Control, ControlOK, InTx, data, snapshot
<1>2. CASE Crash
  <2>1. TypeOK'
    BY <1>2, OpeningRows, RepoAssumption, MoneyAssumption
       DEF Crash, TypeInv, TypeOK, PCs, data, IntColumn
  <2>2. Control'
    BY <1>2 DEF Crash, Control, ControlOK, InTx
  <2> QED BY <2>1, <2>2 DEF TypeInv
<1>3. CASE \E a \in Accounts : Enroll(a)
  BY <1>3, OpeningRows
     DEF Enroll, TypeInv, TypeOK, Control, ControlOK, InTx, locks, snapshot
<1>4. CASE \E a \in Accounts, t \in CooldownTypes : CooldownElapses(a, t)
  BY <1>4
     DEF CooldownElapses, TypeInv, TypeOK, Control, ControlOK, InTx, locks, snapshot
<1>5. CASE UNCHANGED vars
  BY <1>5 DEF vars, TypeInv, TypeOK, Control, ControlOK, InTx
<1> QED BY <1>1, <1>2, <1>3, <1>4, <1>5

LEMMA NextTypeInv == TypeInv /\ [Next]_vars => TypeInv'
<1> SUFFICES ASSUME TypeInv, [Next]_vars PROVE TypeInv'
  OBVIOUS
<1>1. CASE \E c \in Callers, op \in Calls : Start(c, op)
  BY <1>1, StartTypeInv
<1>2. CASE \E c \in Callers : Progress(c)
  BY <1>2, LockingTypeInv, UnlockingTypeInv, ReadingIsReadStep,
     WritingIsCommitStep, TransactionTypeInv DEF Progress
<1>3. CASE \/ \E k \in LockKeys : Expire(k)
           \/ Crash
           \/ \E a \in Accounts : Enroll(a)
           \/ \E a \in Accounts, t \in CooldownTypes : CooldownElapses(a, t)
           \/ UNCHANGED vars
  BY <1>3, EnvironmentTypeInv
<1> QED BY <1>1, <1>2, <1>3 DEF Next

\* Every variable keeps its type, and a call that stands in the lock protocol
\* or in a transaction has legal arguments and holds as many locks as its plan
\* asks for (withDistributedLock around prisma.$transaction).
THEOREM TypeCorrect == Spec => [](TypeOK /\ Control)
<1>1. Init => TypeInv
  BY InitTypeInv
<1>2. TypeInv /\ [Next]_vars => TypeInv'
  BY NextTypeInv
<1>3. TypeInv => TypeOK /\ Control
  BY DEF TypeInv
<1> QED BY <1>1, <1>2, <1>3, PTL DEF Spec

-----------------------------------------------------------------------------
(* Nobody overdraws.  What a transaction has read is not negative, and past *)
(* its check it covers the amount; the update subtracts from that very      *)
(* value, so neither stale reads nor lost leases can make it negative.      *)

Covered(c) ==
  /\ own[c].pocket >= 0
  /\ peerRow[c].pocket >= 0
  /\ balance[c] >= 0
  /\ pc[c] = "write" /\ call[c].kind \in {"subtract", "deposit", "transfer"}
       => own[c].pocket >= call[c].amount
  /\ pc[c] = "read2" /\ call[c].kind = "deposit"
       => own[c].pocket >= call[c].amount
  /\ pc[c] \in {"read2", "write"} /\ call[c].kind = "withdraw"
       => balance[c] >= call[c].amount

FundsInv == NoOverdraft /\ \A c \in Callers : Covered(c)

LEMMA InitFunds == Init => FundsInv
<1> SUFFICES ASSUME Init PROVE FundsInv
  OBVIOUS
<1>1. NoRow.pocket = 0 /\ StartingRow.pocket = StartingMoney
  BY DEF NoRow, StartingRow
<1>2. \A a \in Accounts : user[a].pocket \in {0, StartingMoney}
  BY <1>1 DEF Init
<1>3. NoOverdraft
  BY <1>2, MoneyAssumption DEF Init, NoOverdraft
<1>4. \A c \in Callers : Covered(c)
  BY <1>1 DEF Init, Covered
<1> QED BY <1>3, <1>4 DEF FundsInv

\* Reads keep the funds covered.
LEMMA ReadingFunds ==
  ASSUME TypeInv, FundsInv, NEW c \in Callers, Reading(c)
  PROVE  FundsInv'
<1>1. call[c] \in Calls
  BY DEF TypeInv, Control, ControlOK, Reading, ReadPocketRow,
         DepositReadsUser, DepositReadsBank, WithdrawReadsBank,
         WithdrawReadsUser, TransferReadsFrom, TransferReadsTo
<1>2. /\ user[call[c].acct].pocket >= 0 /\ user[call[c].peer].pocket >= 0
      /\ bank[call[c].acct[2]] >= 0
  BY <1>1, CallFields DEF FundsInv, NoOverdraft
<1>3. ReadStep(c)
  BY ReadingIsReadStep
<1>4. NoOverdraft'
  BY <1>3 DEF ReadStep, data, FundsInv, NoOverdraft
<1>5. ASSUME NEW d \in Callers PROVE Covered(d)'
  <2>1. Covered(d)
    BY DEF FundsInv
  <2>2. CASE d # c
    <3>1. /\ pc'[d] = pc[d] /\ call'[d] = call[d] /\ own'[d] = own[d]
          /\ peerRow'[d] = peerRow[d] /\ balance'[d] = balance[d]
      BY <1>3, <2>2
         DEF ReadStep, Reading, ReadPocketRow, DepositReadsUser, DepositReadsBank,
             WithdrawReadsBank, WithdrawReadsUser, TransferReadsFrom,
             TransferReadsTo, ReadsUser, ReadsBank, TypeInv, TypeOK
    <3> QED BY <2>1, <3>1 DEF Covered
  <2>3. CASE d = c
    <3> USE <1>2, <2>1 DEF ReadsUser, ReadsBank, Check, Throw, Goto,
                           TypeInv, TypeOK, Covered, Affords
    <3>1. CASE ReadPocketRow(c)
      BY <2>3, <3>1 DEF ReadPocketRow
    <3>2. CASE DepositReadsUser(c)
      BY <2>3, <3>2 DEF DepositReadsUser
    <3>3. CASE DepositReadsBank(c)
      BY <2>3, <3>3 DEF DepositReadsBank
    <3>4. CASE WithdrawReadsBank(c)
      BY <2>3, <3>4 DEF WithdrawReadsBank
    <3>5. CASE WithdrawReadsUser(c)
      BY <2>3, <3>5 DEF WithdrawReadsUser
    <3>6. CASE TransferReadsFrom(c)
      BY <2>3, <3>6 DEF TransferReadsFrom
    <3>7. CASE TransferReadsTo(c)
      BY <2>3, <3>7 DEF TransferReadsTo
    <3> QED BY <3>1, <3>2, <3>3, <3>4, <3>5, <3>6, <3>7 DEF Reading
  <2> QED BY <2>2, <2>3
<1> QED BY <1>4, <1>5 DEF FundsInv

\* Commits write what is left of covered funds.
LEMMA WritingFunds ==
  ASSUME TypeInv, FundsInv, NEW c \in Callers, Writing(c)
  PROVE  FundsInv'
<1>1. CommitStep(c)
  BY WritingIsCommitStep
<1>2. call[c] \in Calls /\ Covered(c)
  BY <1>1 DEF CommitStep, TypeInv, Control, ControlOK, FundsInv
<1>3. /\ call[c].acct \in Accounts /\ call[c].peer \in Accounts
      /\ call[c].acct[2] \in Users /\ call[c].amount \in Nat
  BY <1>2, CallFields
<1>4. /\ own[c] \in Rows /\ peerRow[c] \in Rows /\ balance[c] \in Int
      /\ own[c].pocket \in Int /\ peerRow[c].pocket \in Int
  BY MoneyAssumption DEF TypeInv, TypeOK, Rows, IntColumn
<1>5. NoOverdraft'
  <2> USE <1>2, <1>3, <1>4 DEF Covered, NoOverdraft, FundsInv, Writes,
          WritesBank, TypeInv, TypeOK, Rows
  <2>1. CASE AddWrites(c)
    BY <2>1 DEF AddWrites, Credit
  <2>2. CASE SubtractWrites(c)
    BY <2>2 DEF SubtractWrites, Debit
  <2>3. CASE ClaimWrites(c)
    BY <2>3 DEF ClaimWrites
  <2>4. CASE DepositWrites(c)
    BY <2>4 DEF DepositWrites, MoveOut
  <2>5. CASE WithdrawWrites(c)
    BY <2>5 DEF WithdrawWrites, MoveIn
  <2>6. CASE TransferWrites(c)
    <3> DEFINE from == Debit(user[call[c].acct], own[c], call[c].amount)
               to == Credit(user[call[c].peer], peerRow[c], call[c].amount)
    <3>1. /\ user' = [user EXCEPT ![call[c].acct] = from, ![call[c].peer] = to]
          /\ UNCHANGED bank
          /\ call[c].kind = "transfer" /\ pc[c] = "write"
      BY <2>6 DEF TransferWrites
    <3>2. /\ from.pocket = own[c].pocket - call[c].amount
          /\ to.pocket = peerRow[c].pocket + call[c].amount
      BY DEF Debit, Credit
    <3>3. from.pocket >= 0 /\ to.pocket >= 0
      BY <3>1, <3>2
    <3> HIDE DEF from, to
    <3>4. \A a \in Accounts : user'[a] \in {user[a], from, to}
      BY <3>1
    <3> QED BY <3>1, <3>3, <3>4
  <2> QED BY <2>1, <2>2, <2>3, <2>4, <2>5, <2>6 DEF Writing
<1>6. ASSUME NEW d \in Callers PROVE Covered(d)'
  <2>1. Covered(d)
    BY DEF FundsInv
  <2>2. /\ pc'[d] = pc[d] \/ pc'[d] = "unlocking"
        /\ UNCHANGED <<call, own, peerRow, balance>>
    BY <1>1 DEF CommitStep, snapshot, TypeInv, TypeOK
  <2> QED BY <2>1, <2>2 DEF Covered
<1> QED BY <1>5, <1>6 DEF FundsInv

LEMMA NextFunds == TypeInv /\ FundsInv /\ [Next]_vars => FundsInv'
<1> SUFFICES ASSUME TypeInv, FundsInv, [Next]_vars PROVE FundsInv'
  OBVIOUS
<1>1. ASSUME NEW c \in Callers, Reading(c) \/ Writing(c) PROVE FundsInv'
  BY <1>1, ReadingFunds, WritingFunds
<1>2. ASSUME NEW c \in Callers,
             \/ \E op \in Calls : Start(c, op)
             \/ Locking(c) \/ TransactionFails(c) \/ Release(c)
      PROVE FundsInv'
  <2>1. /\ UNCHANGED <<data, snapshot>>
        /\ \A d \in Callers :
              \/ pc'[d] = pc[d] /\ call'[d] = call[d]
              \/ pc'[d] \in {"locking", "read", "unlocking"}
    BY <1>2 DEF Start, Locking, Acquire, LockTaken, LockCallFails, RetryOrThrow,
                TransactionFails, Throw, Release, Goto, TypeInv, TypeOK
  <2> QED BY <2>1 DEF FundsInv, NoOverdraft, Covered, data, snapshot
<1>3. ASSUME NEW c \in Callers, Return(c) PROVE FundsInv'
  BY <1>3 DEF Return, Goto, FundsInv, NoOverdraft, Covered, data, NoRow,
              TypeInv, TypeOK
<1>4. ASSUME NEW k \in LockKeys, Expire(k) PROVE FundsInv'
  BY <1>4 DEF Expire, FundsInv, NoOverdraft, Covered, data, snapshot
<1>5. CASE Crash
  BY <1>5 DEF Crash, FundsInv, NoOverdraft, Covered, data, NoRow
<1>6. ASSUME NEW a \in Accounts, Enroll(a) PROVE FundsInv'
  BY <1>6, MoneyAssumption
     DEF Enroll, FundsInv, NoOverdraft, Covered, StartingRow, snapshot,
         TypeInv, TypeOK
<1>7. ASSUME NEW a \in Accounts, NEW t \in CooldownTypes, CooldownElapses(a, t)
      PROVE FundsInv'
  BY <1>7 DEF CooldownElapses, FundsInv, NoOverdraft, Covered, snapshot
<1>8. CASE UNCHANGED vars
  BY <1>8 DEF vars, FundsInv, NoOverdraft, Covered
<1> QED BY <1>1, <1>2, <1>3, <1>4, <1>5, <1>6, <1>7, <1>8
        DEF Next, Progress, Unlocking

\* No pocket and no bank account is ever negative, for every mix of the atomic
\* functions, transfers included, and even when leases run out.
THEOREM OverdraftFree == Spec => []NoOverdraft
<1>1. Init => TypeInv /\ FundsInv
  BY InitTypeInv, InitFunds
<1>2. TypeInv /\ FundsInv /\ [Next]_vars => (TypeInv /\ FundsInv)'
  BY NextTypeInv, NextFunds
<1>3. FundsInv => NoOverdraft
  BY DEF FundsInv
<1> QED BY <1>1, <1>2, <1>3, PTL DEF Spec

-----------------------------------------------------------------------------
(* While no lease lapses, the ownerId under a key is the call that acquired *)
(* it, from SET NX to the compare-and-delete.                               *)

LocksHeld ==
  \A c \in Callers : \A i \in 1 .. depth[c] : lock[LockPlan(call[c])[i]] = c

LEMMA PlanOf ==
  ASSUME TypeInv, NEW c \in Callers, pc[c] # "idle"
  PROVE  /\ call[c] \in Calls
         /\ depth[c] \in Nat /\ Len(LockPlan(call[c])) \in 1 .. 2
         /\ depth[c] <= Len(LockPlan(call[c]))
         /\ pc[c] = "locking" => depth[c] < Len(LockPlan(call[c]))
         /\ InTx(c) => depth[c] = Len(LockPlan(call[c]))
<1>1. depth[c] \in 0 .. 2
  BY DEF TypeInv, TypeOK
<1>2. ControlOK(c)
  BY DEF TypeInv, Control
<1>3. call[c] \in Calls
  BY <1>2 DEF ControlOK
<1>4. Len(LockPlan(call[c])) \in 1 .. 2
  BY <1>3, PlanShape
<1> QED BY <1>1, <1>2, <1>3, <1>4 DEF ControlOK

LEMMA HeldKeys ==
  ASSUME TypeInv, NEW d \in Callers, NEW i \in 1 .. depth[d]
  PROVE  LockPlan(call[d])[i] \in LockKeys
<1>1. depth[d] # 0 /\ depth[d] \in Nat
  BY DEF TypeInv, TypeOK
<1>2. call[d] \in Calls /\ depth[d] <= Len(LockPlan(call[d]))
  BY <1>1 DEF TypeInv, Control, ControlOK
<1>3. Len(LockPlan(call[d])) \in 1 .. 2
  BY <1>2, PlanShape
<1>4. i \in 1 .. Len(LockPlan(call[d]))
  BY <1>1, <1>2, <1>3
<1> QED BY <1>2, <1>4, PlanShape

LEMMA InitLocksHeld == Init => LocksHeld
BY DEF Init, LocksHeld

LEMMA NextLocksHeld ==
  ASSUME ~LeaseCanLapse, TypeInv, LocksHeld, [Next]_vars
  PROVE  LocksHeld'
<1> USE RepoAssumption DEF LocksHeld
<1>1. ASSUME NEW c \in Callers, Acquire(c) PROVE LocksHeld'
  <2> DEFINE plan == LockPlan(call[c])
  <2>1. /\ call[c] \in Calls /\ depth[c] < Len(plan) /\ depth[c] \in Nat
        /\ Len(plan) \in 1 .. 2
    BY <1>1, PlanOf DEF Acquire
  <2>2. /\ plan[depth[c] + 1] \in LockKeys
        /\ \A i \in 1 .. depth[c] : plan[i] # plan[depth[c] + 1]
    <3>1. depth[c] + 1 \in 1 .. Len(plan)
      BY <2>1
    <3>2. /\ \A i \in 1 .. Len(plan) : plan[i] \in LockKeys
          /\ \A i, j \in 1 .. Len(plan) : plan[i] = plan[j] => i = j
      BY <2>1, PlanShape
    <3> HIDE DEF plan
    <3>3. \A i \in 1 .. depth[c] : i \in 1 .. Len(plan) /\ i # depth[c] + 1
      BY <2>1
    <3> QED BY <3>1, <3>2, <3>3
  <2>3. /\ lock[plan[depth[c] + 1]] = Free
        /\ lock' = [lock EXCEPT ![plan[depth[c] + 1]] = c]
        /\ depth' = [depth EXCEPT ![c] = depth[c] + 1]
        /\ call' = call
    BY <1>1 DEF Acquire, NextLock
  <2> HIDE DEF plan
  <2> SUFFICES ASSUME NEW d \in Callers, NEW i \in 1 .. depth'[d]
               PROVE  lock'[LockPlan(call'[d])[i]] = d
    BY DEF LocksHeld
  <2>4. lock \in [LockKeys -> Callers \cup {Free, Orphan}]
        /\ depth \in [Callers -> 0 .. 2]
    BY DEF TypeInv, TypeOK
  <2>5. CASE d = c /\ i = depth[c] + 1
    BY <2>2, <2>3, <2>4, <2>5 DEF plan
  <2>6. CASE d = c /\ i # depth[c] + 1
    <3>1. i \in 1 .. depth[c]
      BY <2>1, <2>3, <2>4, <2>6
    <3>2. lock[plan[i]] = c /\ plan[i] # plan[depth[c] + 1]
      BY <2>2, <3>1 DEF plan
    <3> QED BY <2>3, <2>4, <2>6, <3>2 DEF plan
  <2>7. CASE d # c
    <3>1. i \in 1 .. depth[d] /\ call'[d] = call[d]
      BY <2>3, <2>4, <2>7
    <3>2. lock[LockPlan(call[d])[i]] = d
      BY <3>1
    <3>3. LockPlan(call[d])[i] # plan[depth[c] + 1]
      BY <2>3, <3>2
    <3> QED BY <2>3, <3>1, <3>2, <3>3
  <2> QED BY <2>5, <2>6, <2>7
<1>2. ASSUME NEW c \in Callers, Release(c) PROVE LocksHeld'
  <2> DEFINE plan == LockPlan(call[c])
  <2>1. /\ call[c] \in Calls /\ depth[c] <= Len(plan) /\ depth[c] \in Nat
        /\ depth[c] > 0
    BY <1>2, PlanOf DEF Release
  <2>2. \A i \in 1 .. depth[c] : plan[i] = plan[depth[c]] => i = depth[c]
    <3>1. \A i, j \in 1 .. Len(plan) : plan[i] = plan[j] => i = j
      BY <2>1, PlanShape
    <3>2. Len(plan) \in Nat
      BY <1>2, PlanOf DEF Release
    <3> HIDE DEF plan
    <3>3. \A i \in 1 .. depth[c] : i \in 1 .. Len(plan)
      BY <2>1, <3>2
    <3>4. depth[c] \in 1 .. Len(plan)
      BY <2>1, <3>2
    <3> QED BY <3>1, <3>3, <3>4
  <2>3. /\ lock' = lock
           \/ lock' = [lock EXCEPT ![plan[depth[c]]] = Free]
           \/ lock' = [lock EXCEPT ![plan[depth[c]]] = Orphan]
        /\ depth' = [depth EXCEPT ![c] = depth[c] - 1]
        /\ call' = call
    BY <1>2 DEF Release, LastLock
  <2>4. lock[plan[depth[c]]] = c
    BY <2>1
  <2> HIDE DEF plan
  <2> SUFFICES ASSUME NEW d \in Callers, NEW i \in 1 .. depth'[d]
               PROVE  lock'[LockPlan(call'[d])[i]] = d
    BY DEF LocksHeld
  <2>5. depth \in [Callers -> 0 .. 2]
    BY DEF TypeInv, TypeOK
  <2>6. i \in 1 .. depth[d] /\ (d = c => i # depth[c])
    BY <2>1, <2>3, <2>5
  <2>7. lock[LockPlan(call[d])[i]] = d
    BY <2>6
  <2>8. LockPlan(call[d])[i] # plan[depth[c]]
    <3>1. CASE d # c
      BY <2>4, <2>7, <3>1
    <3>2. CASE d = c
      BY <2>2, <2>6, <3>2 DEF plan
    <3> QED BY <3>1, <3>2
  <2>9. LockPlan(call[d])[i] \in LockKeys
    BY <2>6, HeldKeys
  <2>10. lock \in [LockKeys -> Callers \cup {Free, Orphan}]
    BY DEF TypeInv, TypeOK
  <2> QED BY <2>3, <2>7, <2>8, <2>9, <2>10
<1>3. ASSUME NEW c \in Callers,
             LockTaken(c) \/ LockCallFails(c) \/ TransactionFails(c)
               \/ Return(c) \/ (\E op \in Calls : Start(c, op))
      PROVE LocksHeld'
  <2>1. /\ depth' = depth
        /\ \A d \in Callers : call'[d] = call[d] \/ depth[d] = 0
        /\ \A k \in LockKeys : lock'[k] = lock[k] \/ lock[k] = Free
    BY <1>3 DEF LockTaken, LockCallFails, TransactionFails, Return, Start,
                locks, TypeInv, TypeOK, Control, ControlOK
  <2>2. \A d \in Callers : \A i \in 1 .. depth[d] :
           LockPlan(call[d])[i] \in LockKeys
    BY HeldKeys
  <2> SUFFICES ASSUME NEW d \in Callers, NEW i \in 1 .. depth'[d]
               PROVE  lock'[LockPlan(call'[d])[i]] = d
    BY DEF LocksHeld
  <2>3. call'[d] = call[d] /\ LockPlan(call[d])[i] \in LockKeys
        /\ lock[LockPlan(call[d])[i]] = d
    BY <2>1, <2>2
  <2> QED BY <2>1, <2>3
<1>4. ASSUME NEW c \in Callers, Reading(c) \/ Writing(c) PROVE LocksHeld'
  <2>1. ReadStep(c) \/ CommitStep(c)
    BY <1>4, ReadingIsReadStep, WritingIsCommitStep
  <2> QED BY <2>1 DEF ReadStep, CommitStep, locks
<1>5. ASSUME NEW k \in LockKeys, Expire(k) PROVE LocksHeld'
  BY <1>5 DEF Expire
<1>6. CASE Crash
  BY <1>6 DEF Crash
<1>7. CASE \/ \E a \in Accounts : Enroll(a)
           \/ \E a \in Accounts, t \in CooldownTypes : CooldownElapses(a, t)
           \/ UNCHANGED vars
  BY <1>7 DEF Enroll, CooldownElapses, vars, locks
<1> QED BY <1>1, <1>2, <1>3, <1>4, <1>5, <1>6, <1>7
        DEF Next, Progress, Locking, Unlocking

\* A transaction owns the lock of its account, unless it is a transfer, and
\* that of the bank account it moves money to or from.
LEMMA TransactionLocks ==
  ASSUME TypeInv, LocksHeld, NEW c \in Callers, InTx(c)
  PROVE  /\ call[c].kind # "transfer" => lock[UserLock(call[c].acct)] = c
         /\ call[c].kind \in {"deposit", "withdraw"} =>
               lock[BankLock(call[c].acct[2])] = c
<1>1. call[c] \in Calls /\ depth[c] = Len(LockPlan(call[c]))
  BY DEF TypeInv, Control, ControlOK, InTx
<1>2. 1 \in 1 .. depth[c] /\ depth[c] \in 1 .. depth[c]
  <2>1. Len(LockPlan(call[c])) \in 1 .. 2
    BY <1>1, PlanShape
  <2>2. depth[c] \in 1 .. 2
    BY <1>1, <2>1
  <2> QED BY <2>2
<1>3. /\ lock[LockPlan(call[c])[1]] = c
      /\ lock[LockPlan(call[c])[Len(LockPlan(call[c]))]] = c
  BY <1>1, <1>2 DEF LocksHeld
<1> QED BY <1>1, <1>3, PlanShape

-----------------------------------------------------------------------------
(* Every step reads, commits, or leaves the snapshots of open transactions *)
(* and the rows they may have seen alone.                                  *)

SameTx(d) ==
  /\ pc'[d] = pc[d] /\ call'[d] = call[d] /\ own'[d] = own[d]
  /\ peerRow'[d] = peerRow[d] /\ balance'[d] = balance[d]

Quiet ==
  /\ bank' = bank
  /\ \A a \in Accounts : user'[a] = user[a] \/ ~user[a].exists
  /\ \A a \in Accounts : cooling'[a] \subseteq cooling[a]
  /\ \A d \in Callers :
        /\ SameTx(d) \/ pc'[d] \in {"idle", "locking", "read", "unlocking"}
        /\ outcome'[d] = outcome[d] \/ outcome'[d] \in {"none", "threw"}

LEMMA QuietSteps ==
  ASSUME TypeInv, [Next]_vars
  PROVE  Quiet \/ \E c \in Callers : Reading(c) \/ Writing(c)
<1> USE DEF TypeInv, TypeOK, Quiet, SameTx
<1>1. ASSUME NEW c \in Callers, NEW op \in Calls, Start(c, op) PROVE Quiet
  BY <1>1 DEF Start, Goto, data, snapshot
<1>2. ASSUME NEW c \in Callers, Locking(c) PROVE Quiet
  BY <1>2 DEF Locking, Acquire, LockTaken, LockCallFails, RetryOrThrow, Goto,
              data, snapshot
<1>3. ASSUME NEW c \in Callers, TransactionFails(c) PROVE Quiet
  BY <1>3 DEF TransactionFails, Throw, Goto, data, snapshot
<1>4. ASSUME NEW c \in Callers, Unlocking(c) PROVE Quiet
  BY <1>4 DEF Unlocking, Release, Return, Goto, data, snapshot
<1>5. ASSUME NEW k \in LockKeys, Expire(k) PROVE Quiet
  BY <1>5 DEF Expire, data, snapshot
<1>6. CASE Crash
  BY <1>6 DEF Crash, data
<1>7. ASSUME NEW a \in Accounts, Enroll(a) PROVE Quiet
  BY <1>7 DEF Enroll, snapshot
<1>8. ASSUME NEW a \in Accounts, NEW t \in CooldownTypes, CooldownElapses(a, t)
      PROVE Quiet
  BY <1>8 DEF CooldownElapses, snapshot
<1>9. CASE UNCHANGED vars
  BY <1>9 DEF vars
<1> QED BY <1>1, <1>2, <1>3, <1>4, <1>5, <1>6, <1>7, <1>8, <1>9
        DEF Next, Progress

LEMMA ReadingFrame ==
  ASSUME TypeInv, NEW c \in Callers, Reading(c)
  PROVE  /\ InTx(c) /\ UNCHANGED data /\ call' = call
         /\ \A d \in Callers \ {c} : SameTx(d) /\ outcome'[d] = outcome[d]
<1>1. ReadStep(c)
  BY ReadingIsReadStep
<1> QED BY <1>1
      DEF ReadStep, InTx, SameTx, Reading, ReadPocketRow, DepositReadsUser,
          DepositReadsBank, WithdrawReadsBank, WithdrawReadsUser,
          TransferReadsFrom, TransferReadsTo, ReadsUser, ReadsBank,
          TypeInv, TypeOK

LEMMA WritingFrame ==
  ASSUME TypeInv, NEW c \in Callers, Writing(c)
  PROVE  /\ InTx(c) /\ pc'[c] = "unlocking" /\ call' = call
         /\ \A d \in Callers \ {c} : SameTx(d) /\ outcome'[d] = outcome[d]
<1>1. CommitStep(c)
  BY WritingIsCommitStep
<1> QED BY <1>1 DEF CommitStep, InTx, SameTx, snapshot, TypeInv, TypeOK

-----------------------------------------------------------------------------
(* The bank: its lock is in the plan of every writer, so a balance read is  *)
(* current until it is written back, whatever else the commands call.       *)

LEMMA NextBankFresh ==
  ASSUME TypeInv, LocksHeld, BankSnapshotsFresh, [Next]_vars
  PROVE  BankSnapshotsFresh'
<1> USE DEF BankSnapshotsFresh, BalanceFresh, ReadBalance
<1>1. CASE Quiet
  BY <1>1 DEF Quiet, SameTx
<1>2. ASSUME NEW c \in Callers, Reading(c) PROVE BankSnapshotsFresh'
  <2> SUFFICES ASSUME NEW d \in Callers PROVE BalanceFresh(d)'
    OBVIOUS
  <2>1. CASE d # c
    BY <1>2, <2>1, ReadingFrame DEF SameTx, data
  <2>2. CASE d = c
    <3> USE <2>2 DEF ReadsUser, ReadsBank, Check, Throw, Goto, data,
                     TypeInv, TypeOK
    <3>1. CASE ReadPocketRow(c)
      BY <3>1 DEF ReadPocketRow
    <3>2. CASE DepositReadsUser(c)
      BY <3>2 DEF DepositReadsUser
    <3>3. CASE DepositReadsBank(c)
      BY <3>3 DEF DepositReadsBank
    <3>4. CASE WithdrawReadsBank(c)
      BY <3>4 DEF WithdrawReadsBank
    <3>5. CASE WithdrawReadsUser(c)
      BY <3>5 DEF WithdrawReadsUser
    <3>6. CASE TransferReadsFrom(c)
      BY <3>6 DEF TransferReadsFrom
    <3>7. CASE TransferReadsTo(c)
      BY <3>7 DEF TransferReadsTo
    <3> QED BY <1>2, <3>1, <3>2, <3>3, <3>4, <3>5, <3>6, <3>7 DEF Reading
  <2> QED BY <2>1, <2>2
<1>3. ASSUME NEW c \in Callers, Writing(c) PROVE BankSnapshotsFresh'
  <2> SUFFICES ASSUME NEW d \in Callers, ReadBalance(d)'
               PROVE  balance'[d] = bank'[call'[d].acct[2]]
    OBVIOUS
  <2>1. d # c
    BY <1>3, WritingFrame
  <2>2. /\ SameTx(d) /\ ReadBalance(d) /\ InTx(d) /\ InTx(c)
        /\ call[d].kind \in {"deposit", "withdraw"}
    BY <1>3, <2>1, WritingFrame DEF SameTx, InTx
  <2>3. balance[d] = bank[call[d].acct[2]]
    BY <2>2
  <2>4. lock[BankLock(call[d].acct[2])] = d
    BY <2>2, TransactionLocks
  <2>5. CASE DepositWrites(c) \/ WithdrawWrites(c)
    <3>1. /\ call[c].kind \in {"deposit", "withdraw"}
          /\ \E v \in IntColumn : bank' = [bank EXCEPT ![call[c].acct[2]] = v]
      BY <2>5 DEF DepositWrites, WithdrawWrites, WritesBank
    <3>2. lock[BankLock(call[c].acct[2])] = c
      BY <2>2, <3>1, TransactionLocks
    <3>3. call[c].acct[2] # call[d].acct[2]
      BY <2>1, <2>4, <3>2
    <3> QED BY <2>2, <2>3, <3>1, <3>3 DEF SameTx, TypeInv, TypeOK
  <2>6. CASE ~(DepositWrites(c) \/ WithdrawWrites(c))
    <3>1. bank' = bank
      BY <1>3, <2>6 DEF Writing, AddWrites, SubtractWrites, ClaimWrites,
                        TransferWrites
    <3> QED BY <2>2, <2>3, <3>1 DEF SameTx
  <2> QED BY <2>5, <2>6
<1> QED BY <1>1, <1>2, <1>3, QuietSteps

\* While leases outlive their sections, the bank is never written with a stale
\* balance, from whichever guilds and mixed with whatever calls.
THEOREM BankFresh ==
  ASSUME ~LeaseCanLapse
  PROVE  Spec => []BankSnapshotsFresh
<1>1. Init => TypeInv /\ LocksHeld /\ BankSnapshotsFresh
  <2>1. Init => BankSnapshotsFresh
    BY DEF Init, BankSnapshotsFresh, BalanceFresh, ReadBalance
  <2> QED BY <2>1, InitTypeInv, InitLocksHeld
<1>2. TypeInv /\ LocksHeld /\ BankSnapshotsFresh /\ [Next]_vars
        => (TypeInv /\ LocksHeld /\ BankSnapshotsFresh)'
  BY NextTypeInv, NextLocksHeld, NextBankFresh
<1> QED BY <1>1, <1>2, PTL DEF Spec

-----------------------------------------------------------------------------
(* Cooldowns: whoever claims one holds the lock of the account from the     *)
(* check to the write; transfers, which do not, touch no cooldown.          *)

CooldownUnclaimed(c) ==
  pc[c] = "write" => call[c].cooldown \notin cooling[call[c].acct]

CooldownInv == \A c \in Callers : CooldownUnclaimed(c)

\* Calls without a cooldown have nothing to find there.
LEMMA NoCooldownAsked ==
  ASSUME TypeInv, NEW op \in Calls, op.kind \in {"deposit", "withdraw", "transfer"}
  PROVE  op.cooldown \notin cooling[op.acct]
<1>1. op.cooldown = NoCooldown BY DEF Calls, LegalCall
<1>2. cooling[op.acct] \subseteq CooldownTypes
  BY CallFields DEF TypeInv, TypeOK
<1> QED BY <1>1, <1>2, CooldownAssumption

LEMMA ReadingCooldown ==
  ASSUME TypeInv, CooldownInv, NEW c \in Callers, Reading(c)
  PROVE  CooldownInv'
<1>1. call[c] \in Calls /\ UNCHANGED data /\ call' = call
  BY ReadingFrame DEF InTx, TypeInv, Control, ControlOK
<1> SUFFICES ASSUME NEW d \in Callers PROVE CooldownUnclaimed(d)'
  BY DEF CooldownInv
<1>2. CASE d # c
  BY <1>1, <1>2, ReadingFrame DEF SameTx, data, CooldownInv, CooldownUnclaimed
<1>3. CASE d = c /\ ReadPocketRow(c)
  BY <1>1, <1>3
     DEF ReadPocketRow, ReadsUser, Check, Throw, Goto, CooldownFree, data,
         CooldownUnclaimed, TypeInv, TypeOK
<1>4. CASE d = c /\ ~ReadPocketRow(c)
  <2>1. call[c].kind \in {"deposit", "withdraw", "transfer"}
    BY <1>4 DEF Reading, DepositReadsUser, DepositReadsBank, WithdrawReadsBank,
                WithdrawReadsUser, TransferReadsFrom, TransferReadsTo
  <2> QED BY <1>1, <1>4, <2>1, NoCooldownAsked DEF CooldownUnclaimed, data
<1> QED BY <1>2, <1>3, <1>4

LEMMA WritingCooldown ==
  ASSUME TypeInv, LocksHeld, CooldownInv, NEW c \in Callers, Writing(c)
  PROVE  CooldownInv'
<1> SUFFICES ASSUME NEW d \in Callers, pc'[d] = "write"
             PROVE  call'[d].cooldown \notin cooling'[call'[d].acct]
  BY DEF CooldownInv, CooldownUnclaimed
<1>1. d # c BY WritingFrame
<1>2. /\ pc[d] = "write" /\ InTx(d) /\ InTx(c) /\ call' = call
      /\ call[d] \in Calls /\ call[c] \in Calls
  BY <1>1, WritingFrame DEF SameTx, InTx, TypeInv, Control, ControlOK
<1>3. call[d].cooldown \notin cooling[call[d].acct]
  BY <1>2 DEF CooldownInv, CooldownUnclaimed
<1>4. CASE call[c].kind \in {"deposit", "withdraw", "transfer"}
  <2>1. cooling' = cooling
    BY <1>4 DEF Writing, AddWrites, SubtractWrites, ClaimWrites, DepositWrites,
                WithdrawWrites, TransferWrites
  <2> QED BY <1>2, <1>3, <2>1
<1>5. CASE call[d].kind = "transfer"
  <2>1. TypeInv' BY WritingIsCommitStep, TransactionTypeInv
  <2>2. call'[d].cooldown = NoCooldown BY <1>2, <1>5 DEF Calls, LegalCall
  <2>3. cooling'[call'[d].acct] \subseteq CooldownTypes
    BY <1>2, <2>1, CallFields DEF TypeInv, TypeOK
  <2> QED BY <2>2, <2>3, CooldownAssumption
<1>6. CASE /\ call[c].kind \notin {"deposit", "withdraw", "transfer"}
           /\ call[d].kind # "transfer"
  <2>1. call[c].acct # call[d].acct
    BY <1>1, <1>2, <1>6, TransactionLocks
  <2>2. cooling' = [cooling EXCEPT ![call[c].acct] = @ \cup Claimed(call[c])]
    BY <1>6 DEF Writing, AddWrites, SubtractWrites, ClaimWrites, DepositWrites,
                WithdrawWrites, TransferWrites
  <2>3. cooling'[call[d].acct] = cooling[call[d].acct]
    BY <1>2, <2>1, <2>2, CallFields DEF TypeInv, TypeOK
  <2> QED BY <1>2, <1>3, <2>3
<1> QED BY <1>4, <1>5, <1>6

LEMMA NextCooldown ==
  ASSUME TypeInv, LocksHeld, CooldownInv, [Next]_vars
  PROVE  CooldownInv'
<1>1. CASE Quiet
  <2> SUFFICES ASSUME NEW d \in Callers, pc'[d] = "write"
               PROVE  call'[d].cooldown \notin cooling'[call'[d].acct]
    BY DEF CooldownInv, CooldownUnclaimed
  <2>1. pc[d] = "write" /\ call'[d] = call[d]
    BY <1>1 DEF Quiet, SameTx
  <2>2. call[d] \in Calls BY <2>1 DEF TypeInv, Control, ControlOK
  <2>3. cooling'[call[d].acct] \subseteq cooling[call[d].acct]
    BY <1>1, <2>2, CallFields DEF Quiet
  <2> QED BY <2>1, <2>3 DEF CooldownInv, CooldownUnclaimed
<1> QED BY <1>1, QuietSteps, ReadingCooldown, WritingCooldown

\* Only a write commits.
LEMMA CommitsWrite ==
  ASSUME TypeInv, [Next]_vars, NEW c \in Callers, Commits(c)
  PROVE  Writing(c)
<1>1. ~Quiet BY DEF Quiet, Commits
<1>2. PICK d \in Callers : Reading(d) \/ Writing(d) BY <1>1, QuietSteps
<1>3. d = c BY <1>2, ReadingFrame, WritingFrame DEF Commits
<1>4. ~Reading(c)
  BY ReadingIsReadStep DEF ReadStep, Commits, TypeInv, TypeOK
<1> QED BY <1>2, <1>3, <1>4

\* A cooldown is claimed once per window, however many commands race for it
\* and whatever else they do to the account, as long as no lease lapses under
\* its holder (atomicClaimCooldown and the claims inside the pocket updates).
THEOREM ClaimedOnce ==
  ASSUME ~LeaseCanLapse
  PROVE  Spec => CooldownClaimedOnce
<1>1. Init => TypeInv /\ LocksHeld /\ CooldownInv
  <2>1. Init => CooldownInv BY DEF Init, CooldownInv, CooldownUnclaimed
  <2> QED BY <2>1, InitTypeInv, InitLocksHeld
<1>2. TypeInv /\ LocksHeld /\ CooldownInv /\ [Next]_vars
        => (TypeInv /\ LocksHeld /\ CooldownInv)'
  BY NextTypeInv, NextLocksHeld, NextCooldown
<1>3. TypeInv /\ LocksHeld /\ CooldownInv /\ [Next]_vars
        => [\A c \in Callers :
              Commits(c) => call[c].cooldown \notin cooling[call[c].acct]]_vars
  <2> SUFFICES ASSUME TypeInv, CooldownInv, [Next]_vars,
                      NEW c \in Callers, Commits(c)
               PROVE  call[c].cooldown \notin cooling[call[c].acct]
    OBVIOUS
  <2>1. CommitStep(c) BY CommitsWrite, WritingIsCommitStep
  <2> QED BY <2>1 DEF CommitStep, CooldownInv, CooldownUnclaimed
<1> QED BY <1>1, <1>2, <1>3, PTL DEF Spec, CooldownClaimedOnce

-----------------------------------------------------------------------------
(* Releasing: the compare-and-delete touches a key only while the releasing *)
(* call still owns it.                                                      *)

\* A call that goes on unlocking with one lock less has released it.
LEMMA DepthFalls ==
  ASSUME TypeInv, [Next]_vars, NEW d \in Callers,
         pc[d] = "unlocking", pc'[d] = "unlocking", depth'[d] < depth[d]
  PROVE  Release(d)
<1> USE DEF TypeInv, TypeOK
<1>0. depth[d] \in Nat OBVIOUS
<1>1. ASSUME NEW c \in Callers, NEW op \in Calls, Start(c, op) PROVE FALSE
  BY <1>0, <1>1 DEF Start, locks
<1>2. ASSUME NEW c \in Callers, Locking(c) PROVE FALSE
  <2>1. c # d BY <1>2 DEF Locking, Acquire, LockTaken, LockCallFails
  <2>2. depth'[d] = depth[d]
    BY <1>2, <2>1 DEF Locking, Acquire, LockTaken, LockCallFails
  <2> QED BY <1>0, <2>2
<1>3. ASSUME NEW c \in Callers, Reading(c) \/ Writing(c) \/ TransactionFails(c)
      PROVE FALSE
  <2>1. UNCHANGED locks
    BY <1>3, ReadingIsReadStep, WritingIsCommitStep
       DEF ReadStep, CommitStep, TransactionFails
  <2> QED BY <1>0, <2>1 DEF locks
<1>4. ASSUME NEW c \in Callers, Return(c) PROVE FALSE
  BY <1>0, <1>4 DEF Return, locks
<1>5. ASSUME NEW c \in Callers, Release(c) PROVE Release(d)
  <2>1. CASE c # d BY <1>0, <1>5, <2>1 DEF Release
  <2> QED BY <1>5, <2>1
<1>6. CASE Crash BY <1>6 DEF Crash
<1>7. CASE \/ \E k \in LockKeys : Expire(k)
           \/ \E a \in Accounts : Enroll(a)
           \/ \E a \in Accounts, t \in CooldownTypes : CooldownElapses(a, t)
           \/ UNCHANGED vars
  BY <1>0, <1>7 DEF Expire, Enroll, CooldownElapses, locks, vars
<1> QED BY <1>1, <1>2, <1>3, <1>4, <1>5, <1>6, <1>7 DEF Next, Progress, Unlocking

\* A late release never frees a successor's key: RELEASE_LOCK_SCRIPT compares
\* the ownerId, so this holds even when leases run out under their holders.
THEOREM ReleasesOwn == Spec => NoForeignRelease
<1>1. TypeInv /\ [Next]_vars
        => [\A c, d \in Callers : \A k \in LockKeys :
              (/\ c # d
               /\ lock[k] = c
               /\ pc[d] = "unlocking" /\ depth'[d] < depth[d]
               /\ pc'[d] = "unlocking")
              => lock'[k] = c]_vars
  <2> SUFFICES ASSUME TypeInv, [Next]_vars,
                      NEW c \in Callers, NEW d \in Callers, NEW k \in LockKeys,
                      c # d, lock[k] = c, pc[d] = "unlocking",
                      depth'[d] < depth[d], pc'[d] = "unlocking"
               PROVE  lock'[k] = c
    OBVIOUS
  <2>1. Release(d) BY DepthFalls
  <2> DEFINE last == LastLock(d)
  <2>2. \/ lock' = IF lock[last] = d THEN [lock EXCEPT ![last] = Free] ELSE lock
        \/ lock' = IF lock[last] = d THEN [lock EXCEPT ![last] = Orphan] ELSE lock
    BY <2>1 DEF Release
  <2>3. lock[last] = d => k # last OBVIOUS
  <2> HIDE DEF last
  <2> QED BY <2>2, <2>3 DEF TypeInv, TypeOK
<1> QED BY <1>1, InitTypeInv, NextTypeInv, PTL DEF Spec, NoForeignRelease

-----------------------------------------------------------------------------
(* Pockets: without transfers every writer of a pocket holds its lock.      *)

NoTransfers == "transfer" \notin Kinds

OwnRowsFresh == \A c \in Callers : OwnRowFresh(c)

LEMMA NoTransferCall ==
  ASSUME NoTransfers, NEW op \in Calls
  PROVE  op.kind \in UserLockedKinds
BY CallFields, KindsAssumption DEF NoTransfers

\* The account whose row a commit may change is the caller's own.
LEMMA WritesOwnAccount ==
  ASSUME NoTransfers, TypeInv, NEW c \in Callers, Writing(c)
  PROVE  \A a \in Accounts \ {call[c].acct} : user'[a] = user[a]
<1>1. call[c].kind \in UserLockedKinds
  BY NoTransferCall, WritingFrame DEF InTx, TypeInv, Control, ControlOK
<1> USE DEF Writes, TypeInv, TypeOK
<1>2. CASE AddWrites(c) BY <1>2 DEF AddWrites
<1>3. CASE SubtractWrites(c) BY <1>3 DEF SubtractWrites
<1>4. CASE ClaimWrites(c) BY <1>4 DEF ClaimWrites
<1>5. CASE DepositWrites(c) BY <1>5 DEF DepositWrites
<1>6. CASE WithdrawWrites(c) BY <1>6 DEF WithdrawWrites
<1>7. CASE TransferWrites(c) BY <1>1, <1>7 DEF TransferWrites, UserLockedKinds
<1> QED BY <1>2, <1>3, <1>4, <1>5, <1>6, <1>7 DEF Writing

LEMMA ReadingPockets ==
  ASSUME NoTransfers, TypeInv, OwnRowsFresh, NEW c \in Callers, Reading(c)
  PROVE  OwnRowsFresh'
<1>1. call[c] \in Calls /\ UNCHANGED data /\ call' = call
  BY ReadingFrame DEF InTx, TypeInv, Control, ControlOK
<1>2. call[c].kind \in UserLockedKinds BY <1>1, NoTransferCall
<1> SUFFICES ASSUME NEW d \in Callers PROVE OwnRowFresh(d)'
  BY DEF OwnRowsFresh
<1>3. CASE d # c
  BY <1>1, <1>3, ReadingFrame
     DEF SameTx, data, OwnRowsFresh, OwnRowFresh, ReadOwn
<1>4. CASE d = c
  <2> USE <1>1, <1>4 DEF ReadsUser, ReadsBank, Check, Throw, Goto, data, OwnRowFresh,
          ReadOwn, OwnRowsFresh, TypeInv, TypeOK
  <2>1. CASE ReadPocketRow(c) BY <2>1 DEF ReadPocketRow
  <2>2. CASE DepositReadsUser(c) BY <2>2 DEF DepositReadsUser
  <2>3. CASE DepositReadsBank(c) BY <2>3 DEF DepositReadsBank
  <2>4. CASE WithdrawReadsBank(c) BY <2>4 DEF WithdrawReadsBank
  <2>5. CASE WithdrawReadsUser(c) BY <2>5 DEF WithdrawReadsUser
  <2>6. CASE TransferReadsFrom(c) \/ TransferReadsTo(c)
    BY <1>2, <2>6 DEF TransferReadsFrom, TransferReadsTo, UserLockedKinds
  <2> QED BY <2>1, <2>2, <2>3, <2>4, <2>5, <2>6 DEF Reading
<1> QED BY <1>3, <1>4

LEMMA WritingPockets ==
  ASSUME NoTransfers, TypeInv, LocksHeld, OwnRowsFresh, NEW c \in Callers, Writing(c)
  PROVE  OwnRowsFresh'
<1> SUFFICES ASSUME NEW d \in Callers PROVE OwnRowFresh(d)'
  BY DEF OwnRowsFresh
<1>1. CASE d = c
  BY <1>1, WritingFrame DEF OwnRowFresh, ReadOwn
<1>2. CASE d # c /\ ~ReadOwn(d)
  BY <1>2, WritingFrame DEF OwnRowFresh, ReadOwn, SameTx
<1>3. CASE d # c /\ ReadOwn(d)
  <2>1. /\ SameTx(d) /\ InTx(d) /\ InTx(c)
        /\ call[d] \in Calls /\ call[c] \in Calls
    BY <1>3, WritingFrame DEF ReadOwn, InTx, TypeInv, Control, ControlOK
  <2>2. /\ lock[UserLock(call[d].acct)] = d
        /\ lock[UserLock(call[c].acct)] = c
    BY <2>1, NoTransferCall, TransactionLocks DEF UserLockedKinds
  <2>3. call[d].acct # call[c].acct BY <1>3, <2>2
  <2>4. user'[call[d].acct] = user[call[d].acct]
    BY <2>1, <2>3, CallFields, WritesOwnAccount
  <2> QED BY <1>3, <2>1, <2>4 DEF OwnRowsFresh, OwnRowFresh, ReadOwn, SameTx
<1> QED BY <1>1, <1>2, <1>3

LEMMA NextPockets ==
  ASSUME NoTransfers, TypeInv, LocksHeld, OwnRowsFresh, [Next]_vars
  PROVE  OwnRowsFresh'
<1>1. CASE Quiet
  <2> SUFFICES ASSUME NEW d \in Callers, ReadOwn(d)', own'[d].exists
               PROVE  own'[d] = user'[call'[d].acct]
    BY DEF OwnRowsFresh, OwnRowFresh
  <2>1. SameTx(d) /\ ReadOwn(d)
    BY <1>1 DEF Quiet, SameTx, ReadOwn
  <2>2. call[d] \in Calls
    BY <2>1 DEF ReadOwn, TypeInv, Control, ControlOK
  <2>3. own[d] = user[call[d].acct] /\ own[d].exists
    BY <2>1 DEF SameTx, OwnRowsFresh, OwnRowFresh
  <2>4. user'[call[d].acct] = user[call[d].acct]
    BY <1>1, <2>2, <2>3, CallFields DEF Quiet
  <2> QED BY <2>1, <2>3, <2>4 DEF SameTx
<1> QED BY <1>1, QuietSteps, ReadingPockets, WritingPockets

\* As long as no lease lapses and nobody transfers, no pocket is ever written
\* with a value computed from a row somebody else has changed meanwhile.
\* (Transfers lock a key of their own and break this, whoever else runs.)
THEOREM PocketsFresh ==
  ASSUME ~LeaseCanLapse, NoTransfers
  PROVE  Spec => []PocketSnapshotsFresh
<1>1. Init => TypeInv /\ LocksHeld /\ OwnRowsFresh
  <2>1. Init => OwnRowsFresh BY DEF Init, OwnRowsFresh, OwnRowFresh, ReadOwn
  <2> QED BY <2>1, InitTypeInv, InitLocksHeld
<1>2. TypeInv /\ LocksHeld /\ OwnRowsFresh /\ [Next]_vars
        => (TypeInv /\ LocksHeld /\ OwnRowsFresh)'
  BY NextTypeInv, NextLocksHeld, NextPockets
<1>3. TypeInv /\ OwnRowsFresh => PocketSnapshotsFresh
  <2> SUFFICES ASSUME TypeInv, OwnRowsFresh, NEW c \in Callers
               PROVE  PeerRowFresh(c)
    BY DEF PocketSnapshotsFresh, OwnRowsFresh
  <2>1. pc[c] = "write" => call[c].kind \in UserLockedKinds
    BY NoTransferCall DEF TypeInv, Control, ControlOK
  <2> QED BY <2>1 DEF PeerRowFresh, ReadPeer, UserLockedKinds
<1> QED BY <1>1, <1>2, <1>3, PTL DEF Spec

-----------------------------------------------------------------------------
(* The refinement: what the checks of a transaction have found is still so  *)
(* when it writes, so its commit is one step of the ledger.                 *)

\* A row that does not exist is empty, in the table and in hand.
Proper(row) == row.exists \/ row = NoRow

Found(c) ==
  /\ Proper(own[c])
  /\ pc[c] = "write" /\ call[c].kind \in {"add", "subtract", "claim", "deposit"}
       => own[c].exists
  /\ pc[c] = "read2" /\ call[c].kind = "deposit" => own[c].exists

FoundInv == (\A a \in Accounts : Proper(user[a])) /\ \A c \in Callers : Found(c)

LEMMA InitFound == Init => FoundInv
<1> SUFFICES ASSUME Init PROVE FoundInv OBVIOUS
<1>1. StartingRow.exists BY DEF StartingRow
<1>2. ASSUME NEW a \in Accounts PROVE Proper(user[a])
  <2>1. user[a] \in {NoRow, StartingRow} BY DEF Init
  <2> QED BY <1>1, <2>1 DEF Proper
<1>3. ASSUME NEW c \in Callers PROVE Found(c)
  <2>1. own[c] = NoRow /\ pc[c] = "idle" BY DEF Init
  <2> QED BY <2>1 DEF Found, Proper
<1> QED BY <1>2, <1>3 DEF FoundInv

LEMMA ReadingFound ==
  ASSUME NoTransfers, TypeInv, FoundInv, NEW c \in Callers, Reading(c)
  PROVE  FoundInv'
<1>1. call[c] \in Calls /\ UNCHANGED data /\ call' = call
  BY ReadingFrame DEF InTx, TypeInv, Control, ControlOK
<1>2. call[c].kind \in UserLockedKinds /\ Proper(user[call[c].acct])
  BY <1>1, NoTransferCall, CallFields DEF FoundInv
<1>3. (\A a \in Accounts : Proper(user[a]))'
  BY <1>1 DEF FoundInv, data
<1>4. ASSUME NEW d \in Callers PROVE Found(d)'
  <2>1. CASE d # c
    BY <2>1, ReadingFrame DEF SameTx, FoundInv, Found
  <2>2. CASE d = c
    <3> USE <1>1, <1>2, <2>2 DEF ReadsUser, ReadsBank, Check, Throw, Goto,
            Found, FoundInv, Affords, TypeInv, TypeOK
    <3>1. CASE ReadPocketRow(c) BY <3>1 DEF ReadPocketRow
    <3>2. CASE DepositReadsUser(c) BY <3>2 DEF DepositReadsUser
    <3>3. CASE DepositReadsBank(c) BY <3>3 DEF DepositReadsBank
    <3>4. CASE WithdrawReadsBank(c) BY <3>4 DEF WithdrawReadsBank
    <3>5. CASE WithdrawReadsUser(c) BY <3>5 DEF WithdrawReadsUser
    <3>6. CASE TransferReadsFrom(c) \/ TransferReadsTo(c)
      BY <3>6 DEF TransferReadsFrom, TransferReadsTo, UserLockedKinds
    <3> QED BY <3>1, <3>2, <3>3, <3>4, <3>5, <3>6 DEF Reading
  <2> QED BY <2>1, <2>2
<1> QED BY <1>3, <1>4 DEF FoundInv

LEMMA WritingFound ==
  ASSUME NoTransfers, TypeInv, OwnRowsFresh, FoundInv, NEW c \in Callers, Writing(c)
  PROVE  FoundInv'
<1> DEFINE a == call[c].acct
<1>1. /\ call[c] \in Calls /\ a \in Accounts /\ pc[c] = "write"
      /\ call[c].kind \in UserLockedKinds
  <2>1. pc[c] = "write" /\ call[c] \in Calls
    BY WritingIsCommitStep DEF CommitStep, TypeInv, Control, ControlOK
  <2> QED BY <2>1, CallFields, NoTransferCall
<1>2. call[c].kind # "withdraw" => user[a].exists
  BY <1>1 DEF UserLockedKinds, FoundInv, Found, OwnRowsFresh, OwnRowFresh, ReadOwn
<1>3. Proper(user'[a])
  <2> USE <1>1, <1>2 DEF Proper, Writes, TypeInv, TypeOK, Rows
  <2>1. CASE AddWrites(c) BY <2>1 DEF AddWrites, Credit
  <2>2. CASE SubtractWrites(c) BY <2>2 DEF SubtractWrites, Debit
  <2>3. CASE ClaimWrites(c) BY <2>3 DEF ClaimWrites
  <2>4. CASE DepositWrites(c) BY <2>4 DEF DepositWrites, MoveOut
  <2>5. CASE WithdrawWrites(c) BY <2>5 DEF WithdrawWrites, MoveIn
  <2>6. CASE TransferWrites(c) BY <2>6 DEF TransferWrites, UserLockedKinds
  <2> QED BY <2>1, <2>2, <2>3, <2>4, <2>5, <2>6 DEF Writing
<1>4. ASSUME NEW b \in Accounts PROVE Proper(user'[b])
  BY <1>1, <1>3, WritesOwnAccount DEF FoundInv
<1>5. ASSUME NEW d \in Callers PROVE Found(d)'
  BY WritingIsCommitStep
     DEF CommitStep, snapshot, Found, FoundInv, TypeInv, TypeOK
<1> QED BY <1>4, <1>5 DEF FoundInv, Proper

\* The steps that are neither reads nor commits.
LEMMA NextFound ==
  ASSUME NoTransfers, TypeInv, OwnRowsFresh, FoundInv, [Next]_vars
  PROVE  FoundInv'
<1>1. ASSUME NEW c \in Callers, Reading(c) \/ Writing(c) PROVE FoundInv'
  BY <1>1, ReadingFound, WritingFound
<1>2. ASSUME NEW c \in Callers,
             \/ \E op \in Calls : Start(c, op)
             \/ Locking(c) \/ TransactionFails(c) \/ Release(c)
      PROVE FoundInv'
  <2>1. /\ UNCHANGED <<data, snapshot>>
        /\ \A d \in Callers :
              \/ pc'[d] = pc[d] /\ call'[d] = call[d]
              \/ pc'[d] \in {"locking", "read", "unlocking"}
    BY <1>2 DEF Start, Locking, Acquire, LockTaken, LockCallFails, RetryOrThrow,
                TransactionFails, Throw, Release, Goto, TypeInv, TypeOK
  <2> QED BY <2>1 DEF FoundInv, Found, Proper, data, snapshot
<1>3. ASSUME NEW c \in Callers, Return(c) PROVE FoundInv'
  BY <1>3 DEF Return, Goto, FoundInv, Found, Proper, data, TypeInv, TypeOK
<1>4. ASSUME NEW k \in LockKeys, Expire(k) PROVE FoundInv'
  BY <1>4 DEF Expire, FoundInv, Found, Proper, data, snapshot
<1>5. CASE Crash
  BY <1>5 DEF Crash, FoundInv, Found, Proper, data
<1>6. ASSUME NEW a \in Accounts, Enroll(a) PROVE FoundInv'
  BY <1>6 DEF Enroll, FoundInv, Found, Proper, StartingRow, NoRow, snapshot,
              TypeInv, TypeOK
<1>7. ASSUME NEW a \in Accounts, NEW t \in CooldownTypes, CooldownElapses(a, t)
      PROVE FoundInv'
  BY <1>7 DEF CooldownElapses, FoundInv, Found, Proper, snapshot
<1>8. CASE UNCHANGED vars
  BY <1>8 DEF vars, FoundInv, Found, Proper
<1> QED BY <1>1, <1>2, <1>3, <1>4, <1>5, <1>6, <1>7, <1>8
        DEF Next, Progress, Unlocking

\* Everything the refinement needs to know of a state.
RefinementInv ==
  /\ TypeInv /\ LocksHeld /\ FundsInv /\ CooldownInv
  /\ OwnRowsFresh /\ BankSnapshotsFresh /\ FoundInv

LEMMA WritingTakes ==
  ASSUME NoTransfers, RefinementInv, NEW c \in Callers, Writing(c)
  PROVE  Ledger!Take(c)
<1> DEFINE op == call[c]
<1>1. /\ pc[c] = "write" /\ op \in Calls /\ op # NoCall
      /\ outcome[c] = "none" /\ call' = call
      /\ outcome' = [outcome EXCEPT ![c] = "committed"]
  BY WritingIsCommitStep, RepoAssumption
     DEF CommitStep, RefinementInv, TypeInv, Control, ControlOK
<1>2. op.acct \in Accounts /\ op.acct[2] \in Users /\ op.kind \in UserLockedKinds
  BY <1>1, CallFields, NoTransferCall
<1>3. own[c].exists => own[c] = user[op.acct]
  BY <1>1 DEF RefinementInv, OwnRowsFresh, OwnRowFresh, ReadOwn
<1>4. op.cooldown \notin cooling[op.acct]
  BY <1>1 DEF RefinementInv, CooldownInv, CooldownUnclaimed
<1>5. Found(c) /\ Covered(c) /\ Proper(user[op.acct])
  BY <1>2 DEF RefinementInv, FoundInv, FundsInv
<1>6. op.kind \in {"deposit", "withdraw"} => balance[c] = bank[op.acct[2]]
  BY <1>1 DEF RefinementInv, BankSnapshotsFresh, BalanceFresh, ReadBalance
<1>7. op.kind # "withdraw" => own[c].exists /\ own[c] = user[op.acct]
  BY <1>1, <1>2, <1>3, <1>5 DEF UserLockedKinds, Found
<1>8. Ledger!Effect(op)
  <2> HIDE DEF op
  <2> USE DEF Writes, WritesBank, Ledger!Effect, Ledger!Claimed, Claimed,
              Ledger!CooldownFree, Ledger!Affords
  <2>1. CASE AddWrites(c)
    BY <1>2, <1>4, <1>7, <2>1
       DEF AddWrites, Credit, Ledger!Add, Ledger!Credit, op
  <2>2. CASE SubtractWrites(c)
    BY <1>1, <1>2, <1>4, <1>5, <1>7, <2>2
       DEF SubtractWrites, Debit, Ledger!Subtract, Ledger!Debit, Covered, op
  <2>3. CASE ClaimWrites(c)
    BY <1>2, <1>4, <1>7, <2>3 DEF ClaimWrites, Ledger!Claim, op
  <2>4. CASE DepositWrites(c)
    BY <1>1, <1>2, <1>5, <1>6, <1>7, <2>4
       DEF DepositWrites, MoveOut, Ledger!Deposit, Ledger!MoveOut, Covered, op
  <2>5. CASE WithdrawWrites(c)
    <3>1. /\ op.kind = "withdraw" /\ UNCHANGED cooling
          /\ ~own[c].exists => ~user[op.acct].exists
          /\ user' = [user EXCEPT ![op.acct] = MoveIn(user[op.acct], own[c], op.amount)]
          /\ bank' = [bank EXCEPT ![op.acct[2]] = balance[c] - op.amount]
      BY <2>5 DEF WithdrawWrites, op
    <3>2. own[c].pocket = user[op.acct].pocket
      BY <1>3, <1>5, <3>1 DEF Found, Proper
    <3>3. balance[c] >= op.amount /\ balance[c] = bank[op.acct[2]]
      BY <1>1, <1>5, <1>6, <3>1 DEF Covered, op
    <3> QED BY <3>1, <3>2, <3>3 DEF MoveIn, Ledger!Withdraw, Ledger!MoveIn
  <2>6. CASE TransferWrites(c)
    BY <1>2, <2>6 DEF TransferWrites, UserLockedKinds, op
  <2> QED BY <2>1, <2>2, <2>3, <2>4, <2>5, <2>6 DEF Writing
<1> QED BY <1>1, <1>8 DEF Ledger!Take

LEMMA LedgerInit == Init => Ledger!Init
BY DEF Init, Ledger!Init, Ledger!StartingRow, Ledger!NoRow, Ledger!Accounts,
       StartingRow, NoRow, Accounts

\* A call that throws is rejected, every other step but a commit stutters.
LEMMA ThrowRejects ==
  ASSUME TypeInv, NEW c \in Callers, pc[c] \in {"locking", "read", "read2", "write"},
         UNCHANGED <<data, call>>, outcome' = [outcome EXCEPT ![c] = "threw"]
  PROVE  Ledger!Reject(c)
<1>1. call[c] # NoCall /\ outcome[c] = "none"
  BY RepoAssumption DEF TypeInv, Control, ControlOK
<1> QED BY <1>1 DEF Ledger!Reject, data

LEMMA LedgerStep ==
  ASSUME NoTransfers, RefinementInv, [Next]_vars
  PROVE  [Ledger!Next]_(Ledger!ledgerVars)
<1> USE DEF Ledger!Next, Ledger!ledgerVars
<1>0. TypeInv BY DEF RefinementInv
<1>1. ASSUME NEW c \in Callers, NEW op \in Calls, Start(c, op)
      PROVE  Ledger!Start(c, op) /\ op \in Ledger!Calls
  <2>1. call[c] = NoCall /\ outcome[c] = "none"
    BY <1>0, <1>1 DEF Start, TypeInv, Control, ControlOK
  <2>2. outcome' = [outcome EXCEPT ![c] = "none"]
    BY <1>0, <1>1, <2>1 DEF Start, TypeInv, TypeOK
  <2>3. op \in Ledger!Calls
    BY DEF Calls, Call, LegalCall, Accounts, Ledger!Calls, Ledger!Call,
           Ledger!LegalCall, Ledger!Accounts
  <2> QED BY <1>1, <2>1, <2>2, <2>3 DEF Start, Ledger!Start, data
<1>2. ASSUME NEW c \in Callers, Locking(c) \/ TransactionFails(c) \/ Reading(c)
      PROVE  UNCHANGED Ledger!ledgerVars \/ Ledger!Reject(c)
  <2>1. /\ UNCHANGED <<data, call>>
        /\ pc[c] \in {"locking", "read", "read2", "write"}
        /\ UNCHANGED outcome \/ outcome' = [outcome EXCEPT ![c] = "threw"]
    BY <1>0, <1>2, ReadingIsReadStep
       DEF Locking, Acquire, LockTaken, LockCallFails, RetryOrThrow,
           TransactionFails, Throw, ReadStep
  <2> QED BY <1>0, <2>1, ThrowRejects DEF data
<1>3. ASSUME NEW c \in Callers, Writing(c) PROVE Ledger!Take(c)
  BY <1>3, WritingTakes
<1>4. ASSUME NEW c \in Callers, Return(c) PROVE Ledger!Return(c)
  <2>1. call[c] # NoCall /\ outcome[c] # "none"
    BY <1>0, <1>4, RepoAssumption DEF Return, TypeInv, Control, ControlOK
  <2> QED BY <1>4, <2>1 DEF Return, Ledger!Return, data
<1>5. ASSUME NEW c \in Callers, Release(c) PROVE UNCHANGED Ledger!ledgerVars
  BY <1>5 DEF Release, data
<1>6. ASSUME NEW k \in LockKeys, Expire(k) PROVE UNCHANGED Ledger!ledgerVars
  BY <1>6 DEF Expire, data
<1>7. CASE Crash
  BY <1>7 DEF Crash, Ledger!Restart, data
<1>8. ASSUME NEW a \in Accounts, Enroll(a)
      PROVE  Ledger!Enroll(a) /\ a \in Ledger!Accounts
  BY <1>8 DEF Enroll, Ledger!Enroll, StartingRow, NoRow, Ledger!StartingRow,
              Ledger!NoRow, Accounts, Ledger!Accounts
<1>9. ASSUME NEW a \in Accounts, NEW t \in CooldownTypes, CooldownElapses(a, t)
      PROVE  Ledger!CooldownElapses(a, t) /\ a \in Ledger!Accounts
  BY <1>9 DEF CooldownElapses, Ledger!CooldownElapses, Accounts, Ledger!Accounts
<1>10. CASE UNCHANGED vars
  BY <1>10 DEF vars
<1> QED BY <1>1, <1>2, <1>3, <1>4, <1>5, <1>6, <1>7, <1>8, <1>9, <1>10
        DEF Next, Progress, Unlocking

\* "ATOMIC" (EconomyService.ts): as long as no lease lapses and nobody
\* transfers, the locks, reads and writes of the repository implement a ledger
\* in which every call takes effect in one step, on current values, or not at all.
THEOREM ImplementsLedger ==
  ASSUME ~LeaseCanLapse, NoTransfers
  PROVE  Spec => LedgerSpec
<1>1. Init => RefinementInv
  <2>1. Init => CooldownInv /\ OwnRowsFresh /\ BankSnapshotsFresh
    BY DEF Init, CooldownInv, CooldownUnclaimed, OwnRowsFresh, OwnRowFresh, ReadOwn,
           BankSnapshotsFresh, BalanceFresh, ReadBalance
  <2> QED BY <2>1, InitTypeInv, InitLocksHeld, InitFunds, InitFound DEF RefinementInv
<1>2. RefinementInv /\ [Next]_vars => RefinementInv'
  BY NextTypeInv, NextLocksHeld, NextFunds, NextCooldown, NextPockets,
     NextBankFresh, NextFound DEF RefinementInv
<1>3. RefinementInv /\ [Next]_vars => [Ledger!Next]_(Ledger!ledgerVars)
  BY LedgerStep
<1> QED BY <1>1, <1>2, <1>3, LedgerInit, PTL DEF Spec, LedgerSpec, Ledger!Spec
=============================================================================
