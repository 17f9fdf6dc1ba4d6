----------------------- MODULE EconomyCommandsProofs -----------------------
(***************************************************************************)
(* Theorems about the gate and the economy commands behind it, for every   *)
(* number of processes, deliveries, interactions and users.                *)
(***************************************************************************)
EXTENDS EconomyCommands, TLAPS

-----------------------------------------------------------------------------
(* The gate.                                                               *)

GateNext ==
  \/ \E d \in Deliveries :
       \/ \E b \in Bots, i \in Interactions : Arrive(d, b, i)
       \/ SetLands(d) \/ Won(d) \/ TimesOut(d) \/ Refused(d) \/ CallFails(d) \/ Finish(d)
  \/ \E b \in Bots : cleanupLocalIdempotency(b) \/ Crash(b)

\* What the answer of Valkey and the key say of each other.
Entry(d) ==
  /\ arrival[d].at = "unseen" => arrival[d].set = "none"
  /\ arrival[d].at = "asking" => arrival[d].set # "none"
  /\ arrival[d].set \in {"won", "refused"} => arrival[d].id \in key
  /\ Ran(d) /\ ~arrival[d].open => arrival[d].set = "won"

OneWinner ==
  \A d, e \in Deliveries :
    d # e /\ arrival[d].id = arrival[e].id
      => ~(arrival[d].set = "won" /\ arrival[e].set = "won")

GateInv == GateTypeOK /\ (\A d \in Deliveries : Entry(d)) /\ OneWinner

LEMMA GateInitially == GateInit => GateInv
<1> SUFFICES ASSUME GateInit PROVE GateInv OBVIOUS
<1>1. (CHOOSE b \in Bots : TRUE) \in Bots /\ (CHOOSE i \in Interactions : TRUE) \in Interactions
  BY GateAssumption
<1>2. Unseen \in Arrivals BY <1>1 DEF Unseen, Arrivals, Stages
<1>3. GateTypeOK BY <1>2 DEF GateInit, GateTypeOK
<1>4. (\A d \in Deliveries : Entry(d)) /\ OneWinner
  BY DEF GateInit, Entry, OneWinner, Ran, Unseen
<1> QED BY <1>3, <1>4 DEF GateInv

\* A step that changes one arrival and grants it nothing.
LEMMA GateMove ==
  ASSUME GateInv, NEW d \in Deliveries, NEW a \in Arrivals,
         arrival' = [arrival EXCEPT ![d] = a],
         a.set = "won" => arrival[d].set = "won" /\ a.id = arrival[d].id,
         key' = key, local' \in [Bots -> SUBSET Interactions], Entry(d)'
  PROVE  GateInv'
<1>1. arrival'[d] = a /\ \A e \in Deliveries \ {d} : arrival'[e] = arrival[e]
  BY DEF GateInv, GateTypeOK
<1>2. GateTypeOK' BY DEF GateInv, GateTypeOK
<1>3. \A e \in Deliveries : Entry(e)' BY <1>1 DEF GateInv, Entry, Ran
<1>4. OneWinner' BY <1>1 DEF GateInv, OneWinner
<1> QED BY <1>2, <1>3, <1>4 DEF GateInv

LEMMA GateStep == GateInv /\ [GateNext]_gateVars => GateInv'
<1> SUFFICES ASSUME GateInv, [GateNext]_gateVars PROVE GateInv' OBVIOUS
<1>1. CASE UNCHANGED gateVars
  BY <1>1 DEF gateVars, GateInv, GateTypeOK, Entry, OneWinner, Ran
<1>2. ASSUME NEW d \in Deliveries, NEW b \in Bots, NEW i \in Interactions,
             Arrive(d, b, i)
      PROVE  GateInv'
  <2> DEFINE a == IF i \in local[b]
                    THEN [arrival[d] EXCEPT !.at = "blocked", !.bot = b, !.id = i]
                    ELSE [arrival[d] EXCEPT !.at = "asking", !.bot = b, !.id = i,
                                            !.set = "sent"]
  <2>1. arrival' = [arrival EXCEPT ![d] = a] BY <1>2 DEF Arrive
  <2>2. arrival[d] \in Arrivals /\ arrival[d].set = "none"
    BY <1>2 DEF Arrive, GateInv, GateTypeOK, Entry
  <2>3. a \in Arrivals BY <2>2 DEF Arrivals, Stages
  <2>4. /\ a.at \in {"blocked", "asking"} /\ a.set \in {"none", "sent"}
        /\ a.at = "asking" => a.set = "sent"
    BY <2>2 DEF Arrivals
  <2>5. arrival'[d] = a BY <2>1 DEF GateInv, GateTypeOK
  <2> HIDE DEF a
  <2>6. Entry(d)' BY <2>4, <2>5 DEF Entry, Ran
  <2> QED BY <1>2, <2>1, <2>3, <2>4, <2>6, GateMove DEF Arrive, GateInv, GateTypeOK
<1>3. ASSUME NEW d \in Deliveries, SetLands(d) PROVE GateInv'
  <2> DEFINE a == [arrival[d] EXCEPT !.set = IF Grants(d) THEN "won" ELSE "refused"]
  <2>1. /\ arrival' = [arrival EXCEPT ![d] = a] /\ a \in Arrivals
        /\ key' = key \cup {arrival[d].id} /\ local' = local
    BY <1>3 DEF SetLands, GateInv, GateTypeOK, Arrivals
  <2>2. arrival'[d] = a /\ \A e \in Deliveries \ {d} : arrival'[e] = arrival[e]
    BY <2>1 DEF GateInv, GateTypeOK
  <2>3. /\ a.at = arrival[d].at /\ a.id = arrival[d].id /\ a.open = arrival[d].open
        /\ a.set \in {"won", "refused"}
        /\ a.set = "won" => arrival[d].id \notin key
    BY <2>1 DEF Grants, GateInv, GateTypeOK, Arrivals
  <2>4. arrival[d].set = "sent" BY <1>3 DEF SetLands
  <2> HIDE DEF a
  <2>5. arrival[d].id \in Interactions BY DEF GateInv, GateTypeOK, Arrivals
  <2>6. GateTypeOK' BY <2>1, <2>5 DEF GateInv, GateTypeOK
  <2>7. ASSUME NEW e \in Deliveries PROVE Entry(e)'
    <3>1. CASE e = d BY <2>1, <2>2, <2>3, <2>4, <3>1 DEF GateInv, Entry, Ran
    <3>2. CASE e # d BY <2>1, <2>2, <3>2 DEF GateInv, Entry, Ran
    <3> QED BY <3>1, <3>2
  <2>8. OneWinner' BY <2>2, <2>3 DEF GateInv, OneWinner, Entry
  <2> QED BY <2>6, <2>7, <2>8 DEF GateInv
<1>4. ASSUME NEW d \in Deliveries, Won(d) \/ TimesOut(d) PROVE GateInv'
  <2>1. PICK open \in BOOLEAN : /\ LetIn(d, open)
                                /\ ~open => arrival[d].set = "won"
    BY <1>4 DEF Won, TimesOut
  <2> DEFINE a == [arrival[d] EXCEPT !.at = "running", !.open = open]
  <2>2. /\ arrival' = [arrival EXCEPT ![d] = a] /\ a \in Arrivals /\ key' = key
        /\ arrival[d].id \in Interactions
    BY <2>1 DEF LetIn, GateInv, GateTypeOK, Arrivals, Stages
  <2>3. local' \in [Bots -> SUBSET Interactions]
    BY <2>1, <2>2 DEF LetIn, GateInv, GateTypeOK
  <2>4. arrival'[d] = a BY <2>2 DEF GateInv, GateTypeOK
  <2>5. a.at = "running" /\ a.open = open /\ a.id = arrival[d].id /\ a.set = arrival[d].set
    BY DEF GateInv, GateTypeOK, Arrivals
  <2> HIDE DEF a
  <2>6. Entry(d)' BY <2>1, <2>2, <2>4, <2>5 DEF Entry, GateInv
  <2> QED BY <2>2, <2>3, <2>5, <2>6, GateMove
<1>5. ASSUME NEW d \in Deliveries, Refused(d) \/ CallFails(d) \/ Finish(d) PROVE GateInv'
  <2>1. PICK s \in {"blocked", "done"} :
          /\ arrival' = [arrival EXCEPT ![d].at = s] /\ key' = key
          /\ s = "done" => arrival[d].at = "running"
    BY <1>5 DEF Refused, CallFails, Blocked, Finish
  <2> DEFINE a == [arrival[d] EXCEPT !.at = s]
  <2>2. arrival' = [arrival EXCEPT ![d] = a] /\ a \in Arrivals
    BY <2>1 DEF GateInv, GateTypeOK, Arrivals, Stages
  <2>3. local' \in [Bots -> SUBSET Interactions]
    BY <1>5 DEF Refused, CallFails, Blocked, Finish, GateInv, GateTypeOK
  <2>4. arrival'[d] = a BY <2>2 DEF GateInv, GateTypeOK
  <2>5. a.at = s /\ a.open = arrival[d].open /\ a.id = arrival[d].id /\ a.set = arrival[d].set
    BY DEF GateInv, GateTypeOK, Arrivals
  <2> HIDE DEF a
  <2>6. Entry(d)' BY <2>1, <2>4, <2>5 DEF Entry, GateInv, Ran
  <2> QED BY <2>1, <2>2, <2>3, <2>5, <2>6, GateMove
<1>6. ASSUME NEW b \in Bots, cleanupLocalIdempotency(b) PROVE GateInv'
  BY <1>6 DEF cleanupLocalIdempotency, GateInv, GateTypeOK, Entry, OneWinner, Ran
<1>7. ASSUME NEW b \in Bots, Crash(b) PROVE GateInv'
  <2>1. ASSUME NEW d \in Deliveries
        PROVE  \E s \in Stages :
                 /\ arrival'[d] = [arrival[d] EXCEPT !.at = s]
                 /\ s \in {"running", "done", "lost"} => Ran(d)
                 /\ s \in {"unseen", "asking"} => arrival[d].at = s
    <3>1. arrival[d] \in Arrivals BY DEF GateInv, GateTypeOK
    <3>2. arrival[d] = [arrival[d] EXCEPT !.at = arrival[d].at] BY <3>1 DEF Arrivals
    <3> QED BY <1>7, <3>1, <3>2 DEF Crash, Ran, Arrivals, Stages
  <2>2. ASSUME NEW d \in Deliveries
        PROVE  /\ arrival'[d] \in Arrivals
               /\ arrival'[d].id = arrival[d].id /\ arrival'[d].set = arrival[d].set
               /\ arrival'[d].open = arrival[d].open
               /\ Ran(d)' => Ran(d)
               /\ arrival'[d].at = "unseen" => arrival[d].at = "unseen"
               /\ arrival'[d].at = "asking" => arrival[d].at = "asking"
    <3>1. PICK s \in Stages :
            /\ arrival'[d] = [arrival[d] EXCEPT !.at = s]
            /\ s \in {"running", "done", "lost"} => Ran(d)
            /\ s \in {"unseen", "asking"} => arrival[d].at = s
      BY <2>1
    <3>2. arrival[d] \in Arrivals BY DEF GateInv, GateTypeOK
    <3>3. arrival'[d].at = s BY <3>1, <3>2 DEF Arrivals
    <3> QED BY <3>1, <3>2, <3>3 DEF Arrivals, Ran
  <2>3. key' = key BY <1>7 DEF Crash
  <2>4. GateTypeOK'
    <3>1. \E f : arrival' = [d \in Deliveries |-> f[d]]
      <4> DEFINE f == [d \in Deliveries |->
            IF arrival[d].bot # b THEN arrival[d]
            ELSE CASE arrival[d].at = "running" -> [arrival[d] EXCEPT !.at = "lost"]
                   [] arrival[d].at = "asking"  -> [arrival[d] EXCEPT !.at = "dropped"]
                   [] OTHER -> arrival[d]]
      <4>1. arrival' = f BY <1>7 DEF Crash
      <4>2. f = [d \in Deliveries |-> f[d]] OBVIOUS
      <4> QED BY <4>1, <4>2
    <3>2. arrival' \in [Deliveries -> Arrivals] BY <2>2, <3>1
    <3>3. local' \in [Bots -> SUBSET Interactions] BY <1>7 DEF Crash, GateInv, GateTypeOK
    <3> QED BY <2>3, <3>2, <3>3 DEF GateInv, GateTypeOK
  <2>5. \A d \in Deliveries : Entry(d)' BY <2>2, <2>3 DEF GateInv, Entry
  <2>6. OneWinner' BY <2>2 DEF GateInv, OneWinner
  <2> QED BY <2>4, <2>5, <2>6 DEF GateInv
<1> QED BY <1>1, <1>2, <1>3, <1>4, <1>5, <1>6, <1>7 DEF GateNext

\* Whatever a command does, it passes the gate by the gate's own steps.
LEMMA GateImplemented == [Next]_vars => [GateNext]_gateVars
<1> SUFFICES ASSUME [Next]_vars, ~UNCHANGED gateVars PROVE GateNext OBVIOUS
<1>1. \/ \E d \in Deliveries : \/ \E b \in Bots, i \in Interactions : Asked(d, b, i)
                               \/ Answered(d) \/ Begin(d) \/ Return(d)
      \/ \E b \in Bots : Dies(b) \/ Cleanup(b)
  BY DEF Next, Command, Elapse, vars, Throws, RateLimitIncr, RateLimitExpire,
         RateLimitFails, IsInJail, ClearSentence, IsInJailFails, WorkLooks, CrimeLooks,
         CrimeReads, RobReads, RobClaims, RobBalance, BailLooks, BailReads, BailPays,
         BailFrees, DepositReads, RetirarReads, MoveReads, Deposit, Withdraw, MoveMoney,
         Earn, Fine, Settle, Steal, PayPenalty, Transfer, SendToJail,
         SentenceRunsOut, CooldownElapses, WindowEnds
<1> QED BY <1>1 DEF GateNext, Asked, Answered, Begin, Return, Dies, Cleanup

\* However often an interaction is delivered, to however many processes, in
\* whatever order the SETs land and whoever crashes: at most one execution rests
\* on an answer of Valkey, every other one has failed open
\* (idempotency.ts:28-82, interactionCreate.ts:46-75).
THEOREM OneExecution == Spec => []ExecutedOnce
<1>1. Init => GateInv BY GateInitially DEF Init
<1>2. GateInv /\ [Next]_vars => GateInv' BY GateStep, GateImplemented
<1>3. GateInv => ExecutedOnce BY DEF GateInv, Entry, OneWinner, ExecutedOnce
<1> QED BY <1>1, <1>2, <1>3, PTL DEF Spec

\* Why nobody is refused in vain: a key has a winner, and an entry of a Set a
\* delivery that runs in that process.
KeyHasWinner ==
  \A i \in key : \E e \in Deliveries : arrival[e].id = i /\ arrival[e].set = "won"

SetHasRunner ==
  \A b \in Bots : \A i \in local[b] : \E e \in Deliveries :
    arrival[e].id = i /\ arrival[e].bot = b /\ arrival[e].at = "running"

WinnersKnown == KeyHasWinner /\ SetHasRunner /\ NeverSwallowed

\* What a step may do to a delivery that has arrived.
Onward(e) ==
  /\ arrival'[e].id = arrival[e].id /\ arrival'[e].bot = arrival[e].bot
  /\ Ran(e) => Ran(e)'
  /\ arrival[e].set \in {"won", "refused"} => arrival'[e].set = arrival[e].set
  /\ arrival'[e].set = "none" => arrival[e].set = "none"

\* Where a delivery may go from where it is.
LEMMA StageSteps ==
  ASSUME GateInv, [GateNext]_gateVars, NEW e \in Deliveries
  PROVE  \/ arrival'[e].at = arrival[e].at
         \/ \E b \in Bots, i \in Interactions : Arrive(e, b, i)
         \/ arrival[e].at = "asking"
         \/ arrival[e].at = "running" /\ (Finish(e) \/ Crash(arrival[e].bot))
<1> USE DEF GateInv, GateTypeOK
<1>0. arrival[e] \in Arrivals OBVIOUS
<1>1. ASSUME NEW d \in Deliveries,
             \/ \E b \in Bots, i \in Interactions : Arrive(d, b, i)
             \/ Won(d) \/ TimesOut(d) \/ Refused(d) \/ CallFails(d) \/ Finish(d),
             e # d
      PROVE  arrival'[e] = arrival[e]
  BY <1>1 DEF Arrive, Won, TimesOut, LetIn, Refused, CallFails, Blocked, Finish
<1>2. ASSUME NEW d \in Deliveries, SetLands(d) PROVE arrival'[e].at = arrival[e].at
  BY <1>0, <1>2 DEF SetLands, Arrivals
<1>3. ASSUME NEW b \in Bots, Crash(b), arrival[e].at # "asking"
      PROVE  \/ arrival'[e].at = arrival[e].at
             \/ arrival[e].at = "running" /\ Crash(arrival[e].bot)
  BY <1>0, <1>3 DEF Crash, Arrivals
<1>4. CASE \E b \in Bots : cleanupLocalIdempotency(b) \/ Crash(b)
  BY <1>3, <1>4 DEF cleanupLocalIdempotency
<1>5. ASSUME NEW d \in Deliveries, Won(d) \/ TimesOut(d) \/ Refused(d) \/ CallFails(d)
      PROVE  arrival[d].at = "asking"
  BY <1>5 DEF Won, TimesOut, Refused, CallFails
<1>6. ASSUME NEW d \in Deliveries, Finish(d) PROVE arrival[d].at = "running"
  BY <1>6 DEF Finish
<1>7. CASE UNCHANGED gateVars BY <1>7 DEF gateVars
<1> QED BY <1>1, <1>2, <1>4, <1>5, <1>6, <1>7 DEF GateNext

LEMMA GoesOnward ==
  ASSUME GateInv, [GateNext]_gateVars, NEW e \in Deliveries, arrival[e].at # "unseen"
  PROVE  Onward(e)
<1> USE DEF Onward, Ran, GateInv, GateTypeOK
<1>0. arrival[e] \in Arrivals OBVIOUS
<1>1. CASE arrival'[e] = arrival[e] BY <1>1
<1>2. ASSUME NEW d \in Deliveries, NEW b \in Bots, NEW i \in Interactions, Arrive(d, b, i)
      PROVE  Onward(e)
  <2>1. d # e BY <1>2 DEF Arrive
  <2> QED BY <1>1, <1>2, <2>1 DEF Arrive
<1>3. ASSUME NEW d \in Deliveries,
             SetLands(d) \/ Won(d) \/ TimesOut(d) \/ Refused(d) \/ CallFails(d) \/ Finish(d)
      PROVE  Onward(e)
  <2>1. CASE e # d
    BY <1>1, <1>3, <2>1 DEF SetLands, Won, TimesOut, LetIn, Refused, CallFails, Blocked, Finish
  <2>2. CASE e = d
    <3>1. CASE SetLands(d) BY <1>0, <2>2, <3>1 DEF SetLands, Arrivals
    <3>2. CASE Won(d) \/ TimesOut(d) BY <1>0, <2>2, <3>2 DEF Won, TimesOut, LetIn, Arrivals
    <3>3. CASE Refused(d) \/ CallFails(d) \/ Finish(d)
      BY <1>0, <2>2, <3>3 DEF Refused, CallFails, Blocked, Finish, Arrivals
    <3> QED BY <1>3, <3>1, <3>2, <3>3
  <2> QED BY <2>1, <2>2
<1>4. ASSUME NEW b \in Bots, Crash(b) PROVE Onward(e)
  BY <1>0, <1>4 DEF Crash, Arrivals
<1>5. CASE (\E b \in Bots : cleanupLocalIdempotency(b)) \/ UNCHANGED gateVars
  BY <1>1, <1>5 DEF cleanupLocalIdempotency, gateVars
<1> QED BY <1>2, <1>3, <1>4, <1>5 DEF GateNext

LEMMA KeysAreWon ==
  ASSUME GateInv, [GateNext]_gateVars, KeyHasWinner
  PROVE  KeyHasWinner'
<1> SUFFICES ASSUME NEW i \in key'
             PROVE  \E e \in Deliveries : arrival'[e].id = i /\ arrival'[e].set = "won"
  BY DEF KeyHasWinner
<1>1. CASE i \in key
  <2>1. PICK e \in Deliveries : arrival[e].id = i /\ arrival[e].set = "won"
    BY <1>1 DEF KeyHasWinner
  <2>2. arrival[e].at # "unseen" BY <2>1 DEF GateInv, Entry
  <2> QED BY <2>1, <2>2, GoesOnward DEF Onward
<1>2. CASE i \notin key
  <2>1. PICK d \in Deliveries : SetLands(d) /\ arrival[d].id = i
    BY <1>2 DEF GateNext, gateVars, Arrive, Won, TimesOut, LetIn, Refused, CallFails,
                Blocked, Finish, cleanupLocalIdempotency, Crash, SetLands
  <2> QED BY <1>2, <2>1 DEF SetLands, Grants, GateInv, GateTypeOK, Arrivals
<1> QED BY <1>1, <1>2

LEMMA SetsAreRunning ==
  ASSUME GateInv, [GateNext]_gateVars, SetHasRunner
  PROVE  SetHasRunner'
<1> SUFFICES ASSUME NEW b \in Bots, NEW i \in local'[b]
             PROVE  \E e \in Deliveries : /\ arrival'[e].id = i /\ arrival'[e].bot = b
                                          /\ arrival'[e].at = "running"
  BY DEF SetHasRunner
<1>0. arrival \in [Deliveries -> Arrivals] /\ local \in [Bots -> SUBSET Interactions]
  BY DEF GateInv, GateTypeOK
<1>1. ASSUME NEW d \in Deliveries, LetIn(d, TRUE) \/ LetIn(d, FALSE),
             i \notin local[b]
      PROVE  arrival'[d].id = i /\ arrival'[d].bot = b /\ arrival'[d].at = "running"
  <2>1. arrival[d] \in Arrivals BY <1>0
  <2>2. arrival[d].bot = b /\ arrival[d].id = i BY <1>0, <1>1 DEF LetIn
  <2> QED BY <1>0, <1>1, <2>1, <2>2 DEF LetIn, Arrivals
<1>2. CASE i \notin local[b]
  <2>1. \E d \in Deliveries : Won(d) \/ TimesOut(d)
    BY <1>0, <1>2 DEF GateNext, gateVars, Arrive, Refused, CallFails, Blocked, Finish,
                      cleanupLocalIdempotency, Crash, SetLands
  <2> QED BY <1>1, <1>2, <2>1 DEF Won, TimesOut
<1>3. CASE i \in local[b]
  <2>1. PICK e \in Deliveries : /\ arrival[e].id = i /\ arrival[e].bot = b
                                /\ arrival[e].at = "running"
    BY <1>3 DEF SetHasRunner
  <2>2. arrival[e] \in Arrivals BY <1>0
  <2>3. CASE arrival'[e].at = "running"
    BY <2>1, <2>3, GoesOnward DEF Onward
  <2>4. CASE arrival'[e].at # "running"
    <3>1. Finish(e) \/ Crash(b) BY <2>1, <2>4, StageSteps DEF Arrive
    <3>2. i \notin local'[b] BY <1>0, <2>1, <3>1 DEF Finish, Crash
    <3> QED BY <3>2
  <2> QED BY <2>3, <2>4
<1> QED BY <1>2, <1>3

LEMMA RefusedForAWinner ==
  ASSUME GateInv, GateInv', [GateNext]_gateVars, WinnersKnown, KeyHasWinner'
  PROVE  NeverSwallowed'
<1> SUFFICES ASSUME NEW d \in Deliveries, arrival'[d].at = "blocked", ~Failed(d)'
             PROVE  \E e \in Deliveries \ {d} :
                      /\ arrival'[e].id = arrival'[d].id
                      /\ Ran(e)' \/ arrival'[e].set = "won"
  <2>1. ASSUME NEW e \in Deliveries, arrival'[e].set = "won"
        PROVE  \/ Ran(e)' \/ arrival'[e].at = "asking" \/ Failed(e)'
               \/ arrival'[e].at = "dropped"
    BY <2>1 DEF GateInv, GateTypeOK, Arrivals, Stages, Entry, Ran, Failed
  <2> QED BY <2>1 DEF NeverSwallowed
<1>1. arrival'[d].set \in {"none", "refused"}
  BY DEF Failed, GateInv, GateTypeOK, Arrivals
<1>2. CASE arrival'[d].set = "refused"
  <2>1. arrival'[d].id \in key' BY <1>2 DEF GateInv, Entry
  <2> QED BY <1>2, <2>1 DEF KeyHasWinner
<1>3. CASE arrival'[d].set = "none" /\ arrival[d].at # "unseen"
  <2>1. Onward(d) BY <1>3, GoesOnward
  <2>2. arrival[d].at = "blocked" /\ arrival[d].set = "none"
    <3>1. arrival[d].set = "none" BY <1>3, <2>1 DEF Onward
    <3>2. arrival[d].at # "asking" BY <3>1 DEF GateInv, Entry
    <3>3. arrival[d].at # "running" BY <2>1 DEF Onward, Ran
    <3> QED BY <1>3, <3>1, <3>2, <3>3, StageSteps DEF Arrive
  <2>3. PICK e \in Deliveries \ {d} : /\ arrival[e].id = arrival[d].id
                                      /\ Ran(e) \/ arrival[e].set = "won"
    BY <2>2 DEF WinnersKnown, NeverSwallowed, Failed
  <2>4. arrival[e].at # "unseen" BY <2>3 DEF GateInv, Entry, Ran
  <2> QED BY <2>1, <2>3, <2>4, GoesOnward DEF Onward
<1>4. CASE arrival[d].at = "unseen"
  <2>1. PICK b \in Bots, i \in Interactions : Arrive(d, b, i)
    BY <1>4, StageSteps
  <2>2. i \in local[b] /\ arrival'[d].id = i
    BY <2>1 DEF Arrive, GateInv, GateTypeOK, Arrivals
  <2>3. PICK e \in Deliveries : arrival[e].id = i /\ arrival[e].at = "running"
    BY <2>2 DEF WinnersKnown, SetHasRunner
  <2> QED BY <1>4, <2>2, <2>3, GoesOnward DEF Onward, Ran
<1> QED BY <1>1, <1>2, <1>3, <1>4

\* A delivery is told that its interaction has been dealt with only because
\* another one was let in, or has the key and only a failing call or a crash
\* can take its answer away (idempotency.ts:34-78, ValkeyClient.ts:493-508).
THEOREM NoneSwallowed == Spec => []NeverSwallowed
<1> DEFINE I == GateInv /\ WinnersKnown
<1>1. Init => I
  <2>1. Init => GateInv BY GateInitially DEF Init
  <2>2. Init => WinnersKnown
    <3> SUFFICES ASSUME Init PROVE WinnersKnown OBVIOUS
    <3>1. key = {} /\ \A b \in Bots : local[b] = {} BY DEF Init, GateInit
    <3>2. \A d \in Deliveries : arrival[d].at = "unseen" BY DEF Init, GateInit, Unseen
    <3> QED BY <3>1, <3>2 DEF WinnersKnown, KeyHasWinner, SetHasRunner, NeverSwallowed
  <2> QED BY <2>1, <2>2
<1>2. I /\ [Next]_vars => I'
  <2> SUFFICES ASSUME I, [Next]_vars PROVE I' OBVIOUS
  <2>1. [GateNext]_gateVars BY GateImplemented
  <2>2. GateInv' BY <2>1, GateStep
  <2>3. KeyHasWinner' /\ SetHasRunner'
    BY <2>1, KeysAreWon, SetsAreRunning DEF WinnersKnown
  <2> QED BY <2>1, <2>2, <2>3, RefusedForAWinner DEF WinnersKnown
<1>3. I => NeverSwallowed BY DEF WinnersKnown
<1> QED BY <1>1, <1>2, <1>3, PTL DEF Spec

-----------------------------------------------------------------------------
(* The commands.                                                           *)

\* What a command has in hand fits what it was asked and where it stands.
CommandOK(d) ==
  /\ arrival[d].at # "unseen" => request[arrival[d].id] \in Requests
  /\ arrival[d].at # "running" => step[d] = "idle"
  /\ step[d] = "idle" => plan[d].act = "none"
  /\ plan[d].act \in {"earn", "fine"} => Kind(d) \in {"work", "crime"}
  /\ step[d] \in {"claim", "balance"} => Kind(d) = "rob"
  /\ step[d] = "act" /\ Kind(d) = "bail" => plan[d].amount <= plan[d].from

Hands ==
  /\ request \in [Interactions -> Requests \cup {NoRequest}]
  /\ step \in [Deliveries -> Steps]
  /\ plan \in [Deliveries -> Plans]
  /\ \A d \in Deliveries : CommandOK(d)

\* The rows and the counters; the balances are never negative.
Solvent == pocket \in [Users -> Nat] /\ bank \in [Users -> Nat]

Books ==
  /\ Solvent
  /\ sentence \in [Users -> Sentences]
  /\ cooling \in [Users -> SUBSET Limited]
  /\ rate \in [Users -> [Limited -> [used : Nat, expires : BOOLEAN]]]
  /\ incidents \in 0 .. MaxIncidents

Inv == GateInv /\ Hands /\ Books

LEMMA InitInv == Init => Inv
<1> SUFFICES ASSUME Init PROVE Inv OBVIOUS
<1>1. GateInv BY GateInitially DEF Init
<1>2. NoPlan \in Plans BY DEF NoPlan, Plans, Acts
<1>3. Hands BY <1>2 DEF Init, Hands, CommandOK, GateInit, Unseen, Steps, NoPlan
<1>4. Books
  BY CommandsAssumption DEF Init, Books, Solvent, NoUse
<1> QED BY <1>1, <1>3, <1>4 DEF Inv

\* Requests are what users may ask.
LEMMA RequestFields ==
  ASSUME Inv, NEW d \in Deliveries, arrival[d].at # "unseen"
  PROVE  Who(d) \in Users /\ Req(d).peer \in Users /\ Req(d).amount \in Nat
BY CommandsAssumption DEF Inv, Hands, CommandOK, Who, Req

\* A share of a balance is a whole, non-negative amount.
LEMMA ShareIsNat ==
  ASSUME NEW n \in Nat, NEW t \in Nat
  PROVE  Share(n, t) \in Nat
<1>1. n * t + 5 \in Nat OBVIOUS
<1> QED BY <1>1 DEF Share

LEMMA Deciding ==
  ASSUME Inv, NEW d \in Deliveries, NEW act \in Acts, NEW amount \in Nat,
         Decides(d, act, amount)
  PROVE  \E q \in Plans : plan' = [plan EXCEPT ![d] = q] /\ q.act = act
<1> DEFINE q == [plan[d] EXCEPT !.act = act, !.amount = amount]
<1>1. plan[d] \in Plans BY DEF Inv, Hands
<1>2. q \in Plans /\ q.act = act BY <1>1 DEF Plans
<1>3. plan' = [plan EXCEPT ![d] = q] BY DEF Decides, Inv, Hands
<1> QED BY <1>2, <1>3

\* A command goes on, and nobody else.
LEMMA Stepping ==
  ASSUME Inv, NEW d \in Deliveries, arrival[d].at = "running",
         UNCHANGED <<gateVars, request>>,
         NEW s \in Steps \ {"idle"}, step' = [step EXCEPT ![d] = s],
         NEW q \in Plans, plan' = [plan EXCEPT ![d] = q],
         q.act \in {"earn", "fine"} => Kind(d) \in {"work", "crime"},
         s \in {"claim", "balance"} => Kind(d) = "rob",
         s = "act" /\ Kind(d) = "bail" => q.amount <= q.from
  PROVE  GateInv' /\ Hands'
<1>1. GateInv' BY GateStep DEF Inv
<1>2. step' \in [Deliveries -> Steps] /\ plan' \in [Deliveries -> Plans]
  BY DEF Inv, Hands
<1>3. ASSUME NEW e \in Deliveries PROVE CommandOK(e)'
  <2>1. Kind(e)' = Kind(e) BY DEF Kind, Req, gateVars
  <2>2. arrival'[e] = arrival[e] /\ request' = request BY DEF gateVars
  <2>3. CASE e # d
    BY <2>1, <2>2, <2>3 DEF Inv, Hands, CommandOK
  <2>4. CASE e = d
    BY <2>1, <2>2, <2>4 DEF Inv, Hands, CommandOK
  <2> QED BY <2>3, <2>4
<1> QED BY <1>1, <1>2, <1>3 DEF Hands, Inv

\* ... without a new decision.
LEMMA Moving ==
  ASSUME Inv, NEW d \in Deliveries, arrival[d].at = "running",
         UNCHANGED <<gateVars, request, plan>>,
         NEW s \in Steps \ {"idle", "act"}, Goes(d, s),
         s \in {"claim", "balance"} => Kind(d) = "rob"
  PROVE  GateInv' /\ Hands'
<1>1. plan[d] \in Plans /\ plan' = [plan EXCEPT ![d] = plan[d]]
  BY DEF Inv, Hands
<1>2. plan[d].act \in {"earn", "fine"} => Kind(d) \in {"work", "crime"}
  BY DEF Inv, Hands, CommandOK
<1> QED BY <1>1, <1>2, Stepping DEF Goes

\* The steps that only look, or fail, or wait for an answer.
LEMMA LookingSteps ==
  ASSUME Inv, NEW d \in Deliveries,
         \/ Throws(d) \/ RateLimitIncr(d) \/ RateLimitExpire(d) \/ RateLimitFails(d)
         \/ IsInJail(d) \/ ClearSentence(d) \/ IsInJailFails(d)
         \/ CrimeLooks(d) \/ BailLooks(d)
  PROVE  GateInv' /\ Hands'
<1>1. arrival[d].at = "running" /\ UNCHANGED <<gateVars, request, plan>>
  BY DEF Throws, RateLimitIncr, RateLimitExpire, RateLimitFails, IsInJail,
         ClearSentence, IsInJailFails, CrimeLooks, BailLooks, At
<1>2. \E s \in {"limit", "expire", "jail", "clear", "look", "read", "end"} : Goes(d, s)
  BY DEF Throws, RateLimitIncr, RateLimitExpire, RateLimitFails, IsInJail,
         ClearSentence, IsInJailFails, CrimeLooks, BailLooks, AfterLimit, AfterJail, Ends
<1>3. PICK s \in {"limit", "expire", "jail", "clear", "look", "read", "end"} : Goes(d, s)
  BY <1>2
<1>4. s \in Steps \ {"idle", "act"} BY DEF Steps
<1> QED BY <1>1, <1>3, <1>4, Moving

\* The steps that decide, on balances that are never negative.
LEMMA DecidingSteps ==
  ASSUME Inv, NEW d \in Deliveries,
         \/ WorkLooks(d) \/ CrimeReads(d) \/ RobReads(d) \/ RobBalance(d)
         \/ DepositReads(d) \/ RetirarReads(d)
  PROVE  GateInv' /\ Hands'
<1>1. arrival[d].at = "running" /\ UNCHANGED <<gateVars, request>> /\ Kind(d) # "bail"
  BY DEF WorkLooks, CrimeReads, RobReads, RobBalance, DepositReads, RetirarReads,
         MoveReads, At, Inv, Hands, CommandOK
<1>2. /\ pocket[Who(d)] \in Nat /\ bank[Who(d)] \in Nat /\ pocket[Req(d).peer] \in Nat
      /\ Req(d).amount \in Nat
  BY <1>1, RequestFields DEF Inv, Books, Solvent
<1>3. CASE \E s \in {"end", "read"} : Goes(d, s) /\ UNCHANGED plan
  BY <1>1, <1>3, Moving DEF Steps
<1>4. CASE \E act \in Acts, amount \in Nat, s \in {"act", "claim"} :
             /\ Decides(d, act, amount) /\ Goes(d, s)
             /\ act \in {"earn", "fine"} => Kind(d) \in {"work", "crime"}
             /\ s = "claim" => Kind(d) = "rob"
  <2>1. PICK act \in Acts, amount \in Nat, s \in {"act", "claim"} :
             /\ Decides(d, act, amount) /\ Goes(d, s)
             /\ act \in {"earn", "fine"} => Kind(d) \in {"work", "crime"}
             /\ s = "claim" => Kind(d) = "rob"
    BY <1>4
  <2>2. PICK q \in Plans : plan' = [plan EXCEPT ![d] = q] /\ q.act = act
    BY <2>1, Deciding
  <2> QED BY <1>1, <2>1, <2>2, Stepping DEF Goes, Steps
<1>5. \/ \E s \in {"end", "read"} : Goes(d, s) /\ UNCHANGED plan
      \/ \E act \in Acts, amount \in Nat, s \in {"act", "claim"} :
             /\ Decides(d, act, amount) /\ Goes(d, s)
             /\ act \in {"earn", "fine"} => Kind(d) \in {"work", "crime"}
             /\ s = "claim" => Kind(d) = "rob"
  <2> USE DEF Acts, Ends
  <2>1. CASE WorkLooks(d)
    BY <2>1, CommandsAssumption DEF WorkLooks
  <2>2. CASE CrimeReads(d)
    <3>1. WorkPay * Multiplier \in Nat BY CommandsAssumption
    <3>2. Share(pocket[Who(d)], 5) \in Nat BY <1>2, ShareIsNat
    <3> QED BY <2>2, <3>1, <3>2 DEF CrimeReads
  <2>3. CASE RobReads(d)
    <3>1. Share(pocket[Req(d).peer], 4) \in Nat /\ Share(pocket[Req(d).peer], 8) \in Nat
      BY <1>2, ShareIsNat
    <3> QED BY <2>3, <3>1 DEF RobReads
  <2>4. CASE RobBalance(d)
    <3>1. Share(pocket[Who(d)] + bank[Who(d)], 2) \in Nat
      <4>1. pocket[Who(d)] + bank[Who(d)] \in Nat BY <1>2
      <4> QED BY <4>1, ShareIsNat
    <3>2. Kind(d) = "rob" BY <2>4 DEF RobBalance, At, Inv, Hands, CommandOK
    <3> QED BY <2>4, <3>1, <3>2 DEF RobBalance
  <2>5. CASE DepositReads(d) \/ RetirarReads(d)
    BY <1>2, <2>5 DEF DepositReads, RetirarReads, MoveReads
  <2> QED BY <2>1, <2>2, <2>3, <2>4, <2>5
<1> QED BY <1>3, <1>4, <1>5

\* The price of a bail is covered by the balance it was compared with.
LEMMA BailSteps ==
  ASSUME Inv, NEW d \in Deliveries, BailReads(d)
  PROVE  GateInv' /\ Hands'
<1>1. arrival[d].at = "running" /\ UNCHANGED <<gateVars, request>> /\ Kind(d) = "bail"
  BY DEF BailReads, At
<1>2. pocket[Who(d)] \in Nat /\ bank[Who(d)] \in Nat
  BY <1>1, RequestFields DEF Inv, Books, Solvent
<1>3. PICK price : price = Share(pocket[Who(d)] + bank[Who(d)], 2) OBVIOUS
<1>4. PICK from : from = bank[Who(d)] OBVIOUS
<1>5. price \in Nat /\ from \in Nat /\ from \in Int
  <2>1. pocket[Who(d)] + bank[Who(d)] \in Nat BY <1>2
  <2> QED BY <1>2, <1>3, <1>4, <2>1, ShareIsNat
<1>6. CASE Ends(d) /\ UNCHANGED plan
  BY <1>1, <1>6, Moving DEF Ends, Steps
<1>7. CASE /\ from >= price /\ Goes(d, "act")
           /\ plan' = [plan EXCEPT ![d].amount = price, ![d].from = from]
  <2> DEFINE q == [plan[d] EXCEPT !.amount = price, !.from = from]
  <2>1. plan[d] \in Plans BY DEF Inv, Hands
  <2>2. q \in Plans /\ q.act = plan[d].act /\ q.amount = price /\ q.from = from
    BY <1>5, <2>1 DEF Plans
  <2>3. plan' = [plan EXCEPT ![d] = q] BY <1>7 DEF Inv, Hands
  <2>4. q.act \in {"earn", "fine"} => Kind(d) \in {"work", "crime"}
    BY <2>2 DEF Inv, Hands, CommandOK
  <2> HIDE DEF q
  <2>5. q.amount <= q.from BY <1>5, <1>7, <2>2
  <2>6. step' = [step EXCEPT ![d] = "act"] /\ "act" \in Steps \ {"idle"}
    BY <1>7 DEF Goes, Steps
  <2> QED BY <1>1, <2>2, <2>3, <2>4, <2>5, <2>6, Stepping
<1>8. \/ Ends(d) /\ UNCHANGED plan
      \/ /\ from >= price /\ Goes(d, "act")
         /\ plan' = [plan EXCEPT ![d].amount = price, ![d].from = from]
  BY <1>3, <1>4, <1>5 DEF BailReads
<1> QED BY <1>6, <1>7, <1>8

\* The steps that write; RobClaims goes on to the robbery or to the penalty.
LEMMA ActingSteps ==
  ASSUME Inv, NEW d \in Deliveries,
         \/ RobClaims(d) \/ Earn(d) \/ Fine(d) \/ Steal(d) \/ PayPenalty(d)
         \/ SendToJail(d) \/ Deposit(d) \/ Withdraw(d) \/ BailPays(d) \/ BailFrees(d)
  PROVE  GateInv' /\ Hands'
<1>1. arrival[d].at = "running" /\ UNCHANGED <<gateVars, request, plan>>
  BY DEF RobClaims, Earn, Fine, Settle, Steal, PayPenalty, Transfer, SendToJail,
         Deposit, Withdraw, MoveMoney, BailPays, BailFrees, Acting, At
<1>2. CASE RobClaims(d)
  <2>1. Kind(d) = "rob" BY <1>2 DEF RobClaims, At, Inv, Hands, CommandOK
  <2>2. plan[d] \in Plans /\ plan' = [plan EXCEPT ![d] = plan[d]]
    BY <1>1 DEF Inv, Hands
  <2>3. plan[d].act \in {"earn", "fine"} => Kind(d) \in {"work", "crime"}
    BY DEF Inv, Hands, CommandOK
  <2>4. \E s \in {"balance", "act", "end"} : Goes(d, s)
    BY <1>2 DEF RobClaims, Ends
  <2> QED BY <1>1, <2>1, <2>2, <2>3, <2>4, Stepping DEF Goes, Steps
<1>3. CASE ~RobClaims(d)
  <2>1. \E s \in {"free", "end"} : Goes(d, s)
    BY <1>3 DEF Earn, Fine, Settle, Steal, PayPenalty, Transfer, SendToJail,
         Deposit, Withdraw, MoveMoney, BailPays, BailFrees, Ends
  <2> QED BY <1>1, <2>1, Moving DEF Steps
<1> QED BY <1>2, <1>3

\* The steps of the gate: one command begins or returns, or a process dies.
LEMMA GateSteps ==
  ASSUME Inv, NEW d \in Deliveries,
         \/ \E b \in Bots, i \in Interactions : Asked(d, b, i)
         \/ Answered(d) \/ Begin(d) \/ Return(d)
  PROVE  Hands'
<1> USE DEF GateInv, GateTypeOK
<1>1. CASE \E b \in Bots, i \in Interactions : Asked(d, b, i)
  <2>1. PICK b \in Bots, i \in Interactions : Asked(d, b, i) BY <1>1
  <2>2. /\ arrival[d].at = "unseen" /\ UNCHANGED <<step, plan>>
        /\ arrival'[d].id = i /\ arrival'[d].at \in {"blocked", "asking"}
        /\ \A e \in Deliveries \ {d} : arrival'[e] = arrival[e]
    BY <2>1 DEF Asked, Arrive, Inv, Arrivals
  <2>3. /\ request' \in [Interactions -> Requests \cup {NoRequest}]
        /\ request'[i] \in Requests
        /\ \A j \in Interactions : request[j] \in Requests => request'[j] = request[j]
    BY <2>1, CommandsAssumption DEF Asked, Inv, Hands
  <2>4. ASSUME NEW e \in Deliveries PROVE CommandOK(e)'
    <3>1. CASE e = d
      BY <2>2, <2>3, <3>1 DEF Inv, Hands, CommandOK
    <3>2. CASE e # d
      <4>1. arrival[e].id \in Interactions BY DEF Inv, Arrivals
      <4>2. CASE arrival[e].at = "unseen"
        BY <2>2, <3>2, <4>2 DEF Inv, Hands, CommandOK
      <4>3. CASE arrival[e].at # "unseen"
        <5>1. Kind(e)' = Kind(e) /\ request'[arrival'[e].id] \in Requests
          BY <2>2, <2>3, <3>2, <4>1, <4>3 DEF Kind, Req, Inv, Hands, CommandOK
        <5> QED BY <2>2, <3>2, <4>3, <5>1 DEF Inv, Hands, CommandOK
      <4> QED BY <4>2, <4>3
    <3> QED BY <3>1, <3>2
  <2> QED BY <2>2, <2>3, <2>4 DEF Hands, Inv
<1>2. CASE Answered(d)
  <2>1. /\ UNCHANGED <<request, step, plan>>
        /\ \A e \in Deliveries :
             /\ arrival'[e].id = arrival[e].id
             /\ arrival'[e].at = "unseen" <=> arrival[e].at = "unseen"
             /\ arrival'[e].at = "running" <=> arrival[e].at = "running"
    BY <1>2 DEF Answered, SetLands, Refused, CallFails, Blocked, Inv, Arrivals
  <2> QED BY <2>1 DEF Inv, Hands, CommandOK, Kind, Req
<1>3. CASE Begin(d)
  <2>1. /\ UNCHANGED <<request, plan>> /\ arrival[d].at = "asking"
        /\ \A e \in Deliveries : arrival'[e].id = arrival[e].id
        /\ \A e \in Deliveries \ {d} : arrival'[e] = arrival[e] /\ step'[e] = step[e]
        /\ arrival'[d].at = "running"
    BY <1>3 DEF Begin, Won, TimesOut, LetIn, Goes, Inv, Hands, Arrivals
  <2>2. /\ step' \in [Deliveries -> Steps]
        /\ step'[d] \in {"limit", "look", "jail"}
    BY <1>3 DEF Begin, Goes, FirstStep, Inv, Hands, Steps
  <2> QED BY <2>1, <2>2 DEF Inv, Hands, CommandOK, Kind, Req
<1>4. CASE Return(d)
  <2>1. /\ request' = request /\ arrival[d].at = "running"
        /\ step' = [step EXCEPT ![d] = "idle"] /\ plan' = [plan EXCEPT ![d] = NoPlan]
        /\ \A e \in Deliveries : arrival'[e].id = arrival[e].id
        /\ \A e \in Deliveries \ {d} : arrival'[e] = arrival[e]
        /\ arrival'[d].at = "done"
    BY <1>4 DEF Return, At, Finish, Goes, Inv, Arrivals
  <2>2. NoPlan \in Plans /\ NoPlan.act = "none" BY DEF NoPlan, Plans, Acts
  <2>3. step' \in [Deliveries -> Steps] /\ plan' \in [Deliveries -> Plans]
    BY <2>1, <2>2 DEF Inv, Hands, Steps
  <2>4. ASSUME NEW e \in Deliveries PROVE CommandOK(e)'
    <3>1. Kind(e)' = Kind(e) BY <2>1 DEF Kind, Req
    <3>2. CASE e = d BY <2>1, <2>2, <3>2 DEF Inv, Hands, CommandOK
    <3>3. CASE e # d BY <2>1, <3>1, <3>3 DEF Inv, Hands, CommandOK
    <3> QED BY <3>2, <3>3
  <2> QED BY <2>1, <2>3, <2>4 DEF Inv, Hands
<1> QED BY <1>1, <1>2, <1>3, <1>4

LEMMA DyingSteps ==
  ASSUME Inv, GateInv', NEW b \in Bots, Dies(b)
  PROVE  Hands'
<1>1. request' = request BY DEF Dies
<1>2. ASSUME NEW d \in Deliveries
      PROVE  /\ arrival'[d].id = arrival[d].id
             /\ arrival'[d].at = "unseen" <=> arrival[d].at = "unseen"
             /\ arrival'[d].at # "lost" /\ arrival'[d].at # "running"
                  => arrival[d].at # "running"
  <2>1. arrival[d] \in Arrivals BY DEF Inv, GateInv, GateTypeOK
  <2> QED BY <2>1 DEF Dies, Crash, Arrivals
<1>3. NoPlan \in Plans /\ NoPlan.act = "none" BY DEF NoPlan, Plans, Acts
<1>4. step' \in [Deliveries -> Steps] /\ plan' \in [Deliveries -> Plans]
  BY <1>3 DEF Dies, Inv, Hands, Steps
<1>5. ASSUME NEW d \in Deliveries PROVE CommandOK(d)'
  <2>1. Kind(d)' = Kind(d) BY <1>1, <1>2 DEF Kind, Req
  <2>2. CASE arrival'[d].at = "lost"
    <3>1. step'[d] = "idle" /\ plan'[d] = NoPlan BY <2>2 DEF Dies
    <3> QED BY <1>1, <1>2, <1>3, <2>2, <3>1 DEF Inv, Hands, CommandOK
  <2>3. CASE arrival'[d].at # "lost"
    <3>1. step'[d] = step[d] /\ plan'[d] = plan[d] BY <2>3 DEF Dies
    <3> QED BY <1>1, <1>2, <2>1, <2>3, <3>1 DEF Inv, Hands, CommandOK
  <2> QED BY <2>2, <2>3
<1> QED BY <1>1, <1>4, <1>5 DEF Inv, Hands


-----------------------------------------------------------------------------
(* The rows.                                                               *)

\* What a command pays with was checked on the row itself, or was part of it.
LEMMA PocketSteps ==
  ASSUME Inv, NEW d \in Deliveries,
         Earn(d) \/ Fine(d) \/ Steal(d) \/ PayPenalty(d)
  PROVE  Books'
<1> DEFINE n == plan[d].amount
<1>1. arrival[d].at = "running"
  BY DEF Earn, Fine, Settle, Steal, PayPenalty, Transfer, Acting, At
<1>2. Who(d) \in Users /\ Req(d).peer \in Users BY <1>1, RequestFields
<1>3. n \in Nat BY DEF Inv, Hands, Plans
<1>4. pocket \in [Users -> Nat] BY DEF Inv, Books, Solvent
<1>5. CASE Earn(d) \/ Fine(d)
  <2>1. Kind(d) \in Limited
    BY <1>5 DEF Earn, Fine, Settle, Acting, Inv, Hands, CommandOK, Limited
  <2>2. pocket' \in [Users -> Nat]
    BY <1>2, <1>3, <1>4, <1>5 DEF Earn, Fine, Settle, Affords
  <2>3. cooling' \in [Users -> SUBSET Limited]
    BY <1>2, <1>5, <2>1 DEF Earn, Fine, Settle, Inv, Books
  <2> QED BY <1>5, <2>2, <2>3 DEF Earn, Fine, Settle, Inv, Books, Solvent
<1>6. CASE Steal(d) \/ PayPenalty(d)
  <2>1. pocket' \in [Users -> Nat]
    <3>1. PICK from \in Users, to \in Users :
            \/ /\ n > 0 /\ pocket[from] >= n
               /\ pocket' = [pocket EXCEPT ![from] = @ - n, ![to] = @ + n]
            \/ pocket' = pocket
      BY <1>2, <1>6 DEF Steal, PayPenalty, Transfer, Affords
    <3> HIDE DEF n
    <3> QED BY <1>3, <1>4, <3>1
  <2> QED BY <1>6, <2>1 DEF Steal, PayPenalty, Transfer, Inv, Books, Solvent
<1> QED BY <1>5, <1>6

LEMMA BankSteps ==
  ASSUME Inv, NEW d \in Deliveries, Deposit(d) \/ Withdraw(d) \/ BailPays(d)
  PROVE  Books'
<1> DEFINE n == plan[d].amount
<1>1. arrival[d].at = "running"
  BY DEF Deposit, Withdraw, BailPays, MoveMoney, Acting, At
<1>2. Who(d) \in Users BY <1>1, RequestFields
<1>3. n \in Nat BY DEF Inv, Hands, Plans
<1>4. pocket \in [Users -> Nat] /\ bank \in [Users -> Nat] BY DEF Inv, Books, Solvent
<1>5. Solvent'
  <2>1. CASE Deposit(d) \/ Withdraw(d)
    <3>1. \/ UNCHANGED <<pocket, bank>>
          \/ /\ pocket[Who(d)] >= n
             /\ pocket' = [pocket EXCEPT ![Who(d)] = @ - n]
             /\ bank' = [bank EXCEPT ![Who(d)] = @ + n]
          \/ /\ bank[Who(d)] >= n
             /\ pocket' = [pocket EXCEPT ![Who(d)] = @ - -n]
             /\ bank' = [bank EXCEPT ![Who(d)] = @ + -n]
      BY <2>1 DEF Deposit, Withdraw, MoveMoney, Affords
    <3> HIDE DEF n
    <3> QED BY <1>2, <1>3, <1>4, <3>1 DEF Solvent
  <2>2. CASE BailPays(d)
    <3>1. n <= plan[d].from /\ plan[d].from \in Int
      BY <2>2 DEF BailPays, At, Inv, Hands, CommandOK, Plans
    <3>2. plan[d].from - n \in Nat BY <1>3, <3>1
    <3> QED BY <1>4, <2>2, <3>2 DEF BailPays, Solvent
  <2> QED BY <2>1, <2>2
<1> QED
  BY <1>5 DEF Deposit, Withdraw, BailPays, MoveMoney, Inv, Books

\* The steps that write sentences, cooldowns and counters only.
LEMMA RecordSteps ==
  ASSUME Inv, NEW d \in Deliveries,
         \/ RobClaims(d) \/ SendToJail(d) \/ BailFrees(d) \/ ClearSentence(d)
         \/ RateLimitIncr(d) \/ RateLimitExpire(d)
  PROVE  Books'
<1>1. arrival[d].at = "running"
  BY DEF RobClaims, SendToJail, BailFrees, ClearSentence, RateLimitIncr,
         RateLimitExpire, Acting, At
<1>2. Who(d) \in Users BY <1>1, RequestFields
<1>3. CASE RobClaims(d)
  <2>1. "rob" \in Limited BY DEF Limited
  <2>2. cooling' \in [Users -> SUBSET Limited]
    <3>1. cooling \in [Users -> SUBSET Limited] BY DEF Inv, Books
    <3>2. cooling[Who(d)] \cup {"rob"} \in SUBSET Limited BY <1>2, <2>1, <3>1
    <3>3. \/ cooling' = [cooling EXCEPT ![Who(d)] = cooling[Who(d)] \cup {"rob"}]
          \/ cooling' = cooling
      BY <1>3 DEF RobClaims
    <3> QED BY <1>2, <3>1, <3>2, <3>3
  <2> QED BY <1>3, <2>2 DEF RobClaims, Inv, Books, Solvent, moneyVars
<1>4. CASE SendToJail(d) \/ BailFrees(d) \/ ClearSentence(d)
  BY <1>2, <1>4 DEF SendToJail, BailFrees, ClearSentence, Inv, Books, Solvent,
                    Sentences, moneyVars
<1>5. CASE RateLimitIncr(d) \/ RateLimitExpire(d)
  <2>1. rate' \in [Users -> [Limited -> [used : Nat, expires : BOOLEAN]]]
    <3> DEFINE Counters == [used : Nat, expires : BOOLEAN]
               u == Who(d)
    <3>1. rate[u] \in [Limited -> Counters] BY <1>2 DEF Inv, Books
    <3>2. PICK f \in [Limited -> Counters] : rate' = [rate EXCEPT ![u] = f]
      <4>1. CASE Kind(d) \notin Limited
        <5>1. rate' = [rate EXCEPT ![u] = rate[u]]
          BY <1>2, <1>5, <3>1, <4>1 DEF RateLimitIncr, RateLimitExpire, Inv, Books
        <5> QED BY <3>1, <5>1
      <4>2. CASE Kind(d) \in Limited
        <5> DEFINE r == rate[u][Kind(d)]
        <5>1. r \in Counters BY <3>1, <4>2
        <5>2. PICK q \in Counters : rate' = [rate EXCEPT ![u] = [rate[u] EXCEPT ![Kind(d)] = q]]
          <6>1. CASE RateLimitExpire(d)
            <7>1. [r EXCEPT !.expires = TRUE] \in Counters BY <5>1
            <7>2. rate' = [rate EXCEPT ![u] =
                             [rate[u] EXCEPT ![Kind(d)] = [r EXCEPT !.expires = TRUE]]]
              BY <1>2, <3>1, <4>2, <6>1 DEF RateLimitExpire, Inv, Books
            <7> QED BY <7>1, <7>2
          <6>2. CASE RateLimitIncr(d)
            <7>1. [r EXCEPT !.used = r.used + 1] \in Counters BY <5>1
            <7>2. rate' = [rate EXCEPT ![u] =
                             [rate[u] EXCEPT ![Kind(d)] = [r EXCEPT !.used = r.used + 1]]]
              BY <1>2, <3>1, <4>2, <6>2 DEF RateLimitIncr, Inv, Books
            <7> QED BY <7>1, <7>2
          <6> QED BY <1>5, <6>1, <6>2
        <5> QED BY <3>1, <4>2, <5>2
      <4> QED BY <4>1, <4>2
    <3> QED BY <1>2, <3>2 DEF Inv, Books
  <2> QED BY <1>5, <2>1 DEF RateLimitIncr, RateLimitExpire, userVars, Inv, Books, Solvent
<1> QED BY <1>3, <1>4, <1>5

\* The steps that leave the rows alone, and may be an incident.
LEMMA IdleSteps ==
  ASSUME Inv, UNCHANGED <<userVars, rate>>, Incident \/ UNCHANGED incidents
  PROVE  Books'
BY CommandsAssumption DEF Inv, Books, Solvent, userVars, Incident

LEMMA NextInv == Inv /\ [Next]_vars => Inv'
<1> SUFFICES ASSUME Inv, [Next]_vars PROVE Inv' OBVIOUS
<1>1. GateInv' BY GateStep, GateImplemented DEF Inv
<1>2. ASSUME NEW d \in Deliveries, Command(d) PROVE Inv'
  <2>1. CASE \/ \E b \in Bots, i \in Interactions : Asked(d, b, i)
             \/ Answered(d) \/ Begin(d) \/ Return(d)
    <3>1. UNCHANGED <<userVars, rate>> /\ (Incident \/ UNCHANGED incidents)
      BY <2>1 DEF Asked, Answered, Begin, Return, Incident
    <3> QED BY <1>1, <2>1, <3>1, GateSteps, IdleSteps DEF Inv
  <2>2. CASE \/ Throws(d) \/ RateLimitFails(d) \/ IsInJailFails(d) \/ CrimeLooks(d)
             \/ BailLooks(d) \/ IsInJail(d) \/ WorkLooks(d) \/ CrimeReads(d)
             \/ RobReads(d) \/ RobBalance(d) \/ DepositReads(d) \/ RetirarReads(d)
             \/ BailReads(d)
    <3>1. UNCHANGED <<userVars, rate>> /\ (Incident \/ UNCHANGED incidents)
      BY <2>2 DEF Throws, RateLimitFails, IsInJailFails, CrimeLooks, BailLooks,
                  IsInJail, WorkLooks, CrimeReads, RobReads, RobBalance,
                  DepositReads, RetirarReads, MoveReads, BailReads
    <3>2. Books' BY <3>1, IdleSteps
    <3>3. Hands' BY <2>2, LookingSteps, DecidingSteps, BailSteps
    <3> QED BY <1>1, <3>2, <3>3 DEF Inv
  <2>3. CASE RateLimitIncr(d) \/ RateLimitExpire(d) \/ ClearSentence(d)
    BY <2>3, LookingSteps, RecordSteps DEF Inv
  <2>4. CASE RobClaims(d) \/ SendToJail(d) \/ BailFrees(d)
    BY <2>4, ActingSteps, RecordSteps DEF Inv
  <2>5. CASE Earn(d) \/ Fine(d) \/ Steal(d) \/ PayPenalty(d)
    BY <2>5, ActingSteps, PocketSteps DEF Inv
  <2>6. CASE Deposit(d) \/ Withdraw(d) \/ BailPays(d)
    BY <2>6, ActingSteps, BankSteps DEF Inv
  <2> QED BY <1>2, <2>1, <2>2, <2>3, <2>4, <2>5, <2>6 DEF Command
<1>3. ASSUME NEW b \in Bots, Dies(b) PROVE Inv'
  <2>1. Books' BY <1>3, IdleSteps DEF Dies
  <2> QED BY <1>1, <1>3, <2>1, DyingSteps DEF Inv
<1>4. ASSUME NEW b \in Bots, Cleanup(b) PROVE Inv'
  <2>1. Books' BY <1>4, IdleSteps DEF Cleanup
  <2>2. Hands'
    BY <1>4 DEF Cleanup, cleanupLocalIdempotency, Inv, Hands, CommandOK, Kind, Req
  <2> QED BY <1>1, <2>1, <2>2 DEF Inv
<1>5. ASSUME NEW u \in Users, NEW k \in Limited,
             SentenceRunsOut(u) \/ CooldownElapses(u, k) \/ WindowEnds(u, k)
      PROVE  Inv'
  <2>1. Hands'
    BY <1>5 DEF SentenceRunsOut, CooldownElapses, WindowEnds, gateVars,
                Inv, Hands, CommandOK, Kind, Req
  <2>2. CASE SentenceRunsOut(u)
    BY <1>5, <2>1, <2>2, <1>1 DEF SentenceRunsOut, moneyVars, Inv, Books, Solvent, Sentences
  <2>3. CASE CooldownElapses(u, k)
    BY <1>5, <2>1, <2>3, <1>1, CommandsAssumption
       DEF CooldownElapses, Incident, moneyVars, Inv, Books, Solvent
  <2>4. CASE WindowEnds(u, k)
    <3>1. NoUse \in [used : Nat, expires : BOOLEAN] BY DEF NoUse
    <3>2. rate' \in [Users -> [Limited -> [used : Nat, expires : BOOLEAN]]]
      BY <1>5, <2>4, <3>1 DEF WindowEnds, Inv, Books
    <3> QED BY <2>1, <2>4, <3>2, <1>1, CommandsAssumption
        DEF WindowEnds, Incident, userVars, Inv, Books, Solvent
  <2> QED BY <1>5, <2>2, <2>3, <2>4
<1>6. CASE UNCHANGED vars
  BY <1>1, <1>6
     DEF vars, gateVars, userVars, Inv, Hands, CommandOK, Kind, Req, Books, Solvent
<1> QED BY <1>2, <1>3, <1>4, <1>5, <1>6 DEF Next, Elapse, Limited

\* The inductive invariant the theorems below are read off.
LEMMA SpecInv == Spec => []Inv
BY InitInv, NextInv, PTL DEF Spec

\* Gates, requests, plans, rows and counters keep their types.
THEOREM CommandsTyped == Spec => []TypeOK
<1>1. Inv => TypeOK
  BY DEF Inv, GateInv, Hands, Books, Solvent, TypeOK
<1> QED BY <1>1, SpecInv, PTL

\* Nobody ends in debt, whatever happens between the balance a command decided
\* on and the moment it pays (crime.ts:117-131, rob.ts:233-320, bail.ts:85-111):
\* the atomic functions check the row again, and a bail writes what is left of
\* a balance that covered it.
THEOREM NoDebt == Spec => []NobodyInDebt
<1>1. Inv => NobodyInDebt BY DEF Inv, Books, Solvent, NobodyInDebt
<1> QED BY <1>1, SpecInv, PTL
=============================================================================
