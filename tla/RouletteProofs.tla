--------------------------- MODULE RouletteProofs ---------------------------
(***************************************************************************)
(* Theorems about the roulette, for every number of players, commands and  *)
(* games, every stake and every outcome.                                   *)
(***************************************************************************)
EXTENDS Roulette, TLAPS, FiniteSetTheorems

-----------------------------------------------------------------------------
(* Finite sums.  SumFunctionOnSet is a fold, whose definition says in which *)
(* order it takes the elements; the lemmas say that the order does not      *)
(* matter.  What a fold computes is shown by the smallest set on which it   *)
(* would not.                                                               *)

\* A set of numbers that is not empty has a least one.
LEMMA LeastNumber ==
  ASSUME NEW T, T \subseteq Nat, T # {}
  PROVE  \E n \in T : \A m \in T : n <= m
<1>1. PICK n \in T : \A m \in T : ~(<<m, n>> \in OpToRel(<, Nat))
  BY NatLessThanWellFounded, WFMin
<1>2. \A m \in T : ~(m < n)
  BY <1>1 DEF OpToRel
<1> QED BY <1>2

Chosen(s) == CHOOSE x \in s : TRUE

Continued(it, f, s) == IF s = {} THEN 0 ELSE f[Chosen(s)] + it[s \ {Chosen(s)}]
IsSum(it, f, S) == it = [s \in SUBSET S |-> Continued(it, f, s)]

LEMMA SumIs ==
  ASSUME NEW f, NEW S
  PROVE  SumFunctionOnSet(f, S) = (CHOOSE it : IsSum(it, f, S))[S]
BY DEF SumFunctionOnSet, FoldFunctionOnSet, MapThenFoldSet, IsSum, Continued, Chosen

LEMMA Smaller ==
  ASSUME NEW s, IsFiniteSet(s), s # {}
  PROVE  /\ Chosen(s) \in s
         /\ IsFiniteSet(s \ {Chosen(s)})
         /\ Cardinality(s) \in Nat \ {0}
         /\ Cardinality(s \ {Chosen(s)}) = Cardinality(s) - 1
<1>1. Chosen(s) \in s BY DEF Chosen
<1>2. Cardinality(s) \in Nat /\ Cardinality(s) # 0 BY FS_CardinalityType, FS_EmptySet
<1> QED BY <1>1, <1>2, FS_RemoveElement

LEMMA SumExists ==
  ASSUME NEW S, IsFiniteSet(S), NEW f, \A x \in S : f[x] \in Int
  PROVE  \E it \in [SUBSET S -> Int] : IsSum(it, f, S)
<1> DEFINE UpTo(n, it) ==
      \A s \in SUBSET S : Cardinality(s) <= n => it[s] = Continued(it, f, s)
    Bad == {n \in Nat : \A it \in [SUBSET S -> Int] : ~UpTo(n, it)}
<1>0. \A s \in SUBSET S : IsFiniteSet(s) BY FS_Subset
<1>1. Bad = {}
  <2> SUFFICES ASSUME Bad # {} PROVE FALSE OBVIOUS
  <2>1. PICK n \in Bad : \A m \in Bad : n <= m BY LeastNumber
  <2>2. CASE n = 0
    <3> DEFINE zero == [s \in SUBSET S |-> 0]
    <3>1. ASSUME NEW s \in SUBSET S, Cardinality(s) <= 0 PROVE s = {}
      <4>1. IsFiniteSet(s) BY <1>0
      <4>2. s # {} => Cardinality(s) \in Nat \ {0} BY <4>1, Smaller
      <4> QED BY <3>1, <4>2
    <3>2. UpTo(0, zero) BY <3>1 DEF Continued
    <3>3. zero \in [SUBSET S -> Int] OBVIOUS
    <3> QED BY <2>2, <3>2, <3>3
  <2>3. CASE n # 0
    <3>0. n \in Nat OBVIOUS
    <3>1. n - 1 \in Nat /\ n - 1 \notin Bad
      <4> HIDE DEF Bad
      <4> QED BY <2>1, <2>3, <3>0
    <3>2. PICK it \in [SUBSET S -> Int] : UpTo(n - 1, it) BY <3>1
    <3> DEFINE jt == [s \in SUBSET S |-> Continued(it, f, s)]
    <3>3. jt \in [SUBSET S -> Int]
      <4>1. ASSUME NEW s \in SUBSET S PROVE Continued(it, f, s) \in Int
        <5>1. CASE s = {} BY <5>1 DEF Continued
        <5>2. CASE s # {}
          <6>1. f[Chosen(s)] \in Int BY <1>0, <5>2, Smaller
          <6>2. it[s \ {Chosen(s)}] \in Int OBVIOUS
          <6> QED BY <5>2, <6>1, <6>2 DEF Continued
        <5> QED BY <5>1, <5>2
      <4> QED BY <4>1
    <3>4. ASSUME NEW s \in SUBSET S, Cardinality(s) <= n
          PROVE  jt[s] = Continued(jt, f, s)
      <4>1. CASE s = {} BY <4>1 DEF Continued
      <4>2. CASE s # {}
        <5>1. Cardinality(s \ {Chosen(s)}) <= n - 1
          <6>1. IsFiniteSet(s) BY <1>0
          <6>2. /\ Cardinality(s) \in Nat
                /\ Cardinality(s \ {Chosen(s)}) = Cardinality(s) - 1
            BY <4>2, <6>1, Smaller
          <6>3. Cardinality(s) - 1 <= n - 1 BY <3>0, <3>4, <6>2
          <6> QED BY <6>2, <6>3
        <5>2. s \ {Chosen(s)} \in SUBSET S OBVIOUS
        <5>3. it[s \ {Chosen(s)}] = jt[s \ {Chosen(s)}] BY <3>2, <5>1, <5>2
        <5> QED BY <4>2, <5>3 DEF Continued
      <4> QED BY <4>1, <4>2
    <3> HIDE DEF jt
    <3>5. UpTo(n, jt) BY <3>4
    <3> QED BY <3>3, <3>5
  <2> QED BY <2>2, <2>3
<1>2. PICK it \in [SUBSET S -> Int] : UpTo(Cardinality(S), it)
  BY <1>1, FS_CardinalityType
<1>3. \A s \in SUBSET S : it[s] = Continued(it, f, s) BY <1>2, FS_Subset
<1>4. it = [s \in SUBSET S |-> Continued(it, f, s)] BY <1>3
<1> QED BY <1>4 DEF IsSum

LEMMA SumUnique ==
  ASSUME NEW S, IsFiniteSet(S), NEW T \in SUBSET S, NEW f, NEW it, NEW jt,
         IsSum(it, f, S), IsSum(jt, f, T)
  PROVE  \A s \in SUBSET T : it[s] = jt[s]
<1>0. \A s \in SUBSET T : IsFiniteSet(s) /\ Cardinality(s) \in Nat
  BY FS_Subset, FS_CardinalityType
<1> DEFINE Bad == {n \in Nat : \E s \in SUBSET T : Cardinality(s) = n /\ it[s] # jt[s]}
<1>1. Bad = {}
  <2> SUFFICES ASSUME Bad # {} PROVE FALSE OBVIOUS
  <2>1. PICK n \in Bad : \A m \in Bad : n <= m BY LeastNumber
  <2>2. PICK s \in SUBSET T : Cardinality(s) = n /\ it[s] # jt[s] BY <2>1
  <2>3. it[s] = Continued(it, f, s) BY DEF IsSum
  <2>4. jt[s] = Continued(jt, f, s) BY DEF IsSum
  <2>5. s # {} BY <2>2, <2>3, <2>4 DEF Continued
  <2>6. /\ s \ {Chosen(s)} \in SUBSET T
        /\ Cardinality(s \ {Chosen(s)}) \in Nat /\ Cardinality(s \ {Chosen(s)}) < n
    BY <1>0, <2>2, <2>5, Smaller
  <2>7. it[s \ {Chosen(s)}] = jt[s \ {Chosen(s)}] BY <2>1, <2>6
  <2> QED BY <2>2, <2>3, <2>4, <2>7 DEF Continued
<1> QED BY <1>0, <1>1

Sum(f, S) == SumFunctionOnSet(f, S)

LEMMA SumUnfolds ==
  ASSUME NEW S, IsFiniteSet(S), NEW f, \A x \in S : f[x] \in Int
  PROVE  /\ Sum(f, S) \in Int
         /\ Sum(f, S) = IF S = {} THEN 0 ELSE f[Chosen(S)] + Sum(f, S \ {Chosen(S)})
<1>1. PICK it \in [SUBSET S -> Int] : IsSum(it, f, S) BY SumExists
<1>2. ASSUME NEW T \in SUBSET S PROVE Sum(f, T) = it[T]
  <2>1. IsFiniteSet(T) BY FS_Subset
  <2>2. \E jt : IsSum(jt, f, T) BY <2>1, SumExists
  <2>3. IsSum(CHOOSE jt : IsSum(jt, f, T), f, T) BY <2>2
  <2>4. it[T] = (CHOOSE jt : IsSum(jt, f, T))[T] BY <1>1, <2>3, SumUnique
  <2> QED BY <2>4, SumIs DEF Sum
<1>3. it[S] = Continued(it, f, S) BY <1>1 DEF IsSum
<1>4. Sum(f, S) = it[S] /\ Sum(f, S \ {Chosen(S)}) = it[S \ {Chosen(S)}] BY <1>2
<1> QED BY <1>3, <1>4 DEF Continued

\* Any element may be counted first.
LEMMA SumTakes ==
  ASSUME NEW S, IsFiniteSet(S), NEW f, \A x \in S : f[x] \in Int, NEW e \in S
  PROVE  Sum(f, S) = f[e] + Sum(f, S \ {e})
<1>0. \A s \in SUBSET S : IsFiniteSet(s) /\ Cardinality(s) \in Nat
  BY FS_Subset, FS_CardinalityType
<1> DEFINE Bad == {n \in Nat : \E s \in SUBSET S : Cardinality(s) = n /\
                     \E x \in s : Sum(f, s) # f[x] + Sum(f, s \ {x})}
<1>1. Bad = {}
  <2> SUFFICES ASSUME Bad # {} PROVE FALSE OBVIOUS
  <2>1. PICK n \in Bad : \A m \in Bad : n <= m BY LeastNumber
  <2>2. PICK s \in SUBSET S : Cardinality(s) = n /\
                     \E x \in s : Sum(f, s) # f[x] + Sum(f, s \ {x})
    BY <2>1
  <2>3. PICK x \in s : Sum(f, s) # f[x] + Sum(f, s \ {x}) BY <2>2
  <2>4. PICK c : c = Chosen(s) OBVIOUS
  <2>5. c \in s /\ Sum(f, s) = f[c] + Sum(f, s \ {c}) BY <1>0, <2>3, <2>4, SumUnfolds, Smaller
  <2>6. x # c BY <2>3, <2>5
  <2>7. Cardinality(s \ {c}) < n /\ Cardinality(s \ {x}) < n
    <3>1. IsFiniteSet(s) /\ n \in Nat BY <1>0
    <3>2. Cardinality(s \ {c}) = n - 1 BY <2>2, <2>5, <3>1, FS_RemoveElement
    <3>3. Cardinality(s \ {x}) = n - 1 BY <2>2, <3>1, FS_RemoveElement
    <3> QED BY <3>1, <3>2, <3>3
  <2>8. \A t \in SUBSET S : Cardinality(t) < n =>
            \A y \in t : Sum(f, t) = f[y] + Sum(f, t \ {y})
    <3> SUFFICES ASSUME NEW t \in SUBSET S, Cardinality(t) < n, NEW y \in t,
                        Sum(f, t) # f[y] + Sum(f, t \ {y})
                 PROVE  FALSE
      OBVIOUS
    <3>1. Cardinality(t) \in Nat BY <1>0
    <3>2. Cardinality(t) \in Bad BY <3>1
    <3>3. n \in Nat OBVIOUS
    <3> HIDE DEF Bad
    <3> QED BY <2>1, <3>1, <3>2, <3>3
  <2>9. Sum(f, s \ {c}) = f[x] + Sum(f, (s \ {c}) \ {x})
    BY <2>6, <2>7, <2>8
  <2>10. Sum(f, s \ {x}) = f[c] + Sum(f, (s \ {x}) \ {c})
    BY <2>5, <2>6, <2>7, <2>8
  <2>11. (s \ {c}) \ {x} = (s \ {x}) \ {c} OBVIOUS
  <2>12. Sum(f, (s \ {c}) \ {x}) \in Int
    <3>1. IsFiniteSet((s \ {c}) \ {x}) BY <1>0
    <3> QED BY <3>1, SumUnfolds
  <2>13. f[x] \in Int /\ f[c] \in Int BY <2>5
  <2> PICK a \in Int, b \in Int, r \in Int :
        a = f[x] /\ b = f[c] /\ r = Sum(f, (s \ {c}) \ {x})
    BY <2>12, <2>13
  <2>14. Sum(f, s) = b + (a + r) BY <2>5, <2>9
  <2>15. f[x] + Sum(f, s \ {x}) = a + (b + r) BY <2>10, <2>11
  <2> QED BY <2>3, <2>14, <2>15
<1> QED BY <1>0, <1>1

\* Terms that grow by what others sum to.
LEMMA SumGrows ==
  ASSUME NEW S, IsFiniteSet(S), NEW D \in SUBSET S, NEW f, NEW g, NEW d,
         \A x \in S : f[x] \in Int, \A x \in D : d[x] \in Int,
         \A x \in S : g[x] = IF x \in D THEN f[x] + d[x] ELSE f[x]
  PROVE  Sum(g, S) = Sum(f, S) + Sum(d, D)
<1>0. \A s \in SUBSET S : IsFiniteSet(s) /\ Cardinality(s) \in Nat
  BY FS_Subset, FS_CardinalityType
<1>g. \A x \in S : g[x] \in Int OBVIOUS
<1> DEFINE Bad == {n \in Nat : \E s \in SUBSET S : Cardinality(s) = n /\
                     Sum(g, s) # Sum(f, s) + Sum(d, D \cap s)}
<1>1. Bad = {}
  <2> SUFFICES ASSUME Bad # {} PROVE FALSE OBVIOUS
  <2>1. PICK n \in Bad : \A m \in Bad : n <= m BY LeastNumber
  <2>2. PICK s \in SUBSET S : Cardinality(s) = n /\ Sum(g, s) # Sum(f, s) + Sum(d, D \cap s)
    BY <2>1
  <2>3. s # {}
    <3>1. Sum(g, {}) = 0 /\ Sum(f, {}) = 0 /\ Sum(d, {}) = 0 BY SumUnfolds, FS_EmptySet
    <3>2. D \cap {} = {} OBVIOUS
    <3> QED BY <2>2, <3>1, <3>2
  <2>4. PICK x \in s : TRUE BY <2>3
  <2>5. Cardinality(s \ {x}) \in Nat /\ Cardinality(s \ {x}) < n
    <3>1. IsFiniteSet(s) /\ n \in Nat BY <1>0
    <3>2. Cardinality(s \ {x}) = n - 1 BY <2>2, <3>1, FS_RemoveElement
    <3> QED BY <1>0, <3>1, <3>2
  <2>6. Sum(g, s \ {x}) = Sum(f, s \ {x}) + Sum(d, D \cap (s \ {x}))
    <3> SUFFICES ASSUME Sum(g, s \ {x}) # Sum(f, s \ {x}) + Sum(d, D \cap (s \ {x}))
                 PROVE  FALSE
      OBVIOUS
    <3>1. s \ {x} \in SUBSET S OBVIOUS
    <3>2. Cardinality(s \ {x}) \in Bad BY <2>5, <3>1
    <3>3. n \in Nat OBVIOUS
    <3> HIDE DEF Bad
    <3> QED BY <2>1, <2>5, <3>2, <3>3
  <2>7. Sum(g, s) = g[x] + Sum(g, s \ {x}) BY <1>0, <1>g, SumTakes
  <2>8. Sum(f, s) = f[x] + Sum(f, s \ {x}) BY <1>0, SumTakes
  <2>9. /\ Sum(f, s \ {x}) \in Int /\ Sum(d, D \cap (s \ {x})) \in Int
    <3>1. IsFiniteSet(s \ {x}) /\ IsFiniteSet(D \cap (s \ {x})) BY <1>0
    <3> QED BY <3>1, SumUnfolds
  <2> PICK a \in Int, b \in Int, e \in Int :
        a = f[x] /\ b = Sum(f, s \ {x}) /\ e = Sum(d, D \cap (s \ {x}))
    BY <2>9
  <2>10. Sum(f, s) = a + b /\ Sum(g, s) = g[x] + (b + e) BY <2>6, <2>7, <2>8
  <2>11. CASE x \in D
    <3>1. Sum(d, D \cap s) = d[x] + Sum(d, (D \cap s) \ {x})
      <4>1. IsFiniteSet(D \cap s) BY <1>0
      <4> QED BY <2>11, <4>1, SumTakes
    <3>2. (D \cap s) \ {x} = D \cap (s \ {x}) OBVIOUS
    <3>3. d[x] \in Int /\ g[x] = f[x] + d[x] BY <2>11
    <3> PICK h \in Int : h = d[x] BY <3>3
    <3>4. Sum(d, D \cap s) = h + e /\ Sum(g, s) = (a + h) + (b + e)
      BY <2>10, <3>1, <3>2, <3>3
    <3>5. Sum(g, s) = Sum(f, s) + Sum(d, D \cap s) BY <2>10, <3>4
    <3> QED BY <2>2, <3>5
  <2>12. CASE x \notin D
    <3>1. D \cap s = D \cap (s \ {x}) BY <2>12
    <3>2. g[x] = f[x] BY <2>12
    <3>3. Sum(d, D \cap s) = e /\ Sum(g, s) = a + (b + e) BY <2>10, <3>1, <3>2
    <3>4. Sum(g, s) = Sum(f, s) + Sum(d, D \cap s) BY <2>10, <3>3
    <3> QED BY <2>2, <3>4
  <2> QED BY <2>11, <2>12
<1>2. D \cap S = D OBVIOUS
<1> QED BY <1>0, <1>1, <1>2

\* Only the terms count.
LEMMA SumSame ==
  ASSUME NEW S, IsFiniteSet(S), NEW f, NEW g,
         \A x \in S : f[x] \in Int, \A x \in S : g[x] = f[x]
  PROVE  Sum(g, S) = Sum(f, S)
<1>1. Sum(g, S) = Sum(f, S) + Sum(f, {}) BY SumGrows
<1>2. Sum(f, {}) = 0 BY SumUnfolds, FS_EmptySet
<1>3. Sum(f, S) \in Int BY SumUnfolds
<1> QED BY <1>1, <1>2, <1>3

\* Terms that are not negative.
LEMMA SumNat ==
  ASSUME NEW S, IsFiniteSet(S), NEW f, \A x \in S : f[x] \in Nat
  PROVE  Sum(f, S) \in Nat
<1>0. \A s \in SUBSET S : IsFiniteSet(s) /\ Cardinality(s) \in Nat
  BY FS_Subset, FS_CardinalityType
<1> DEFINE Bad == {n \in Nat : \E s \in SUBSET S : Cardinality(s) = n /\ Sum(f, s) \notin Nat}
<1>1. Bad = {}
  <2> SUFFICES ASSUME Bad # {} PROVE FALSE OBVIOUS
  <2>1. PICK n \in Bad : \A m \in Bad : n <= m BY LeastNumber
  <2>2. PICK s \in SUBSET S : Cardinality(s) = n /\ Sum(f, s) \notin Nat BY <2>1
  <2>3. IsFiniteSet(s) /\ \A x \in s : f[x] \in Int BY <1>0
  <2>4. s # {} BY <2>2, <2>3, SumUnfolds
  <2>5. PICK x \in s : TRUE BY <2>4
  <2>6. Sum(f, s) = f[x] + Sum(f, s \ {x}) BY <2>3, SumTakes
  <2>7. Sum(f, s \ {x}) \in Nat
    <3> SUFFICES ASSUME Sum(f, s \ {x}) \notin Nat PROVE FALSE OBVIOUS
    <3>1. s \ {x} \in SUBSET S OBVIOUS
    <3>2. Cardinality(s \ {x}) = n - 1 BY <2>2, <2>3, FS_RemoveElement
    <3>3. Cardinality(s \ {x}) \in Bad BY <1>0, <3>1
    <3>4. n \in Nat OBVIOUS
    <3> HIDE DEF Bad
    <3> QED BY <2>1, <3>2, <3>3, <3>4
  <2>8. f[x] \in Nat OBVIOUS
  <2> QED BY <2>2, <2>6, <2>7, <2>8
<1> QED BY <1>0, <1>1


-----------------------------------------------------------------------------
(* Commands, bets and games.                                               *)

Before == {"idle", "lookup", "create", "lock", "read", "write"}
Locking == {"read", "write"}
Open(c) == bet[c].result = "open" /\ bet[c].paid = 0

Betting ==
  /\ \A c \in Commands :
       /\ pc[c] \in Before => bet[c] = NoBet
       /\ pc[c] \in {"lock", "read", "write", "arm"} => joined[c] \in Games
       /\ pc[c] \in Locking => userLock[Player(c)] = c
       /\ pc[c] = "arm" => bet[c] # NoBet /\ bet[c].game = joined[c]
       /\ bet[c] # NoBet =>
            /\ bet[c].player = Player(c)
            /\ game[bet[c].game].status # "finished" => Open(c)
  /\ \A g \in Games :
       /\ flow[g] # "off" => BetsOf(g) # {}
       /\ game[g].status = "spinning" => game[g].outcome \in Outcomes
       /\ flow[g] = "paying" =>
            /\ game[g].status = "spinning"
            /\ settling[g] \subseteq BetsOf(g)

Unfinished == \A g \in Games : game[g].status # "finished"

LEMMA BettingInit == Init => TypeOK /\ Betting
<1> SUFFICES ASSUME Init PROVE TypeOK /\ Betting OBVIOUS
<1>1. TypeOK BY RouletteAssumption DEF Init, TypeOK
<1>2. Betting BY DEF Init, Betting, BetsOf, Locking
<1> QED BY <1>1, <1>2

\* A bet that is settled is still a bet.
LEMMA SettledBet ==
  ASSUME NEW b \in Bets, NEW o
  PROVE  /\ Settled(b, o) \in Bets
         /\ Settled(b, o).player = b.player /\ Settled(b, o).stake = b.stake
         /\ Settled(b, o).game = b.game
         /\ Settled(b, o).paid \in Nat
         /\ b.paid = 0 => Settled(b, o).paid = IF Won(b, o) THEN WinAmount(b) ELSE 0
         /\ b.result = "open" => ((Settled(b, o).result = "win") <=> Won(b, o))
<1>1. WinAmount(b) \in Nat
  <2>1. b.stake \in Nat BY RouletteAssumption DEF Bets
  <2> QED BY <2>1 DEF WinAmount
<1> HIDE DEF Won, WinAmount
<1> QED BY <1>1 DEF Settled, Bets

LEMMA SettlingBets ==
  ASSUME TypeOK, Betting, NEW g \in Games, flow[g] = "paying", NEW c \in settling[g]
  PROVE  /\ c \in Commands /\ bet[c] \in Bets /\ bet[c] # NoBet
         /\ bet[c].game = g /\ Open(c)
BY DEF TypeOK, Betting, BetsOf

\* What a settlement pays, and to whom.
Paid(g)    == [c \in settling[g] |-> Settled(bet[c], game[g].outcome).paid]
PaidTo(g, p) == {c \in settling[g] : bet[c].player = p}

LEMMA PayingSums ==
  ASSUME NEW g \in Games, SettlePays(g)
  PROVE  pocket' = [p \in Players |-> pocket[p] + Sum(Paid(g), PaidTo(g, p))]
BY DEF SettlePays, Paid, PaidTo, Sum

LEMMA PaidSum ==
  ASSUME TypeOK, Betting, NEW g \in Games, flow[g] = "paying", NEW p \in Players
  PROVE  Sum(Paid(g), PaidTo(g, p)) \in Nat
<1>1. \A c \in PaidTo(g, p) : Paid(g)[c] \in Nat
  BY SettlingBets, SettledBet DEF Paid, PaidTo
<1>2. IsFiniteSet(PaidTo(g, p))
  BY RouletteAssumption, FS_Subset DEF TypeOK, PaidTo
<1> QED BY <1>1, <1>2, SumNat

LEMMA TypeStep == TypeOK /\ Betting /\ [Next]_vars => TypeOK'
<1> SUFFICES ASSUME TypeOK, Betting, [Next]_vars PROVE TypeOK' OBVIOUS
<1> USE DEF TypeOK, rows, cmds, wheel
<1>1. ASSUME NEW c \in Commands, Enter(c) \/ FindGame(c) PROVE TypeOK'
  <2>1. CASE Enter(c)
    <3>1. \E l \in {"lookup", "done"} : pc' = [pc EXCEPT ![c] = l]
      BY <2>1 DEF Enter, Goto
    <3> QED BY <2>1, <3>1 DEF Enter
  <2>2. CASE FindGame(c) BY <2>2 DEF FindGame, Goto
  <2> QED BY <1>1, <2>1, <2>2
<1>2. ASSUME NEW c \in Commands, CreateGame(c) PROVE TypeOK'
  BY <1>2 DEF CreateGame, Goto
<1>3. ASSUME NEW c \in Commands, LockPocket(c) \/ LockRefused(c) PROVE TypeOK'
  BY <1>3 DEF LockPocket, LockRefused, Goto
<1>4. ASSUME NEW c \in Commands, ReadPocket(c) PROVE TypeOK'
  BY <1>4 DEF ReadPocket, Goto, Unlocked, Player, Requests
<1>5. ASSUME NEW c \in Commands, WriteBet(c) PROVE TypeOK'
  <2>1. NewBet(c) \in Bets
    BY <1>5 DEF WriteBet, Betting, NewBet, Bets, Requests, Player
  <2>2. read[c] - request[c].stake \in Int
    <3>1. request[c].stake \in Nat /\ read[c] \in Int BY RouletteAssumption DEF Requests
    <3> QED BY <3>1
  <2> QED BY <1>5, <2>1, <2>2 DEF WriteBet, Goto, Unlocked
<1>6. ASSUME NEW c \in Commands, ArmTimer(c) \/ ReplyFails(c) PROVE TypeOK'
  BY <1>6 DEF ArmTimer, ReplyFails, Goto
<1>7. ASSUME NEW g \in Games, Spin(g) PROVE TypeOK'
  BY <1>7 DEF Spin, Flow
<1>8. ASSUME NEW g \in Games, SpinFails(g) \/ ResultsRefused(g) \/ SettleFails(g) PROVE TypeOK'
  BY <1>8 DEF SpinFails, ResultsRefused, SettleFails, Flow, RawUnlocked
<1>9. ASSUME NEW g \in Games, ResultsAccepted(g) PROVE TypeOK'
  <2>1. {bet[c].player : c \in BetsOf(g)} \subseteq Players BY DEF BetsOf, Bets
  <2> QED BY <1>9, <2>1 DEF ResultsAccepted, Flow
<1>10. ASSUME NEW g \in Games, RawLock(g) PROVE TypeOK'
  <2>1. PICK p : p = Min(Missing(g)) OBVIOUS
  <2>2. CASE rawLock' = [rawLock EXCEPT ![p] = g] /\ UNCHANGED flow
    BY <1>10, <2>2 DEF RawLock
  <2>3. CASE RawUnlocked(g) /\ Flow(g, "off")
    BY <1>10, <2>3 DEF RawLock, Flow, RawUnlocked
  <2> QED BY <1>10, <2>1, <2>2, <2>3 DEF RawLock
<1>11. ASSUME NEW g \in Games, SettleReads(g) PROVE TypeOK'
  <2>1. BetsOf(g) \subseteq Commands BY DEF BetsOf
  <2> QED BY <1>11, <2>1 DEF SettleReads, Flow
<1>12. ASSUME NEW g \in Games, SettlePays(g) PROVE TypeOK'
  <2> PICK o : o = game[g].outcome OBVIOUS
  <2>1. pocket' \in [Players -> Int]
    <3>1. \A p \in Players : Sum(Paid(g), PaidTo(g, p)) \in Int
      BY <1>12, PaidSum DEF SettlePays
    <3> QED BY <1>12, <3>1, PayingSums
  <2>2. bet' \in [Commands -> Bets \cup {NoBet}]
    <3>1. ASSUME NEW c \in settling[g] PROVE Settled(bet[c], o) \in Bets
      BY <1>12, SettlingBets, SettledBet DEF SettlePays
    <3>2. bet' = [c \in Commands |-> IF c \in settling[g]
                                     THEN Settled(bet[c], o) ELSE bet[c]]
      BY <1>12 DEF SettlePays
    <3> QED BY <3>1, <3>2
  <2>3. /\ game' = [game EXCEPT ![g].status = "finished"]
        /\ UNCHANGED <<cmds, players, settling>>
        /\ RawUnlocked(g) /\ Flow(g, "off")
    BY <1>12 DEF SettlePays
  <2> QED BY <2>1, <2>2, <2>3 DEF RawUnlocked, Flow
<1>13. CASE Crash BY <1>13 DEF Crash
<1>14. CASE UNCHANGED vars BY <1>14 DEF vars
<1> QED
  BY <1>1, <1>2, <1>3, <1>4, <1>5, <1>6, <1>7, <1>8, <1>9, <1>10, <1>11, <1>12, <1>13, <1>14
  DEF Next, Step, Turn

\* Steps that write no row: of a command, and of a wheel.
LEMMA BettingCommand ==
  ASSUME TypeOK, Betting, UNCHANGED <<rows, request, wheel>>, NEW c \in Commands,
         NEW l, pc' = [pc EXCEPT ![c] = l],
         l \in Before => bet[c] = NoBet,
         l # "arm",
         l \in {"lock", "read", "write"} => joined'[c] \in Games,
         l \in Locking => userLock'[Player(c)] = c,
         \A d \in Commands \ {c} : joined'[d] = joined[d],
         \A d \in Commands \ {c} : pc[d] \in Locking =>
            userLock'[Player(d)] = userLock[Player(d)]
  PROVE  Betting'
<1>1. /\ \A d \in Commands : Player(d)' = Player(d) /\ Open(d)' = Open(d)
      /\ \A g \in Games : BetsOf(g)' = BetsOf(g)
  BY DEF Player, Open, BetsOf, rows
<1>2. ASSUME NEW d \in Commands
      PROVE  /\ pc'[d] \in Before => bet'[d] = NoBet
             /\ pc'[d] \in {"lock", "read", "write", "arm"} => joined'[d] \in Games
             /\ pc'[d] \in Locking => userLock'[Player(d)] = d
             /\ pc'[d] = "arm" => bet'[d] # NoBet /\ bet'[d].game = joined'[d]
  BY DEF Betting, TypeOK, rows
<1>3. \A d \in Commands : bet'[d] # NoBet =>
         /\ bet'[d].player = Player(d)
         /\ game'[bet'[d].game].status # "finished" => Open(d)
  BY DEF Betting, rows
<1>4. \A g \in Games :
       /\ flow'[g] # "off" => BetsOf(g) # {}
       /\ game'[g].status = "spinning" => game'[g].outcome \in Outcomes
       /\ flow'[g] = "paying" =>
            game'[g].status = "spinning" /\ settling'[g] \subseteq BetsOf(g)
  BY DEF Betting, rows, wheel
<1> QED BY <1>1, <1>2, <1>3, <1>4 DEF Betting

LEMMA BettingWheel ==
  ASSUME TypeOK, Betting, UNCHANGED <<rows, cmds>>,
         \A g \in Games :
            /\ flow'[g] # "off" => flow[g] # "off"
            /\ flow'[g] = "paying" =>
                 /\ game[g].status = "spinning"
                 /\ settling'[g] \subseteq BetsOf(g)
  PROVE  Betting'
<1>1. /\ \A d \in Commands : Player(d)' = Player(d) /\ Open(d)' = Open(d)
      /\ \A g \in Games : BetsOf(g)' = BetsOf(g)
  BY DEF Player, Open, BetsOf, rows, cmds
<1> QED BY <1>1 DEF Betting, rows, cmds

LEMMA BettingStep == TypeOK /\ Betting /\ [Next]_vars => Betting'
<1> SUFFICES ASSUME TypeOK, Betting, [Next]_vars PROVE Betting' OBVIOUS
<1>1. ASSUME NEW c \in Commands, Enter(c) PROVE Betting'
  BY <1>1, BettingCommand DEF Enter, Goto, Before, Locking, Betting, cmds
<1>2. ASSUME NEW c \in Commands, FindGame(c) PROVE Betting'
  <2>1. bet[c] = NoBet BY <1>2 DEF FindGame, Betting, Before
  <2>2. \A d \in Commands \ {c} : joined'[d] = joined[d] BY <1>2 DEF FindGame, TypeOK
  <2>3. CASE pc' = [pc EXCEPT ![c] = "lock"] /\ joined'[c] \in Games
    BY <1>2, <2>1, <2>2, <2>3, BettingCommand DEF FindGame, Locking
  <2>4. CASE pc' = [pc EXCEPT ![c] = "create"]
    BY <1>2, <2>1, <2>2, <2>4, BettingCommand DEF FindGame, Locking
  <2> QED BY <1>2, <2>3, <2>4 DEF FindGame, Goto, TypeOK
<1>3. ASSUME NEW c \in Commands, LockPocket(c) PROVE Betting'
  <2>1. bet[c] = NoBet /\ joined[c] \in Games BY <1>3 DEF LockPocket, Betting, Before
  <2>2. Player(c) \in Players BY DEF TypeOK, Player, Requests
  <2>3. userLock'[Player(c)] = c BY <1>3, <2>2 DEF LockPocket, TypeOK
  <2>4. \A d \in Commands \ {c} : pc[d] \in Locking =>
            userLock'[Player(d)] = userLock[Player(d)]
    BY <1>3, NothingAssumption DEF LockPocket, Betting, TypeOK
  <2> QED BY <1>3, <2>1, <2>3, <2>4, BettingCommand DEF LockPocket, Goto
<1>4. ASSUME NEW c \in Commands, LockRefused(c) PROVE Betting'
  BY <1>4, BettingCommand DEF LockRefused, Goto, Before, Locking
<1>5. ASSUME NEW c \in Commands, ReadPocket(c) PROVE Betting'
  <2>1. bet[c] = NoBet /\ joined[c] \in Games /\ userLock[Player(c)] = c
    BY <1>5 DEF ReadPocket, Betting, Before, Locking
  <2>2. \A d \in Commands : Player(d) \in Players BY DEF TypeOK, Player, Requests
  <2>3. CASE pc' = [pc EXCEPT ![c] = "write"] /\ UNCHANGED userLock
    BY <1>5, <2>1, <2>3, BettingCommand DEF ReadPocket
  <2>4. CASE pc' = [pc EXCEPT ![c] = "done"] /\ Unlocked(c)
    <3>1. \A d \in Commands \ {c} : pc[d] \in Locking =>
            userLock'[Player(d)] = userLock[Player(d)]
      BY <2>2, <2>4 DEF Unlocked, Betting
    <3> QED BY <1>5, <2>4, <3>1, BettingCommand DEF ReadPocket, Before, Locking
  <2> QED BY <1>5, <2>3, <2>4 DEF ReadPocket, Goto
<1>6. ASSUME NEW c \in Commands, ReplyFails(c) PROVE Betting'
  BY <1>6, BettingCommand DEF ReplyFails, Goto, Before, Locking
<1>7. ASSUME NEW c \in Commands, CreateGame(c) PROVE Betting'
  <2>1. PICK g \in Games : /\ game[g].status = "none"
                           /\ game' = [game EXCEPT ![g].status = "waiting"]
                           /\ joined' = [joined EXCEPT ![c] = g]
    BY <1>7 DEF CreateGame
  <2>2. /\ pc' = [pc EXCEPT ![c] = "lock"]
        /\ UNCHANGED <<pocket, bet, request, read, userLock, wheel>>
        /\ bet[c] = NoBet
    BY <1>7 DEF CreateGame, Goto, Betting, Before
  <2>3. /\ \A d \in Commands : Player(d)' = Player(d) /\ Open(d)' = Open(d)
        /\ \A h \in Games : BetsOf(h)' = BetsOf(h)
    BY <2>2 DEF Player, Open, BetsOf
  <2>4. /\ game'[g].status = "waiting"
        /\ \A h \in Games \ {g} : game'[h] = game[h]
    BY <2>1 DEF TypeOK
  <2>5. ASSUME NEW d \in Commands, bet[d] # NoBet, game'[bet[d].game].status # "finished"
        PROVE  Open(d)
    <3>1. bet[d].game \in Games BY <2>5 DEF TypeOK, Bets
    <3> QED BY <2>1, <2>4, <2>5, <3>1 DEF Betting
  <2>6. ASSUME NEW d \in Commands
        PROVE  /\ pc'[d] \in Before => bet'[d] = NoBet
               /\ pc'[d] \in {"lock", "read", "write", "arm"} => joined'[d] \in Games
               /\ pc'[d] \in Locking => userLock'[Player(d)] = d
               /\ pc'[d] = "arm" => bet'[d] # NoBet /\ bet'[d].game = joined'[d]
               /\ bet'[d] # NoBet => bet'[d].player = Player(d)
    BY <2>1, <2>2 DEF Betting, TypeOK, Locking, Before
  <2>7. \A h \in Games :
          /\ flow'[h] # "off" => BetsOf(h) # {}
          /\ game'[h].status = "spinning" => game'[h].outcome \in Outcomes
          /\ flow'[h] = "paying" =>
               game'[h].status = "spinning" /\ settling'[h] \subseteq BetsOf(h)
    BY <2>1, <2>2, <2>4 DEF Betting, wheel
  <2> QED BY <2>2, <2>3, <2>5, <2>6, <2>7 DEF Betting
<1>8. ASSUME NEW c \in Commands, WriteBet(c) PROVE Betting'
  <2>1. bet[c] = NoBet /\ joined[c] \in Games /\ pc[c] = "write"
    BY <1>8 DEF WriteBet, Betting, Before
  <2>2. PICK b \in Bets : b = NewBet(c)
    BY <2>1 DEF NewBet, Bets, TypeOK, Requests, Player
  <2>3. /\ b.game = joined[c] /\ b.player = Player(c) /\ b.result = "open" /\ b.paid = 0
        /\ b # NoBet
    BY <2>2, NothingAssumption DEF NewBet
  <2>4. /\ bet' = [bet EXCEPT ![c] = b]
        /\ UNCHANGED <<game, request, joined, wheel>>
        /\ \E l \in {"arm", "done"} : pc' = [pc EXCEPT ![c] = l]
    BY <1>8, <2>2 DEF WriteBet, Goto
  <2>5. \A d \in Commands : Player(d)' = Player(d) BY <2>4 DEF Player
  <2>6. /\ bet'[c] = b /\ Open(c)'
        /\ \A d \in Commands \ {c} : bet'[d] = bet[d] /\ Open(d)' = Open(d)
    BY <2>3, <2>4 DEF TypeOK, Open
  <2>7. \A h \in Games : BetsOf(h) \subseteq BetsOf(h)'
    BY <2>1, <2>6 DEF BetsOf
  <2>8. \A d \in Commands \ {c} : pc[d] \in Locking => userLock'[Player(d)] = userLock[Player(d)]
    <3>1. \A d \in Commands : Player(d) \in Players BY DEF TypeOK, Player, Requests
    <3> QED BY <1>8, <3>1 DEF WriteBet, Unlocked, Betting
  <2>9. ASSUME NEW d \in Commands
        PROVE  /\ pc'[d] \in Before => bet'[d] = NoBet
               /\ pc'[d] \in {"lock", "read", "write", "arm"} => joined'[d] \in Games
               /\ pc'[d] \in Locking => userLock'[Player(d)] = d
               /\ pc'[d] = "arm" => bet'[d] # NoBet /\ bet'[d].game = joined'[d]
    <3>1. CASE d = c
      BY <2>1, <2>3, <2>4, <2>6, <3>1 DEF TypeOK, Before, Locking
    <3>2. CASE d # c
      BY <2>4, <2>6, <2>8, <3>2 DEF TypeOK, Betting
    <3> QED BY <3>1, <3>2
  <2>10. \A d \in Commands : bet'[d] # NoBet =>
           /\ bet'[d].player = Player(d)
           /\ game'[bet'[d].game].status # "finished" => Open(d)'
    BY <2>3, <2>4, <2>6 DEF Betting
  <2>11. \A h \in Games :
          /\ flow'[h] # "off" => BetsOf(h)' # {}
          /\ game'[h].status = "spinning" => game'[h].outcome \in Outcomes
          /\ flow'[h] = "paying" =>
               game'[h].status = "spinning" /\ settling'[h] \subseteq BetsOf(h)'
    BY <2>4, <2>7 DEF Betting, wheel
  <2> QED BY <2>5, <2>9, <2>10, <2>11 DEF Betting
<1>9. ASSUME NEW c \in Commands, ArmTimer(c) PROVE Betting'
  <2>1. /\ pc[c] = "arm" /\ pc' = [pc EXCEPT ![c] = "done"]
        /\ flow' = [flow EXCEPT ![joined[c]] = "armed"]
        /\ UNCHANGED <<rows, request, joined, userLock, settling>>
    BY <1>9 DEF ArmTimer, Goto
  <2>2. joined[c] \in Games /\ c \in BetsOf(joined[c])
    BY <2>1 DEF Betting, BetsOf
  <2>3. /\ \A d \in Commands : Player(d)' = Player(d) /\ Open(d)' = Open(d)
        /\ \A h \in Games : BetsOf(h)' = BetsOf(h)
    BY <2>1 DEF Player, Open, BetsOf, rows
  <2>4. \A d \in Commands : pc'[d] = IF d = c THEN "done" ELSE pc[d]
    BY <2>1 DEF TypeOK
  <2>5. \A h \in Games : flow'[h] = IF h = joined[c] THEN "armed" ELSE flow[h]
    BY <2>1 DEF TypeOK
  <2> QED BY <2>1, <2>2, <2>3, <2>4, <2>5 DEF Betting, rows, Before, Locking
<1>10. ASSUME NEW g \in Games, SpinFails(g) \/ ResultsRefused(g) \/ SettleFails(g)
                                 \/ ResultsAccepted(g) \/ RawLock(g)
       PROVE  Betting'
  <2>1. /\ UNCHANGED <<rows, cmds, settling>> /\ flow[g] # "off"
        /\ \/ flow' = flow
           \/ \E l \in {"off", "locking"} : flow' = [flow EXCEPT ![g] = l]
    BY <1>10 DEF SpinFails, ResultsRefused, SettleFails, ResultsAccepted, RawLock, Flow
  <2> QED BY <2>1, BettingWheel DEF Betting, TypeOK
<1>11. ASSUME NEW g \in Games, SettleReads(g) PROVE Betting'
  <2>1. /\ UNCHANGED <<rows, cmds>> /\ flow[g] = "locking" /\ game[g].status = "spinning"
        /\ flow' = [flow EXCEPT ![g] = "paying"]
        /\ settling' = [settling EXCEPT ![g] = BetsOf(g)]
    BY <1>11 DEF SettleReads, Flow
  <2> QED BY <2>1, BettingWheel DEF Betting, TypeOK
<1>12. ASSUME NEW g \in Games, Spin(g) PROVE Betting'
  <2>1. PICK o \in Outcomes : game' = [game EXCEPT ![g] = [status |-> "spinning", outcome |-> o]]
    BY <1>12 DEF Spin
  <2>2. /\ flow' = [flow EXCEPT ![g] = "results"] /\ flow[g] = "armed"
        /\ game[g].status = "waiting"
        /\ UNCHANGED <<bet, cmds, settling>>
    BY <1>12 DEF Spin, Flow
  <2>3. /\ \A d \in Commands : Player(d)' = Player(d) /\ Open(d)' = Open(d)
        /\ \A h \in Games : BetsOf(h)' = BetsOf(h)
    BY <2>2 DEF Player, Open, BetsOf, cmds
  <2>4. /\ game'[g].status = "spinning" /\ game'[g].outcome = o
        /\ \A h \in Games \ {g} : game'[h] = game[h]
    BY <2>1 DEF TypeOK
  <2>5. \A h \in Games : flow'[h] = IF h = g THEN "results" ELSE flow[h]
    BY <2>2 DEF TypeOK
  <2>6. ASSUME NEW d \in Commands, bet[d] # NoBet, game'[bet[d].game].status # "finished"
        PROVE  Open(d)
    <3>1. bet[d].game \in Games BY <2>6 DEF TypeOK, Bets
    <3> QED BY <2>2, <2>4, <2>6, <3>1 DEF Betting
  <2> QED BY <2>2, <2>3, <2>4, <2>5, <2>6 DEF Betting, cmds
<1>13. ASSUME NEW g \in Games, SettlePays(g) PROVE Betting'
  <2> PICK o : o = game[g].outcome OBVIOUS
  <2>1. /\ flow[g] = "paying" /\ flow' = [flow EXCEPT ![g] = "off"]
        /\ game' = [game EXCEPT ![g].status = "finished"]
        /\ bet' = [c \in Commands |-> IF c \in settling[g]
                                     THEN Settled(bet[c], o) ELSE bet[c]]
        /\ UNCHANGED <<cmds, settling>>
    BY <1>13 DEF SettlePays, Flow
  <2>2. /\ game'[g].status = "finished" /\ \A h \in Games \ {g} : game'[h] = game[h]
        /\ \A h \in Games : flow'[h] = IF h = g THEN "off" ELSE flow[h]
    BY <2>1 DEF TypeOK
  <2>3. ASSUME NEW c \in Commands
        PROVE  \/ bet'[c] = bet[c]
               \/ /\ c \in settling[g] /\ bet[c] # NoBet /\ bet'[c] # NoBet
                  /\ bet[c].game = g /\ bet'[c].game = g
                  /\ bet'[c].player = bet[c].player
    BY <2>1, SettlingBets, SettledBet, NothingAssumption
  <2>4. \A d \in Commands : Player(d)' = Player(d) BY <2>1 DEF Player, cmds
  <2>5. \A h \in Games : BetsOf(h)' = BetsOf(h) BY <2>3 DEF BetsOf
  <2>6. ASSUME NEW d \in Commands, bet'[d] # NoBet
        PROVE  /\ bet'[d].player = Player(d)
               /\ game'[bet'[d].game].status # "finished" => Open(d)'
    <3>1. CASE bet'[d] = bet[d]
      <4>1. bet[d].game \in Games BY <2>6, <3>1 DEF TypeOK, Bets
      <4> QED BY <2>2, <2>6, <3>1, <4>1 DEF Betting, Open
    <3>2. CASE bet'[d] # bet[d]
      BY <2>2, <2>3, <3>2 DEF Betting
    <3> QED BY <3>1, <3>2
  <2>7. ASSUME NEW d \in Commands
        PROVE  /\ pc'[d] \in Before => bet'[d] = NoBet
               /\ pc'[d] \in {"lock", "read", "write", "arm"} => joined'[d] \in Games
               /\ pc'[d] \in Locking => userLock'[Player(d)] = d
               /\ pc'[d] = "arm" => bet'[d] # NoBet /\ bet'[d].game = joined'[d]
    BY <2>1, <2>3 DEF Betting, cmds
  <2>8. \A h \in Games :
          /\ flow'[h] # "off" => BetsOf(h) # {}
          /\ game'[h].status = "spinning" => game'[h].outcome \in Outcomes
          /\ flow'[h] = "paying" =>
               game'[h].status = "spinning" /\ settling'[h] \subseteq BetsOf(h)
    BY <2>1, <2>2 DEF Betting
  <2> QED BY <2>4, <2>5, <2>6, <2>7, <2>8 DEF Betting
<1>14. CASE Crash
  <2>1. /\ UNCHANGED <<rows, request, joined, settling>>
        /\ \A g \in Games : flow'[g] = "off"
        /\ \A c \in Commands : pc'[c] = IF pc[c] = "idle" THEN "idle" ELSE "done"
    BY <1>14 DEF Crash
  <2>2. /\ \A d \in Commands : Player(d)' = Player(d) /\ Open(d)' = Open(d)
        /\ \A g \in Games : BetsOf(g)' = BetsOf(g)
    BY <2>1 DEF Player, Open, BetsOf, rows
  <2> QED BY <2>1, <2>2 DEF Betting, Before, Locking, rows
<1>15. CASE UNCHANGED vars
  BY <1>15, BettingWheel DEF vars, Betting, wheel
<1> QED
  BY <1>1, <1>2, <1>3, <1>4, <1>5, <1>6, <1>7, <1>8, <1>9, <1>10, <1>11, <1>12, <1>13,
     <1>14, <1>15
  DEF Next, Step, Turn

-----------------------------------------------------------------------------
(* The money.  What a command has read is as good as the pocket it writes. *)

Money ==
  /\ \A p \in Players :
       /\ pocket[p] <= Fair(p)
       /\ Unfinished => pocket[p] = Fair(p)
  /\ \A c \in Commands : pc[c] = "write" =>
       /\ read[c] <= Fair(Player(c))
       /\ Unfinished => read[c] = Fair(Player(c))

FairIsASum(p) ==
  /\ IsFiniteSet(BetsBy(p))
  /\ \A c \in BetsBy(p) : Gains(p)[c] = bet[c].paid - bet[c].stake /\ Gains(p)[c] \in Int
  /\ Fair(p) = StartingPocket + Sum(Gains(p), BetsBy(p))
  /\ Sum(Gains(p), BetsBy(p)) \in Int
  /\ Fair(p) \in Int

LEMMA FairInt == ASSUME NEW p PROVE TypeOK => FairIsASum(p)
<1> SUFFICES ASSUME TypeOK PROVE FairIsASum(p) OBVIOUS
<1>1. IsFiniteSet(BetsBy(p)) BY RouletteAssumption, FS_Subset DEF BetsBy
<1>2. ASSUME NEW c \in BetsBy(p)
      PROVE  Gains(p)[c] = bet[c].paid - bet[c].stake /\ Gains(p)[c] \in Int
  <2>1. bet[c] \in Bets BY DEF BetsBy, TypeOK
  <2>2. bet[c].paid \in Nat /\ bet[c].stake \in Nat BY <2>1, RouletteAssumption DEF Bets
  <2> QED BY <2>2 DEF Gains
<1>3. Sum(Gains(p), BetsBy(p)) \in Int BY <1>1, <1>2, SumUnfolds
<1>4. Fair(p) = StartingPocket + Sum(Gains(p), BetsBy(p)) BY DEF Fair, Sum
<1> QED BY <1>1, <1>2, <1>3, <1>4, RouletteAssumption DEF FairIsASum

LEMMA FairIntNext == ASSUME NEW p PROVE TypeOK' => FairIsASum(p)'
<1>1. TypeOK => FairIsASum(p) BY FairInt
<1> QED BY <1>1, PTL

\* Fair depends on the bets alone.
LEMMA FairKept == ASSUME UNCHANGED bet, NEW p PROVE Fair(p)' = Fair(p)
<1>1. BetsBy(p)' = BetsBy(p) BY DEF BetsBy
<1>2. Gains(p)' = Gains(p) BY <1>1 DEF Gains
<1> QED BY <1>1, <1>2 DEF Fair

LEMMA FairBet ==
  ASSUME TypeOK, TypeOK', Betting, NEW c \in Commands, WriteBet(c), NEW p \in Players
  PROVE  Fair(p)' = IF p = Player(c) THEN Fair(p) - request[c].stake ELSE Fair(p)
<1> PICK S : S = BetsBy(p) OBVIOUS
<1> PICK T : T = BetsBy(p)' OBVIOUS
<1> PICK f : f = Gains(p) OBVIOUS
<1> PICK h : h = Gains(p)' OBVIOUS
<1>1. /\ IsFiniteSet(S) /\ \A x \in S : f[x] = bet[x].paid - bet[x].stake /\ f[x] \in Int
      /\ Fair(p) = StartingPocket + Sum(f, S) /\ Sum(f, S) \in Int
  BY FairInt DEF FairIsASum
<1>2. /\ IsFiniteSet(T) /\ \A x \in T : h[x] = bet'[x].paid - bet'[x].stake /\ h[x] \in Int
      /\ Fair(p)' = StartingPocket + Sum(h, T)
  BY FairIntNext DEF FairIsASum
<1>3. bet[c] = NoBet BY DEF WriteBet, Betting, Before
<1>4. /\ bet'[c] # NoBet /\ bet'[c].player = Player(c)
      /\ bet'[c].paid = 0 /\ bet'[c].stake = request[c].stake
      /\ \A d \in Commands \ {c} : bet'[d] = bet[d]
  <2>1. PICK b \in Bets : b = NewBet(c)
    BY DEF WriteBet, Betting, NewBet, Bets, TypeOK, Requests, Player
  <2>2. /\ b # NoBet /\ b.player = Player(c) /\ b.paid = 0 /\ b.stake = request[c].stake
    BY <2>1, NothingAssumption DEF NewBet
  <2> QED BY <2>1, <2>2 DEF WriteBet, TypeOK
<1>5. request[c].stake \in Nat /\ StartingPocket \in Nat
  BY RouletteAssumption DEF TypeOK, Requests
<1>6. CASE p # Player(c)
  <2>1. T = S BY <1>3, <1>4, <1>6 DEF BetsBy
  <2>2. \A x \in S : h[x] = f[x] BY <1>1, <1>2, <1>3, <1>4, <2>1 DEF BetsBy
  <2> QED BY <1>1, <1>2, <1>6, <2>1, <2>2, SumSame
<1>7. CASE p = Player(c)
  <2>1. T \ {c} = S /\ c \in T BY <1>3, <1>4, <1>7 DEF BetsBy
  <2>2. \A x \in S : h[x] = f[x] BY <1>1, <1>2, <1>3, <1>4, <2>1 DEF BetsBy
  <2>3. Sum(h, S) = Sum(f, S) BY <1>1, <2>2, SumSame
  <2>4. Sum(h, T) = h[c] + Sum(h, T \ {c}) BY <1>2, <2>1, SumTakes
  <2>5. h[c] = 0 - request[c].stake BY <1>2, <1>4, <2>1
  <2>6. Sum(h, T) = (0 - request[c].stake) + Sum(f, S) BY <2>1, <2>3, <2>4, <2>5
  <2> QED BY <1>1, <1>2, <1>5, <1>7, <2>6
<1> QED BY <1>6, <1>7

LEMMA FairPaid ==
  ASSUME TypeOK, TypeOK', Betting, NEW g \in Games, SettlePays(g), NEW p \in Players
  PROVE  Fair(p)' = Fair(p) + Sum(Paid(g), PaidTo(g, p))
<1> PICK o : o = game[g].outcome OBVIOUS
<1> PICK S : S = BetsBy(p) OBVIOUS
<1> PICK D : D = PaidTo(g, p) OBVIOUS
<1> PICK f : f = Gains(p) OBVIOUS
<1> PICK h : h = Gains(p)' OBVIOUS
<1> PICK w : w = Paid(g) OBVIOUS
<1>0. flow[g] = "paying" BY DEF SettlePays
<1>1. /\ IsFiniteSet(S) /\ \A x \in S : f[x] = bet[x].paid - bet[x].stake /\ f[x] \in Int
      /\ Fair(p) = StartingPocket + Sum(f, S) /\ Sum(f, S) \in Int
  BY FairInt DEF FairIsASum
<1>2. /\ \A x \in BetsBy(p)' : h[x] = bet'[x].paid - bet'[x].stake
      /\ Fair(p)' = StartingPocket + Sum(h, BetsBy(p)')
  BY FairIntNext DEF FairIsASum
<1>3. \A c \in Commands \ settling[g] : bet'[c] = bet[c]
  BY DEF SettlePays
<1>4. ASSUME NEW c \in settling[g]
      PROVE  /\ c \in Commands /\ bet[c] # NoBet /\ bet'[c] # NoBet
             /\ bet'[c].player = bet[c].player /\ bet'[c].stake = bet[c].stake
             /\ bet[c].paid = 0 /\ bet'[c].paid = w[c] /\ w[c] \in Nat
             /\ bet[c].stake \in Nat
  <2>1. /\ c \in Commands /\ bet[c] \in Bets /\ bet[c] # NoBet /\ bet[c].paid = 0
    BY <1>0, SettlingBets DEF Open
  <2>2. bet'[c] = Settled(bet[c], o) BY <2>1 DEF SettlePays
  <2>3. w[c] = Settled(bet[c], o).paid BY DEF Paid
  <2>4. bet[c].stake \in Nat BY <2>1, RouletteAssumption DEF Bets
  <2> QED BY <2>1, <2>2, <2>3, <2>4, SettledBet, NothingAssumption
<1>5. BetsBy(p)' = S BY <1>3, <1>4 DEF BetsBy
<1>6. D \in SUBSET S BY <1>4 DEF BetsBy, PaidTo
<1>7. ASSUME NEW x \in S PROVE h[x] = IF x \in D THEN f[x] + w[x] ELSE f[x]
  <2>1. x \in Commands /\ bet[x].player = p BY DEF BetsBy
  <2>2. CASE x \in D
    <3>1. x \in settling[g] BY <2>2 DEF PaidTo
    <3>2. h[x] = w[x] - bet[x].stake /\ f[x] = 0 - bet[x].stake
      BY <1>1, <1>2, <1>4, <1>5, <3>1
    <3>3. w[x] \in Nat /\ bet[x].stake \in Nat BY <1>4, <3>1
    <3> QED BY <2>2, <3>2, <3>3
  <2>3. CASE x \notin D
    <3>1. x \notin settling[g] BY <2>1, <2>3 DEF PaidTo
    <3>2. bet'[x] = bet[x] BY <1>3, <2>1, <3>1
    <3> QED BY <1>1, <1>2, <1>5, <2>3, <3>2
  <2> QED BY <2>2, <2>3
<1>8. \A x \in D : w[x] \in Int BY <1>4 DEF PaidTo
<1>9. Sum(h, S) = Sum(f, S) + Sum(w, D) BY <1>1, <1>6, <1>7, <1>8, SumGrows
<1>10. Sum(w, D) \in Nat BY <1>0, PaidSum
<1> QED BY <1>1, <1>2, <1>5, <1>9, <1>10, RouletteAssumption

LEMMA MoneyInit == Init => Money
<1> SUFFICES ASSUME Init PROVE Money OBVIOUS
<1>1. ASSUME NEW p \in Players PROVE Fair(p) = StartingPocket
  <2>1. BetsBy(p) = {} BY DEF Init, BetsBy
  <2>2. Sum(Gains(p), {}) = 0 BY SumUnfolds, FS_EmptySet
  <2> QED BY <2>1, <2>2, RouletteAssumption DEF Fair, Sum
<1> QED BY <1>1, RouletteAssumption DEF Init, Money

\* Steps that write no pocket and no bet, and come to no write.
LEMMA MoneyKept ==
  ASSUME TypeOK, Money, UNCHANGED <<pocket, bet, request, read>>,
         Unfinished' => Unfinished,
         \A c \in Commands : pc'[c] = "write" => pc[c] = "write"
  PROVE  Money'
<1>1. \A p : Fair(p)' = Fair(p) BY FairKept
<1>2. \A c \in Commands : Player(c)' = Player(c) BY DEF Player
<1>3. \A c \in Commands : Fair(Player(c))' = Fair(Player(c)) BY <1>1, <1>2
<1> QED BY <1>1, <1>3 DEF Money

LEMMA MoneyStep == TypeOK /\ TypeOK' /\ Betting /\ Money /\ [Next]_vars => Money'
<1> SUFFICES ASSUME TypeOK, TypeOK', Betting, Money, [Next]_vars PROVE Money' OBVIOUS
<1>0. \A c \in Commands : Player(c) \in Players BY DEF TypeOK, Player, Requests
<1>1. ASSUME NEW c \in Commands,
             \/ Enter(c) \/ FindGame(c) \/ LockPocket(c) \/ LockRefused(c)
             \/ ArmTimer(c) \/ ReplyFails(c)
      PROVE  Money'
  <2>1. /\ UNCHANGED <<rows, request, read>>
        /\ \E l : l # "write" /\ pc' = [pc EXCEPT ![c] = l]
    BY <1>1 DEF Enter, FindGame, LockPocket, LockRefused, ArmTimer, ReplyFails, Goto
  <2>2. \A d \in Commands : pc'[d] = "write" => pc[d] = "write" BY <2>1 DEF TypeOK
  <2>3. Unfinished' => Unfinished BY <2>1 DEF Unfinished, rows
  <2> QED BY <2>1, <2>2, <2>3, MoneyKept DEF rows
<1>2. ASSUME NEW c \in Commands, CreateGame(c) PROVE Money'
  <2>1. \A d \in Commands : pc'[d] = "write" => pc[d] = "write"
    BY <1>2 DEF CreateGame, Goto, TypeOK
  <2>2. PICK g \in Games : game[g].status = "none" /\ game' = [game EXCEPT ![g].status = "waiting"]
    BY <1>2 DEF CreateGame
  <2>3. Unfinished' => Unfinished BY <2>2 DEF Unfinished, TypeOK
  <2> QED BY <1>2, <2>1, <2>3, MoneyKept DEF CreateGame
<1>3. ASSUME NEW c \in Commands, ReadPocket(c) PROVE Money'
  <2>1. /\ UNCHANGED <<rows, request>>
        /\ read' = [read EXCEPT ![c] = pocket[Player(c)]]
        /\ \E l : pc' = [pc EXCEPT ![c] = l]
    BY <1>3 DEF ReadPocket, Goto
  <2>2. \A p : Fair(p)' = Fair(p) BY <2>1, FairKept DEF rows
  <2>3. \A d \in Commands : Player(d)' = Player(d) BY <2>1 DEF Player
  <2>4. \A d \in Commands : Fair(Player(d))' = Fair(Player(d)) BY <2>2, <2>3
  <2>5. read'[c] = pocket[Player(c)]
        /\ \A d \in Commands \ {c} : read'[d] = read[d] /\ pc'[d] = pc[d]
    BY <2>1 DEF TypeOK
  <2>6. Unfinished' <=> Unfinished BY <2>1 DEF Unfinished, rows
  <2>7. ASSUME NEW d \in Commands, pc'[d] = "write"
        PROVE  /\ read'[d] <= Fair(Player(d))
               /\ Unfinished => read'[d] = Fair(Player(d))
    BY <1>0, <2>5, <2>7 DEF Money
  <2> QED BY <2>1, <2>2, <2>4, <2>6, <2>7 DEF Money, rows
<1>4. ASSUME NEW c \in Commands, WriteBet(c) PROVE Money'
  <2>1. /\ pc[c] = "write" /\ UNCHANGED <<game, request, read>>
        /\ pocket' = [pocket EXCEPT ![Player(c)] = read[c] - request[c].stake]
        /\ \E l \in {"arm", "done"} : pc' = [pc EXCEPT ![c] = l]
    BY <1>4 DEF WriteBet, Goto
  <2>2. \A p \in Players :
          Fair(p)' = IF p = Player(c) THEN Fair(p) - request[c].stake ELSE Fair(p)
    BY <1>4, FairBet
  <2>3. Unfinished' <=> Unfinished BY <2>1 DEF Unfinished
  <2>4. ASSUME NEW p \in Players
        PROVE  pocket'[p] <= Fair(p)' /\ (Unfinished => pocket'[p] = Fair(p)')
    <3>1. /\ Fair(p) \in Int /\ request[c].stake \in Nat /\ read[c] \in Int
          /\ pocket[p] \in Int
      BY FairInt, RouletteAssumption DEF FairIsASum, TypeOK, Requests
    <3>2. CASE p = Player(c)
      <4>1. pocket'[p] = read[c] - request[c].stake BY <2>1, <3>2 DEF TypeOK
      <4>2. read[c] <= Fair(p) /\ (Unfinished => read[c] = Fair(p))
        BY <2>1, <3>2 DEF Money
      <4> QED BY <2>2, <3>1, <3>2, <4>1, <4>2
    <3>3. CASE p # Player(c)
      <4>1. pocket'[p] = pocket[p] BY <2>1, <3>3 DEF TypeOK
      <4> QED BY <2>2, <3>3, <4>1 DEF Money
    <3> QED BY <3>2, <3>3
  <2>5. ASSUME NEW d \in Commands, pc'[d] = "write"
        PROVE  /\ read'[d] <= Fair(Player(d))'
               /\ Unfinished => read'[d] = Fair(Player(d))'
    <3>1. d # c /\ pc[d] = "write" BY <2>1, <2>5 DEF TypeOK
    <3>2. Player(d) # Player(c) BY <2>1, <3>1 DEF Betting, Locking
    <3>3. Player(d)' = Player(d) BY <2>1 DEF Player
    <3>4. Fair(Player(d))' = Fair(Player(d)) BY <1>0, <2>2, <3>2, <3>3
    <3> QED BY <2>1, <3>1, <3>4 DEF Money
  <2> QED BY <2>3, <2>4, <2>5 DEF Money
<1>5. ASSUME NEW g \in Games,
             \/ SpinFails(g) \/ ResultsRefused(g) \/ SettleFails(g) \/ ResultsAccepted(g)
             \/ RawLock(g) \/ SettleReads(g)
      PROVE  Money'
  <2>1. UNCHANGED <<rows, cmds>>
    BY <1>5 DEF SpinFails, ResultsRefused, SettleFails, ResultsAccepted, RawLock, SettleReads
  <2> QED BY <2>1, MoneyKept DEF rows, cmds, Unfinished
<1>6. ASSUME NEW g \in Games, Spin(g) PROVE Money'
  <2>1. PICK o \in Outcomes : game' = [game EXCEPT ![g] = [status |-> "spinning", outcome |-> o]]
    BY <1>6 DEF Spin
  <2>2. game[g].status = "waiting" /\ UNCHANGED <<pocket, bet, cmds>> BY <1>6 DEF Spin
  <2>3. Unfinished' => Unfinished BY <2>1, <2>2 DEF Unfinished, TypeOK
  <2> QED BY <2>2, <2>3, MoneyKept DEF cmds
<1>7. ASSUME NEW g \in Games, SettlePays(g) PROVE Money'
  <2>1. /\ UNCHANGED cmds /\ flow[g] = "paying"
        /\ game' = [game EXCEPT ![g].status = "finished"]
    BY <1>7 DEF SettlePays
  <2>2. ~Unfinished' BY <2>1 DEF Unfinished, TypeOK
  <2>3. ASSUME NEW p \in Players
        PROVE  /\ pocket'[p] <= Fair(p)'
               /\ Fair(p) <= Fair(p)' /\ Fair(p)' \in Int /\ Fair(p) \in Int
    <3> PICK n : n = Sum(Paid(g), PaidTo(g, p)) OBVIOUS
    <3>1. n \in Nat BY <2>1, PaidSum
    <3>2. pocket'[p] = pocket[p] + n BY <1>7, PayingSums
    <3>3. Fair(p)' = Fair(p) + n BY <1>7, FairPaid
    <3>4. Fair(p) \in Int /\ pocket[p] \in Int /\ pocket[p] <= Fair(p)
      BY FairInt DEF FairIsASum, TypeOK, Money
    <3> QED BY <3>1, <3>2, <3>3, <3>4
  <2>4. ASSUME NEW d \in Commands, pc'[d] = "write" PROVE read'[d] <= Fair(Player(d))'
    <3>1. Player(d)' = Player(d) /\ read'[d] = read[d] /\ read[d] \in Int
      BY <2>1 DEF Player, cmds, TypeOK
    <3>2. read[d] <= Fair(Player(d)) BY <2>1, <2>4 DEF Money, cmds
    <3> PICK q \in Players : q = Player(d) BY <1>0
    <3>3. Fair(Player(d))' = Fair(q)' BY <3>1
    <3> QED BY <2>3, <3>1, <3>2, <3>3
  <2> QED BY <2>2, <2>3, <2>4 DEF Money
<1>8. CASE Crash
  <2>1. /\ UNCHANGED <<rows, request, read>>
        /\ \A c \in Commands : pc'[c] # "write"
    BY <1>8 DEF Crash
  <2> QED BY <2>1, MoneyKept DEF rows, Unfinished
<1>9. CASE UNCHANGED vars
  BY <1>9, MoneyKept DEF vars, rows, cmds, Unfinished
<1> QED
  BY <1>1, <1>2, <1>3, <1>4, <1>5, <1>6, <1>7, <1>8, <1>9 DEF Next, Step, Turn

-----------------------------------------------------------------------------
(* The theorems.                                                           *)

LEMMA RouletteInvariant == Spec => [](TypeOK /\ Betting /\ Money)
<1>1. Init => TypeOK /\ Betting /\ Money BY BettingInit, MoneyInit
<1>2. TypeOK /\ Betting /\ Money /\ [Next]_vars => (TypeOK /\ Betting /\ Money)'
  BY TypeStep, BettingStep, MoneyStep
<1> QED BY <1>1, <1>2, PTL DEF Spec

\* The variables of commands, games and bets have the values TypeOK names
\* (ruleta.ts, RouletteService.ts, EconomyRepo.ts).
THEOREM RouletteTyped == Spec => []TypeOK
BY RouletteInvariant, PTL

\* A timer that runs has a bet to settle: the cancellation in spinRoulette
\* (ruleta.ts) is never taken, whatever commands and crashes overlap.
THEOREM TimersHaveBets == Spec => []ArmedGamesHaveBets
<1>1. Betting => ArmedGamesHaveBets BY DEF Betting, ArmedGamesHaveBets
<1> QED BY <1>1, RouletteInvariant, PTL

\* No pocket ever holds more than the bets of its player account for: stakes
\* and winnings are neither invented nor paid twice (EconomyRepo.ts,
\* atomicPlaceBet and atomicProcessRouletteResults).
THEOREM PocketsAccounted == Spec => []NeverOverpaid
<1>1. Money => NeverOverpaid BY DEF Money, NeverOverpaid
<1> QED BY <1>1, RouletteInvariant, PTL

\* Until a game pays, every pocket is short of exactly the stakes of its
\* player's bets (EconomyRepo.ts, atomicPlaceBet).
THEOREM StakesAccounted == Spec => []StakesMatchBets
<1>1. Money => StakesMatchBets BY DEF Money, StakesMatchBets, Unfinished
<1> QED BY <1>1, RouletteInvariant, PTL

\* A bet, once placed, changes once: from open to the result of its own game,
\* which is finished by the same step (EconomyRepo.ts,
\* atomicProcessRouletteResults).
THEOREM BetsSettledOnce == Spec => SettledOnce
<1> DEFINE Once(c) ==
      bet[c] # NoBet /\ bet'[c] # bet[c] =>
         /\ bet[c].result = "open"
         /\ game'[bet[c].game].status = "finished"
         /\ (bet'[c].result = "win") <=> Won(bet[c], game'[bet[c].game].outcome)
<1>1. ASSUME TypeOK, Betting, [Next]_vars, NEW c \in Commands PROVE Once(c)
  <2>1. CASE bet' = bet BY <2>1
  <2>2. ASSUME NEW d \in Commands, WriteBet(d) PROVE Once(c)
    <3>1. bet[d] = NoBet BY <1>1, <2>2 DEF WriteBet, Betting, Before
    <3> QED BY <1>1, <2>2, <3>1 DEF WriteBet, TypeOK
  <2>3. ASSUME NEW g \in Games, SettlePays(g), bet'[c] # bet[c] PROVE Once(c)
    <3>1. c \in settling[g] /\ flow[g] = "paying" BY <1>1, <2>3 DEF SettlePays
    <3>2. /\ bet[c] \in Bets /\ bet[c].game = g /\ bet[c].result = "open"
      BY <1>1, <3>1, SettlingBets DEF Open
    <3>3. bet'[c] = Settled(bet[c], game[g].outcome) BY <1>1, <2>3, <3>1 DEF SettlePays
    <3>4. game'[g].status = "finished" /\ game'[g].outcome = game[g].outcome
      BY <1>1, <2>3 DEF SettlePays, TypeOK
    <3>5. (bet'[c].result = "win") <=> Won(bet[c], game[g].outcome)
      BY <3>2, <3>3, SettledBet
    <3> QED BY <3>2, <3>4, <3>5
  <2>4. bet' = bet \/ (\E d \in Commands : WriteBet(d)) \/ (\E g \in Games : SettlePays(g))
    BY <1>1 DEF Next, Step, Turn, Enter, FindGame, CreateGame, LockPocket, LockRefused, ReadPocket,
       ArmTimer, ReplyFails, Spin, SpinFails, ResultsRefused, ResultsAccepted, RawLock,
       SettleReads, SettleFails, Crash, vars, rows
  <2> QED BY <2>1, <2>2, <2>3, <2>4
<1>2. TypeOK /\ Betting /\ [Next]_vars =>
        [\A c \in Commands :
           bet[c] # NoBet /\ bet'[c] # bet[c] =>
             /\ bet[c].result = "open"
             /\ game'[bet[c].game].status = "finished"
             /\ (bet'[c].result = "win") <=> Won(bet[c], game'[bet[c].game].outcome)]_vars
  BY <1>1
<1> QED BY <1>2, RouletteInvariant, PTL DEF Spec, SettledOnce
=============================================================================
