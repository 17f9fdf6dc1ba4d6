------------------------- MODULE MCEconomyCommands -------------------------
\* The commands of one user, one of another, over two bot processes.
EXTENDS EconomyCommands, TLC

CONSTANTS u1, u2, b1, b2, d1, d2, i1, i2

Ask(k, u, v, n) == [kind |-> k, user |-> u, peer |-> v, amount |-> n]

TheRequests ==
  {Ask(k, u1, u1, 0) : k \in {"work", "crime", "bail"}}
    \cup {Ask("rob", u1, u2, 0), Ask("deposit", u2, u2, 2),
          Ask("retirar", u1, u1, 2)}
ThePockets == {(u1 :> n @@ u2 :> 2) : n \in {0, 2}}
TheRecords == {(u1 :> s @@ u2 :> "none") : s \in {"none", "serving", "served"}}
TheLimits == [k \in Limited |-> 1]

Symmetry ==
  {(p @@ q) @@ r : p \in Permutations(Deliveries), q \in Permutations(Bots),
                   r \in Permutations(Interactions)}
=============================================================================
