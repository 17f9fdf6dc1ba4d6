SPECIFICATION Spec
CONSTANTS
  Players = {1, 2}
  Commands = {c1, c2, c3}
  Games = {g1, g2}
  Stakes = {1}
  Colours = {"red", "green"}
  Numbers = {"0", "7"}
  Green = "green"
  Picks = {"green"}
  Outcomes <- Pairs
  StartingPocket = 2
  ColourIsSelected = TRUE
  CanFail = TRUE
  Nobody = Nobody
  NoOutcome = NoOutcome
  NoBet = NoBet
  NoGame = NoGame
INVARIANTS StakesMatchBets ArmedGamesHaveBets NeverOverpaid
PROPERTIES SettledOnce
SYMMETRY RouletteSymmetry
CHECK_DEADLOCK FALSE
