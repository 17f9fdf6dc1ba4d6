SPECIFICATION FairSpec
CONSTANTS
  Players = {1, 2}
  Commands = {c1, c2}
  Games = {g1, g2}
  Stakes = {1}
  Colours = {"red", "green"}
  Numbers = {"0", "7"}
  Green = "green"
  Picks = {"green", "7"}
  Outcomes <- Pairs
  StartingPocket = 2
  ColourIsSelected = FALSE
  CanFail = FALSE
  Nobody = Nobody
  NoOutcome = NoOutcome
  NoBet = NoBet
  NoGame = NoGame
PROPERTIES BetsSettled
CHECK_DEADLOCK FALSE
