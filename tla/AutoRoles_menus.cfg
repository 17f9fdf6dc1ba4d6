SPECIFICATION Spec
CONSTANTS
  Admins = {a1}
  Clicks = {c1, c2}
  Choices <- MCChoices
  Assignable = {"red", "green"}
  Posts = {"post"}
  Menus = {menu, next, last}
  Configured = menu
  FirstMenu <- MCFirstMenu
  NoEmoji = NoEmoji
  None = None
  RoleLimit = 3
  MaxSessions = 2
  MaxOps = 4
  MaxFaults = 1
  Members = {u1}
  Handlers = {h1, h2}
INVARIANTS SavedIsShown OneMenuPerSession HandledAlone
SYMMETRY MCSymmetry
CHECK_DEADLOCK FALSE
