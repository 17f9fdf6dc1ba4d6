SPECIFICATION Spec
CONSTANTS
  Songs = {s1, s2}
  NoSong = NoSong
  MaxQueueSize = 1
  Slots = {t1, t2}
  Players = {1, 2}
  LoopChoices = {"none", "song", "queue"}
  MaxCommands = 2
  MaxFaults = 1
INVARIANTS NoSongLost NeverPlayedTwice RowsWithinLimit
SYMMETRY TaskSymmetry
CHECK_DEADLOCK FALSE
