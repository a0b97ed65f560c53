\* One page in which two reads may overlap.
CONSTANTS
  Tab = {t1}
  Source <- Sentences
  Selected = 1
  Wording <- Words
  MaxCommands = 1
  MaxSaves = 1
  MaxPending = 0
  HistoryLimit = 2
  Overlapping = TRUE
SPECIFICATION MCSpec
INVARIANTS
  CanvasIsTheReplay
CHECK_DEADLOCK FALSE
