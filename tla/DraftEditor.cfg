\* One page of three sentences that is edited in every way, or two pages of one sentence
\* that save and reload.
CONSTANTS
  Tab = {t1, t2}
  Source <- Sentences
  Selected = 1
  Wording <- Words
  MaxCommands = 2
  MaxSaves = 2
  MaxPending = 2
  HistoryLimit = 2
  Overlapping = FALSE
SPECIFICATION MCSpec
INVARIANTS
  TypeOK
  CanvasIsTheReplay
  SaveRefusedOnlyWhenOvertaken
PROPERTY SavedIsWhatWasShown
SYMMETRY Tabs
CHECK_DEADLOCK FALSE
