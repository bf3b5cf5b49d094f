SPECIFICATION FairSpec
CONSTANTS
  Fonts = {f1, f2}
  Images = {old, new}
  NoFile = NoFile
  Payload = 2
  Bootloaders = {TRUE, FALSE}
  MaxUpdates = 2
  MaxCopies = 2
  MaxCuts = 1
INVARIANTS HeaderVouches GlyphsAreTheFonts SelectedIsAnImage NeverDead
CHECK_DEADLOCK FALSE
PROPERTIES UpdateStarts
