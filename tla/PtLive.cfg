SPECIFICATION FairSpec
CONSTANTS
  Screens = {"Reader","Menu"}
  Profiles = {FALSE}
  Verdicts = {"HeapLow", "HeapInPieces"}
  Refusals = 2
  RetryLimit = 1
  MaxVisit = 1
  MaxBuilds = 1
PROPERTIES PaintEnds StartSettles
