SPECIFICATION FairSpec
CONSTANTS
  PluginCount = 1
  MaxSlots = 2
  SleepEnter = SleepEnter
  ReaderExit = ReaderExit
  Types <- TypesMC
  Manifests <- ManifestsMC
  Unreadable = Unreadable
  Cap = 1
  Budget = 1
  MaxEvents = 3
  MaxEdits = 1
  MaxCuts = 1
INVARIANTS NothingLost OutboxReadable OneMishapKeepsAFile SleepEventJoins
PROPERTIES NothingOvertakes QueueDrains
CHECK_DEADLOCK FALSE
