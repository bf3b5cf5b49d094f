SPECIFICATION FairSpec
CONSTANTS
  Runners = {r1, r2}
  Plugins = {p}
  MaxPluginJobs = 2
  Lease = 0
  MaxSubmits = 3
  MaxTime = 1
  MaxFaults = 1
  MaxSessions = 2
INVARIANT InTimeIsTaken
PROPERTIES NoResultThrownAway BoardIsKept JobsFinish
CHECK_DEADLOCK FALSE
