SPECIFICATION Spec
CONSTANTS
  Runners = {r1, r2}
  Plugins = {p}
  MaxPluginJobs = 1
  Lease = 0
  MaxSubmits = 2
  MaxTime = 1
  MaxFaults = 0
  MaxSessions = 2
INVARIANT ResultIsOfThisSession
CHECK_DEADLOCK FALSE
