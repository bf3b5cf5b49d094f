SPECIFICATION Spec
CONSTANTS
  MinValid = 2
  MaxValid = 6
  MaxLead = 2
  MinAdvance = 2
  MaxTime = 7
  MaxFaults = 0
PROPERTY FloorNeverLowers
CHECK_DEADLOCK FALSE
