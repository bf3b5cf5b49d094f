SPECIFICATION Spec
CONSTANTS
  p1 = p1  p2 = p2  p3 = p3
  b1 = b1  b2 = b2  b3 = b3
  Paths = {p1, p2, p3}
  Books = {b1, b2, b3}
  SizeOf <- SizeMC
  None = None
  Absent = Absent
  Bad = Bad
  Short = Short
  NoIndex = NoIndex
  Width = 8
  MaxChanges = 2
  MaxFaults = 1
  MaxCuts = 1
SYMMETRY Symmetry
INVARIANTS BuildShowsCard MarkedIsShelved NeverStuck
PROPERTIES ArrivalOrder IndexIsAtomic
