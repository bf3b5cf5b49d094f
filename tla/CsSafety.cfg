SPECIFICATION Spec
CONSTANTS
  m1 = m1  m2 = m2  o1 = o1
  Mine = {m1, m2}
  Others = {o1}
  Absent = Absent
  Partial = Partial
  Capacity = 2
  MaxRev = 2
  MaxFaults = 2
  MaxCuts = 1
SYMMETRY Symmetry
INVARIANTS NothingLost OwnText NoGhosts NoTwins SyncConverges
PROPERTY StoreIsAtomic
