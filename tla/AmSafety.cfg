SPECIFICATION Spec
CONSTANTS
  home1 = home1  home2 = home2  plain1 = plain1  plain2 = plain2
  panel = panel  usb = usb  boot = boot  sleep = sleep
  Activity = {home1, home2, plain1, plain2, panel, usb, boot, sleep}
  NoActivity = NoActivity
  Kind <- MCKind
  Bluetooth = TRUE
  Boots = {"splash", "direct"}
  MaxVisit = 3
  MaxNavigations = 1
SYMMETRY MCSymmetry
INVARIANTS DrawnActivityIsCurrent RunningActivityIsAlive
PROPERTIES WaitShowsChange StorageOwnerStays
