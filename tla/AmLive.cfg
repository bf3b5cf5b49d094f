SPECIFICATION FairSpec
CONSTANTS
  home1 = home1  home2 = home2  plain1 = plain1  plain2 = plain2
  panel = panel  usb = usb  boot = boot  sleep = sleep
  Activity = {home1, plain1, plain2, panel, sleep, boot}
  NoActivity = NoActivity
  Kind <- MCKind
  Bluetooth = TRUE
  Boots = {"splash", "direct"}
  MaxVisit = 1
  MaxNavigations = 1
PROPERTIES RequestedUpdateIsDrawn WaitEnds NavigationIsServed
