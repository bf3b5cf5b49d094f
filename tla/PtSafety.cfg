SPECIFICATION Spec
CONSTANTS
  Screens = {"Reader", "Menu", "Panel", "Home", "Settings", "Usb"}
  Profiles = {TRUE, FALSE}
  Verdicts = {"HeapLow", "HeapInPieces"}
  Refusals = 2
  RetryLimit = 1
  MaxVisit = 2
  MaxBuilds = 2
INVARIANTS BuildRunsAlone OneRestartPerRadioUp
PROPERTIES OnlyStartStopsItself OffScreenRadioIsOff ServedRadioIsArmed
