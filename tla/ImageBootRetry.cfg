\* Two bad copies, soft reboots, and watchdogs that just allow the longest
\* search, or the shortest one.
SPECIFICATION FairSpec
CONSTANTS
  NUMBER_OF_IMAGES = 3
  SlotUnits = 4
  PageUnits = 2
  Lengths = {3}
  RamFaults = 2
  SoftReboots = TRUE
  WatchdogBudgets = {2, 5}
  BadCrc = BadCrc
  Garbled = Garbled
  Stale = Stale
INVARIANTS
  TypeOK
  BootsChosenImage
  SoftBootIsExact
  SoftRequestIsConsumed
  WatchdogKeepsQuiet
  PreferredNeedsTwo
PROPERTIES
  ChoiceKept
  BootsEnd
  BootsWhenPossible
