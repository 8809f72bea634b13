\* Three bad copies.
SPECIFICATION Spec
CONSTANTS
  NUMBER_OF_IMAGES = 3
  SlotUnits = 4
  PageUnits = 2
  Lengths = {3}
  RamFaults = 3
  SoftReboots = FALSE
  WatchdogBudgets = {5}
  BadCrc = BadCrc
  Garbled = Garbled
  Stale = Stale
INVARIANTS
  OnlyVerifiedImages
