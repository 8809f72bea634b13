\* Slots without an image, described by ImageMetadata::default().
SPECIFICATION Spec
CONSTANTS
  NUMBER_OF_IMAGES = 3
  SlotUnits = 4
  PageUnits = 2
  Lengths = {0, 3}
  RamFaults = 0
  SoftReboots = FALSE
  WatchdogBudgets = {5}
  BadCrc = BadCrc
  Garbled = Garbled
  Stale = Stale
INVARIANTS
  EntryComesFromImage
