\* Both bank modes and both ways to clear a flag, every kind of failure.
SPECIFICATION DeviceFairSpec
CONSTANTS
  MaxVersion = 2
  Payload <- MCPayload
  Dwords = 2
  Erased = Erased
  Garbled = Garbled
  NoMeta = NoMeta
  Faults = {"unlock", "erase", "program", "silent"}
  OsSparesNewest = TRUE
  SoftReboots = TRUE
  Bootable = {}
  OperationErrors = {"wrperr", "pgserr", "operr"}
  NUMBER_OF_IMAGES = 2
  Content <- MCContent
  Torn = Torn
  NoImage = NoImage
  a = a
INVARIANTS
  DriverTypeOK
  EraseHitsTarget
  OperationsAccepted
  OkUnlessMissed
  WatchdogArmed
PROPERTIES
  ImplementsWhole
  BootAdvances
  NeverHangs
