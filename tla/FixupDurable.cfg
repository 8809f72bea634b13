\* Every fault of the flash, soft reboots, an OS that spares its newest block.
SPECIFICATION FairSpec
CONSTANTS
  MaxVersion = 3
  Payload = {a, b}
  Dwords = 2
  Erased = Erased
  Garbled = Garbled
  NoMeta = NoMeta
  Faults = {"unlock", "erase", "program", "silent"}
  OsSparesNewest = TRUE
  SoftReboots = TRUE
  Bootable = {a}
INVARIANTS
  TypeOK
  BootWriteInv
  OsWriteInv
PROPERTIES
  AtomicSpec
  UpdateTakesEffect
  NoNeedlessWrite
  NeverBroken
  BootsWithMetadata
