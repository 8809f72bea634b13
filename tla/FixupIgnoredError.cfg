\* An OS that overwrites either page, as the doc allows, and an erase may fail.
SPECIFICATION FairSpec
CONSTANTS
  MaxVersion = 3
  Payload = {a}
  Dwords = 2
  Erased = Erased
  Garbled = Garbled
  NoMeta = NoMeta
  Faults = {"erase"}
  OsSparesNewest = FALSE
  SoftReboots = FALSE
  Bootable = {}
PROPERTIES
  NeverBroken
