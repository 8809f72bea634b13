\* An OS that overwrites either page, as the doc allows, and uses soft reboots.
SPECIFICATION FairSpec
CONSTANTS
  MaxVersion = 3
  Payload = {a}
  Dwords = 2
  Erased = Erased
  Garbled = Garbled
  NoMeta = NoMeta
  Faults = {}
  OsSparesNewest = FALSE
  SoftReboots = TRUE
  Bootable = {}
PROPERTIES
  NeverBroken
