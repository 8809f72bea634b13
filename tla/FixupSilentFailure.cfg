\* A double word write may report success without having taken effect.
SPECIFICATION Spec
CONSTANTS
  MaxVersion = 2
  Payload = {a}
  Dwords = 2
  Erased = Erased
  Garbled = Garbled
  NoMeta = NoMeta
  Faults = {"silent"}
  OsSparesNewest = TRUE
  SoftReboots = FALSE
  Bootable = {}
INVARIANTS
  FixOkMeansIntact
