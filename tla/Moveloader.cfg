\* Two slots, two images; a flash that reports its failures.
SPECIFICATION MFairSpec
CONSTANTS
  MaxVersion = 2
  Payload <- MCPayload
  Dwords = 2
  Erased = Erased
  Garbled = Garbled
  NoMeta = NoMeta
  Faults = {"unlock", "erase", "program"}
  OsSparesNewest = TRUE
  SoftReboots = TRUE
  Bootable = {}
  NUMBER_OF_IMAGES = 2
  Content <- MCContent
  Torn = Torn
  NoImage = NoImage
  a = a
  b = b
INVARIANTS
  MTypeOK
  FixOkMeansIntact
  FixProgress
PROPERTIES
  PromiseKept
  ChoiceKept
  OldOrNew
  ComesBack
