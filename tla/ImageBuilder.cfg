\* Every combination of good and bad inputs; up to two edits of the file.
SPECIFICATION Spec
CONSTANTS
  Bootloaders <- MCBootloaders
  Images <- MCImages
  RamEntries <- MCRamEntries
  MAX_PAGE_SIZE = 2
  SLOT_SIZE = 3
  FLASH_SIZE = 17
  BINARY_MIN_UNIQUE_INSTRUCTIONS = 2
  MaxEdits = 2
  Zero = Zero
  Erased = Erased
  ElfMagic = ElfMagic
  BadCrc = BadCrc
  NoFile = NoFile
  boot = boot
  a = a
  b = b
  flash = flash
CHECK_DEADLOCK FALSE
INVARIANTS
  TypeOK
  GeneratedLayout
  WrittenFileBoots
  AcceptedFileBoots
  WrittenFileAccepted
