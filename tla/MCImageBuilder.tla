--------------------------- MODULE MCImageBuilder ---------------------------
(* Pages of two words, slots of three, two words behind the last slot.     *)
EXTENDS ImageBuilder

CONSTANTS boot, a, b, flash

Binary(name, n) == [k \in 1 .. n |-> <<name, k>>]

(* What an ELF file would look like if it were a binary *)
Elf(name) == <<ElfMagic, <<name, 2>>>>

(* A bootloader that fits exactly, one that is too long, an ELF file, too  *)
(* little code                                                             *)
MCBootloaders == {Binary(boot, 2), Binary(boot, 3), Elf(boot), <<Zero, Zero>>}

(* Shorter than a slot, a whole slot, too long, linked to flash, an ELF    *)
(* file, too little code                                                   *)
MCImages ==
  {Binary(a, 2), Binary(b, 3), Binary(b, 4), Binary(flash, 3), Elf(a),
   <<Zero, Zero>>}
MCRamEntries == {<<a, 2>>, <<b, 2>>}
=============================================================================
