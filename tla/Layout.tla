------------------------------- MODULE Layout -------------------------------
(***************************************************************************)
(* The memory layout of interface/src/lib.rs in bytes, and how             *)
(* bootloader/src/flash.rs turns an address into what the flash controller *)
(* is told to erase, for both bank modes of the chip.                      *)
(***************************************************************************)
EXTENDS Naturals

SINGLE_BANK_PAGE_SIZE == 8192
DUAL_BANK_PAGE_SIZE == 4096
MAX_PAGE_SIZE == SINGLE_BANK_PAGE_SIZE

FLASH_SIZE == 2097152
SLOT_SIZE == 63 * MAX_PAGE_SIZE
METADATA_SIZE == 64

METADATA_1_ADDR == MAX_PAGE_SIZE
METADATA_2_ADDR == 2 * MAX_PAGE_SIZE
SLOT_1_ADDR == 3 * MAX_PAGE_SIZE
SLOT_2_ADDR == SLOT_1_ADDR + SLOT_SIZE
SLOT_3_ADDR == SLOT_2_ADDR + SLOT_SIZE

(* Everything the flash is divided into: where it starts, where the next   *)
(* part starts.  The bootloader has what is in front of the metadata.      *)
Region(start, end) == [start |-> start, end |-> end]
Regions ==
  { Region(0, METADATA_1_ADDR),
    Region(METADATA_1_ADDR, METADATA_2_ADDR),
    Region(METADATA_2_ADDR, SLOT_1_ADDR),
    Region(SLOT_1_ADDR, SLOT_1_ADDR + SLOT_SIZE),
    Region(SLOT_2_ADDR, SLOT_2_ADDR + SLOT_SIZE),
    Region(SLOT_3_ADDR, SLOT_3_ADDR + SLOT_SIZE) }

-----------------------------------------------------------------------------
page_size(dualbank) ==
  IF dualbank THEN DUAL_BANK_PAGE_SIZE ELSE SINGLE_BANK_PAGE_SIZE

(* Mutant: the page size of single-bank mode in both modes. *)
address_to_page_number_one_size(address, dualbank) ==
  address \div SINGLE_BANK_PAGE_SIZE

address_to_page_number(address, dualbank) == address \div page_size(dualbank)

(* The limit beyond which erase_page returns InvalidPage *)
PagesOfFlash(dualbank) == IF dualbank THEN 512 ELSE 256

(* BKER and PNB as erase_page sets them, the latter from an `as u8` *)
Selection(page_number, dualbank) ==
  [bker |-> dualbank /\ page_number \div 256 = 1,
   pnb  |-> page_number % 256]

(* What the controller erases: the second half of the flash is bank 2, and *)
(* PNB counts within the bank.                                             *)
ErasedFrom(selection, dualbank) ==
  (IF selection.bker THEN FLASH_SIZE \div 2 ELSE 0)
    + selection.pnb * page_size(dualbank)
=============================================================================
