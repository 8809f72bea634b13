--------------------------- MODULE MetadataPages ---------------------------
(***************************************************************************)
(* The two flash pages that hold the metadata block, as values: what a     *)
(* page can contain, when the CRC of bootloader/src/metadata.rs accepts    *)
(* it, and which block internal_select picks.                              *)
(*                                                                         *)
(* A page is a function from the double words of struct Metadata to cells. *)
(* A cell is erased, garbled by an operation that did not complete, or it  *)
(* carries the corresponding double word of one block.  CRC32-C is taken   *)
(* as injective: the stored CRC matches exactly when all the double words  *)
(* come from the same block.  interface/src/crc.rs tests that an erased    *)
(* and a zeroed block are rejected, which this abstraction agrees with.    *)
(***************************************************************************)
EXTENDS Naturals

CONSTANTS
  MaxVersion,   \* largest version an image may carry (0xfffffffe in the code)
  Payload,      \* everything in a block but its version and CRC
  Dwords,       \* double words of a block (8 in the code)
  Erased,       \* an erased double word, all ones
  Garbled,      \* a double word left undefined by an interrupted operation
  NoMeta        \* None, for Option<Metadata>

ASSUME MaxVersionAssumption == MaxVersion \in Nat \ {0}
ASSUME DwordsAssumption     == Dwords \in Nat \ {0}

(* 0 and 0xffffffff are excluded: an erased or zeroed page reads so.       *)
Version  == 1 .. MaxVersion
Metadata == [version : Version, payload : Payload]
Dword    == 1 .. Dwords

ASSUME CellAssumption ==
  /\ Erased \notin Metadata
  /\ Garbled \notin Metadata
  /\ Erased # Garbled
  /\ NoMeta \notin Metadata

Cell == Metadata \cup {Erased, Garbled}
PageImage == [Dword -> Cell]

(* METADATA_1_ADDR and METADATA_2_ADDR; NoPage is None for write_addr.     *)
METADATA_1 == 1
METADATA_2 == 2
NoPage == 0
Page == {METADATA_1, METADATA_2}
Other(p) == IF p = METADATA_1 THEN METADATA_2 ELSE METADATA_1

ErasedPage == [d \in Dword |-> Erased]
Holds(page, m) == \A d \in Dword : page[d] = m

-----------------------------------------------------------------------------
(* read_metadata, whose result is only used when the page is valid: a page *)
(* then holds the block that its first double word comes from.             *)
read_metadata(page) == page[1]

(* Metadata::is_valid *)
is_valid(page) == page[1] \in Metadata /\ Holds(page, page[1])

SelectResult(m, addr) == [meta |-> m, write_addr |-> addr]

(* Mutant: on a version tie page two is rewritten as well. *)
internal_select_tie_rewrites(md1, valid1, md2, valid2) ==
  IF valid1 /\ valid2 THEN
    IF md1.version >= md2.version THEN SelectResult(md1, METADATA_2)
    ELSE SelectResult(md2, METADATA_1)
  ELSE IF valid1 THEN SelectResult(md1, METADATA_2)
  ELSE IF valid2 THEN SelectResult(md2, METADATA_1)
  ELSE SelectResult(NoMeta, NoPage)

(* Mutant: the block to keep is repaired instead of the other one. *)
internal_select_repairs_source(md1, valid1, md2, valid2) ==
  IF valid1 /\ valid2 THEN
    IF md1.version > md2.version THEN SelectResult(md1, METADATA_1)
    ELSE IF md1.version < md2.version THEN SelectResult(md2, METADATA_2)
    ELSE SelectResult(md1, NoPage)
  ELSE IF valid1 THEN SelectResult(md1, METADATA_1)
  ELSE IF valid2 THEN SelectResult(md2, METADATA_2)
  ELSE SelectResult(NoMeta, NoPage)

(* Mutant: page one wins whenever it is valid. *)
internal_select_prefers_one(md1, valid1, md2, valid2) ==
  IF valid1 /\ valid2 THEN
    IF md1.version = md2.version THEN SelectResult(md1, NoPage)
    ELSE SelectResult(md1, METADATA_2)
  ELSE IF valid1 THEN SelectResult(md1, METADATA_2)
  ELSE IF valid2 THEN SelectResult(md2, METADATA_1)
  ELSE SelectResult(NoMeta, NoPage)

(* internal_select: one branch per arm of the match *)
internal_select(md1, valid1, md2, valid2) ==
  IF valid1 /\ valid2 THEN
    IF md1.version > md2.version THEN SelectResult(md1, METADATA_2)
    ELSE IF md1.version < md2.version THEN SelectResult(md2, METADATA_1)
    ELSE SelectResult(md1, NoPage)
  ELSE IF valid1 THEN SelectResult(md1, METADATA_2)
  ELSE IF valid2 THEN SelectResult(md2, METADATA_1)
  ELSE SelectResult(NoMeta, NoPage)

(* The first half of select_metadata: read both pages and compare them. *)
Select(flash) ==
  internal_select(read_metadata(flash[METADATA_1]), is_valid(flash[METADATA_1]),
                  read_metadata(flash[METADATA_2]), is_valid(flash[METADATA_2]))

(* Two valid pages of one version: nothing to repair *)
Intact(flash) ==
  /\ is_valid(flash[METADATA_1]) /\ is_valid(flash[METADATA_2])
  /\ read_metadata(flash[METADATA_1]).version = read_metadata(flash[METADATA_2]).version

(* The block that a boot from these pages would use. *)
Current(flash) == Select(flash).meta
=============================================================================
