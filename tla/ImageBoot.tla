----------------------------- MODULE ImageBoot -----------------------------
(***************************************************************************)
(* The image half of a boot: run() from the soft reboot check on, once it  *)
(* has valid metadata.  select_image verifies images in flash,             *)
(* copy_image_to_ram copies one page by page, feeding the watchdog, and    *)
(* reads it back; jump_to_image starts whatever is in RAM then.            *)
(*                                                                         *)
(* Memory is counted in units, some per page.  Every unit of a slot has a  *)
(* value of its own and a CRC is the tuple of the units it covers, so two  *)
(* CRCs agree exactly when the covered units do.  A CRC in the metadata    *)
(* that does not match its slot is BadCrc.                                 *)
(***************************************************************************)
EXTENDS Naturals

CONSTANTS
  NUMBER_OF_IMAGES,
  SlotUnits,        \* SLOT_SIZE in units
  PageUnits,        \* page_size() in units
  Lengths,          \* the lengths images may have, in units
  RamFaults,        \* copies of a page that may go wrong in one boot
  SoftReboots,      \* the OS uses the soft reboot registers
  WatchdogBudgets,  \* how many CRC calculations may fit between two feeds
  BadCrc, Garbled, Stale

ASSUME ImagesAssumption == NUMBER_OF_IMAGES \in Nat \ {0}
ASSUME UnitsAssumption ==
  /\ PageUnits \in Nat \ {0} /\ SlotUnits \in Nat \ {0}
  /\ SlotUnits % PageUnits = 0
  /\ Lengths \subseteq 0 .. SlotUnits
ASSUME BoundsAssumption ==
  RamFaults \in Nat /\ WatchdogBudgets \subseteq Nat /\ SoftReboots \in BOOLEAN

Image == 0 .. NUMBER_OF_IMAGES - 1
Unit == 1 .. SlotUnits
Slot(i) == [u \in Unit |-> <<i, u>>]
SlotPages == SlotUnits \div PageUnits
RamContents == [Unit -> {Slot(i)[u] : i \in Image, u \in Unit} \cup {Garbled, Stale}]
StaleRam == [u \in Unit |-> Stale]

calc_crc32(memory, length) == [u \in 1 .. length |-> memory[u]]

(* u32 fields that select_image looks at; any preferred index is possible, *)
(* NUMBER_OF_IMAGES stands for all those out of range.                     *)
ImageMetadata(i) ==
  UNION {[length : {n}, crc : {calc_crc32(Slot(i), n), BadCrc}] : n \in Lengths}
Metadata ==
  {[preferred_image |-> p, images |-> f] :
     p \in Image \cup {NUMBER_OF_IMAGES},
     f \in {g \in [Image -> UNION {ImageMetadata(i) : i \in Image}] :
              \A i \in Image : g[i] \in ImageMetadata(i)}}

(* rtc.bkpr[0], whether it holds the magic value, and rtc.bkpr[1] *)
Registers == [magic : BOOLEAN, index : Image \cup {NUMBER_OF_IMAGES}]
ClearedRegisters == [magic |-> FALSE, index |-> 0]

VARIABLES
  pc,           \* where run() is
  metadata,     \* what select_metadata returned
  bkpr,         \* the soft reboot registers
  requested,    \* history: the slot the OS has asked for, until a reset forgets it
  soft,         \* this boot follows a soft reboot request
  scan,         \* loop index of select_image
  index,        \* the image chosen
  length,       \* how much of it is copied, in units
  attempt,      \* loop counter of copy_image_to_ram
  page,         \* inner loop counter of copy_image_to_ram
  ram,          \* the RAM from RAM_ADDR on
  ram_faults,   \* copies that went wrong in this boot
  unfed,        \* CRC calculations since the watchdog was last fed
  budget        \* how many fit, by the clock of this chip; never changes

vars == <<pc, metadata, bkpr, requested, soft, scan, index, length, attempt, page,
          ram, ram_faults, unfed, budget>>
choice == <<soft, scan, index, length>>
copying == <<attempt, page, ram, ram_faults>>

PcValues ==
  {"reset", "preferred", "scan", "crc_before", "copy", "readback", "jump", "os", "panic"}

TypeOK ==
  /\ pc \in PcValues
  /\ metadata \in Metadata
  /\ bkpr \in Registers
  /\ requested \in Image \cup {NUMBER_OF_IMAGES}
  /\ soft \in BOOLEAN
  /\ scan \in 0 .. NUMBER_OF_IMAGES
  /\ index \in Image
  /\ length \in Lengths \cup {0, SlotUnits}
  /\ attempt \in 1 .. 3
  /\ page \in 0 .. SlotPages
  /\ ram \in RamContents
  /\ ram_faults \in 0 .. RamFaults
  /\ budget \in WatchdogBudgets
  /\ unfed \in 0 .. budget + 1

Init ==
  /\ pc = "reset"
  /\ metadata \in Metadata
  /\ bkpr = ClearedRegisters /\ requested = NUMBER_OF_IMAGES
  /\ soft = FALSE /\ scan = 0 /\ index = 0 /\ length = 0
  /\ attempt = 1 /\ page = 0 /\ ram = StaleRam /\ ram_faults = 0
  /\ unfed = 0 /\ budget \in WatchdogBudgets

-----------------------------------------------------------------------------
(* Mutant: an incomplete last page is left out. *)
page_span_rounds_down(n, page_size) == n \div page_size

(* Mutant: there always is an incomplete last page. *)
page_span_one_more(n, page_size) == n \div page_size + 1

page_span(n, page_size) == (n + page_size - 1) \div page_size

Verifies(i) ==
  calc_crc32(Slot(i), metadata.images[i].length) = metadata.images[i].crc

(* The call of copy_image_to_ram *)
CopyImage(i, n) ==
  /\ index' = i
  /\ length' = n
  /\ pc' = "crc_before"

(* Mutant: the registers survive the boot they asked for. *)
is_soft_keeps_magic ==
  /\ pc = "reset"
  /\ bkpr' = bkpr
  /\ IF bkpr.magic /\ bkpr.index \in Image
     THEN soft' = TRUE /\ CopyImage(bkpr.index, SlotUnits)
     ELSE pc' = "preferred" /\ UNCHANGED <<soft, index, length>>
  /\ UNCHANGED <<metadata, scan, unfed>> /\ UNCHANGED copying

(* Mutant: the registers are cleared before the index is read. *)
is_soft_clears_first ==
  /\ pc = "reset"
  /\ bkpr' = IF bkpr.magic THEN ClearedRegisters ELSE bkpr
  /\ IF bkpr.magic /\ bkpr'.index \in Image
     THEN soft' = TRUE /\ CopyImage(bkpr'.index, SlotUnits)
     ELSE pc' = "preferred" /\ UNCHANGED <<soft, index, length>>
  /\ UNCHANGED <<metadata, scan, unfed>> /\ UNCHANGED copying

(* setup_and_start and is_soft; a soft boot skips select_image *)
is_soft ==
  /\ pc = "reset"
  /\ bkpr' = IF bkpr.magic THEN ClearedRegisters ELSE bkpr
  /\ IF bkpr.magic /\ bkpr.index \in Image
     THEN soft' = TRUE /\ CopyImage(bkpr.index, SlotUnits)
     ELSE pc' = "preferred" /\ UNCHANGED <<soft, index, length>>
  /\ UNCHANGED <<metadata, scan, unfed>> /\ UNCHANGED copying

(* Mutant: the preferred index is not checked before it is used. *)
select_image_preferred_unchecked ==
  /\ pc = "preferred"
  /\ LET p == metadata.preferred_image IN
       \/ /\ p \in Image /\ Verifies(p)
          /\ CopyImage(p, metadata.images[p].length)
       \/ /\ p \in Image /\ ~Verifies(p)
          /\ pc' = "scan"
          /\ UNCHANGED <<index, length>>
       \/ /\ p \notin Image
          /\ pc' = "panic"
          /\ UNCHANGED <<index, length>>
  /\ unfed' = unfed + 1
  /\ UNCHANGED <<metadata, bkpr, soft, scan>> /\ UNCHANGED copying

(* select_image: the preferred image, if the index is in range *)
select_image_preferred ==
  /\ pc = "preferred"
  /\ LET p == metadata.preferred_image IN
       \/ /\ p \in Image /\ Verifies(p)
          /\ CopyImage(p, metadata.images[p].length)
          /\ unfed' = unfed + 1
          /\ UNCHANGED scan
       \/ /\ p \in Image /\ ~Verifies(p)
          /\ pc' = "scan" /\ scan' = 0
          /\ unfed' = unfed + 1
          /\ UNCHANGED <<index, length>>
       \/ /\ p \notin Image
          /\ pc' = "scan" /\ scan' = 0
          /\ UNCHANGED <<unfed, index, length>>
  /\ UNCHANGED <<metadata, bkpr, soft>> /\ UNCHANGED copying

(* select_image: one turn of the loop over all images, then the todo!() *)
select_image_scan ==
  /\ pc = "scan"
  /\ \/ /\ scan \in Image /\ Verifies(scan)
        /\ CopyImage(scan, metadata.images[scan].length)
        /\ unfed' = unfed + 1
        /\ UNCHANGED scan
     \/ /\ scan \in Image /\ ~Verifies(scan)
        /\ scan' = scan + 1
        /\ unfed' = unfed + 1
        /\ UNCHANGED <<pc, index, length>>
     \/ /\ scan = NUMBER_OF_IMAGES
        /\ pc' = "panic"
        /\ UNCHANGED <<scan, unfed, index, length>>
  /\ UNCHANGED <<metadata, bkpr, soft>> /\ UNCHANGED copying

(* copy_image_to_ram: the CRC to compare with, taken from flash *)
crc_before ==
  /\ pc = "crc_before"
  /\ unfed' = unfed + 1
  /\ attempt' = 1 /\ page' = 0
  /\ pc' = "copy"
  /\ UNCHANGED <<metadata, bkpr, ram, ram_faults>> /\ UNCHANGED choice

PageOf(i) == i * PageUnits + 1 .. (i + 1) * PageUnits

(* copy_nonoverlapping of one page, which may go wrong *)
CopyOnePage ==
  /\ pc = "copy" /\ page < page_span(length, PageUnits)
  /\ \/ /\ ram' = [u \in Unit |-> IF u \in PageOf(page) THEN Slot(index)[u] ELSE ram[u]]
        /\ UNCHANGED ram_faults
     \/ /\ ram_faults < RamFaults
        /\ \E bad \in PageOf(page) :
             ram' = [u \in Unit |-> IF u = bad THEN Garbled
                                    ELSE IF u \in PageOf(page) THEN Slot(index)[u]
                                    ELSE ram[u]]
        /\ ram_faults' = ram_faults + 1
  /\ page' = page + 1
  /\ UNCHANGED <<pc, metadata, bkpr, attempt>> /\ UNCHANGED choice

(* Mutant: nothing is fed while the pages are copied. *)
copy_page_unfed == CopyOnePage /\ UNCHANGED unfed

(* One page, and watchdog::feed *)
copy_page == CopyOnePage /\ unfed' = 0

copy_done ==
  /\ pc = "copy" /\ page = page_span(length, PageUnits)
  /\ pc' = "readback"
  /\ UNCHANGED <<metadata, bkpr, unfed>> /\ UNCHANGED choice /\ UNCHANGED copying

(* The CRC over the copy; run() goes on in the same way for Ok(()), a copy *)
(* that matches, and for Err(()), the last one that does not.              *)
ReadBack(attempts) ==
  /\ pc = "readback"
  /\ unfed' = unfed + 1
  /\ LET good == calc_crc32(ram, length) = calc_crc32(Slot(index), length) IN
       \/ /\ good \/ attempt = attempts
          /\ pc' = "jump"
          /\ UNCHANGED <<attempt, page>>
       \/ /\ ~good /\ attempt < attempts
          /\ attempt' = attempt + 1
          /\ page' = 0
          /\ pc' = "copy"
  /\ UNCHANGED <<metadata, bkpr, ram, ram_faults>> /\ UNCHANGED choice

(* Mutant: two attempts instead of three. *)
readback_gives_up_early == ReadBack(2)

(* Mutant: the copy is repeated, but the attempt is not counted. *)
readback_does_not_count ==
  /\ pc = "readback"
  /\ unfed' = unfed + 1
  /\ pc' = IF calc_crc32(ram, length) = calc_crc32(Slot(index), length) \/ attempt = 3
           THEN "jump" ELSE "copy"
  /\ page' = IF pc' = "copy" THEN 0 ELSE page
  /\ UNCHANGED <<metadata, bkpr, attempt, ram, ram_faults>> /\ UNCHANGED choice

readback == ReadBack(3)

jump_to_image ==
  /\ pc = "jump"
  /\ pc' = "os"
  /\ UNCHANGED <<metadata, bkpr, unfed>> /\ UNCHANGED choice /\ UNCHANGED copying

-----------------------------------------------------------------------------
(* What a reset of any kind leaves: nothing but the backup registers, and  *)
(* not even those when the power was lost.  No promise about the RAM.      *)
Restart ==
  /\ pc' = "reset"
  /\ bkpr' \in {bkpr, ClearedRegisters}
  /\ requested' = IF bkpr'.magic THEN requested ELSE NUMBER_OF_IMAGES
  /\ soft' = FALSE /\ scan' = 0 /\ index' = 0 /\ length' = 0
  /\ attempt' = 1 /\ page' = 0 /\ ram' = StaleRam /\ ram_faults' = 0
  /\ unfed' = 0
  /\ UNCHANGED metadata

(* The panic handler calls sys_reset. *)
panic == pc = "panic" /\ Restart

Reset == pc # "reset" /\ Restart /\ UNCHANGED budget

(* The independent watchdog *)
WatchdogReset == unfed > budget /\ pc # "os" /\ Restart /\ UNCHANGED budget

(* The running OS: images and metadata replaced, a soft reboot requested *)
OsUpdate ==
  /\ pc = "os"
  /\ metadata' \in Metadata
  /\ UNCHANGED <<pc, bkpr, requested, unfed, budget>>
  /\ UNCHANGED choice /\ UNCHANGED copying

OsRequestSoftReboot ==
  /\ SoftReboots
  /\ pc = "os"
  /\ bkpr' \in {r \in Registers : r.magic}
  /\ requested' = bkpr'.index
  /\ UNCHANGED <<pc, metadata, unfed, budget>> /\ UNCHANGED choice /\ UNCHANGED copying

Boot ==
  /\ unfed <= budget /\ UNCHANGED budget
  /\ \/ panic
     \/ /\ UNCHANGED requested
        /\ \/ is_soft
           \/ select_image_preferred
           \/ select_image_scan
           \/ crc_before
           \/ copy_page
           \/ copy_done
           \/ readback
           \/ jump_to_image

Next == Boot \/ WatchdogReset \/ OsUpdate \/ OsRequestSoftReboot \/ Reset

Spec == Init /\ [][Next]_vars

(* The processor runs and the watchdog counts. *)
FairSpec == Spec /\ WF_vars(Boot \/ WatchdogReset)

-----------------------------------------------------------------------------
(* Properties                                                              *)

(* What select_image promises, without its loop: the preferred image if it *)
(* verifies, otherwise the first one that does.                            *)
Preferred == {i \in Image : i = metadata.preferred_image /\ Verifies(i)}
Candidates == IF Preferred # {} THEN Preferred ELSE {i \in Image : Verifies(i)}

(* A permanent boot starts the image select_image owes, whole and exactly  *)
(* as the metadata describes it, in spite of RamFaults bad copies.         *)
BootsChosenImage ==
  pc = "jump" /\ ~soft =>
    /\ index \in Candidates /\ \A i \in Candidates : index <= i
    /\ calc_crc32(ram, metadata.images[index].length) = metadata.images[index].crc

(* A soft boot starts the slot the OS has asked for last, however many     *)
(* resets lie between, whole and as it is in flash in spite of RamFaults   *)
(* bad copies (is_soft, run, copy_image_to_ram).                           *)
SoftBootIsExact == pc = "jump" /\ soft => index = requested /\ ram = Slot(requested)

(* The registers are read once: whatever becomes of a soft boot, the next  *)
(* reset returns to the metadata unless the OS asks again (is_soft).       *)
SoftRequestIsConsumed == pc \notin {"reset", "os"} => ~bkpr.magic

(* "It only boots images it could verify to be correct (a CRC from the     *)
(* metadata stored on flash equal to the CRC calculated from the image)".  *)
OnlyVerifiedImages ==
  pc = "jump" =>
    calc_crc32(ram, metadata.images[index].length) = metadata.images[index].crc

(* "The bootloader boots images that are stored on the flash": the vector  *)
(* table that jump_to_image finds at RAM_ADDR is the one of the image.     *)
EntryComesFromImage == pc = "jump" => ram[1] = Slot(index)[1]

(* With an image that verifies the device reaches the OS once the outside  *)
(* resets stop (those of the watchdog and of the panic handler are its     *)
(* own), if the watchdog allows the longest search; with a preferred image *)
(* that verifies it does so however tight the watchdog is, beyond two CRCs *)
(* (select_image, copy_image_to_ram).                                      *)
LongestSearch == NUMBER_OF_IMAGES + 2
ResetsStop == <>[][Reset => unfed > budget \/ pc = "panic"]_vars
BootsWhenPossible ==
  ResetsStop =>
    ((/\ pc = "reset" /\ \E i \in Image : Verifies(i)
      /\ budget >= LongestSearch \/ (budget >= 2 /\ Preferred # {}))
       ~> pc = "os")

(* Seen from outside, the search, the copy with its retries and the soft   *)
(* reboot registers are one choice of a slot, which is what gets started,  *)
(* exactly, or nothing is (select_image, copy_image_to_ram, is_soft).      *)
VerifiedSlots == {i \in Image : Verifies(i)}
Asked == IF bkpr.magic THEN bkpr.index ELSE NUMBER_OF_IMAGES
Chosen ==
  IF pc \in {"crc_before", "copy", "readback", "jump", "os"} THEN index ELSE NUMBER_OF_IMAGES
Exact == calc_crc32(ram, length) = calc_crc32(Slot(index), length)
Started ==
  IF pc # "os" THEN NUMBER_OF_IMAGES ELSE IF Exact THEN index ELSE Garbled
OneChoice ==
  INSTANCE ImageChoice
    WITH Slots <- Image, NoSlot <- NUMBER_OF_IMAGES,
         preferred <- metadata.preferred_image, verified <- VerifiedSlots,
         asked <- Asked, chosen <- Chosen, running <- Started
ChoiceKept == OneChoice!Spec

(* A boot that nothing interrupts ends: StepsLeft bounds what is left of   *)
(* it, and every step of run() but a panic brings it down.  The copy feeds *)
(* the watchdog, so one that were repeated for ever would never be ended   *)
(* by a reset (copy_image_to_ram).                                         *)
AttemptSteps == SlotPages + 2
CopySteps == 3 * AttemptSteps + 2
StepsLeft ==
  CASE pc = "reset"      -> CopySteps + NUMBER_OF_IMAGES + 3
    [] pc = "preferred"  -> CopySteps + NUMBER_OF_IMAGES + 2
    [] pc = "scan"       -> CopySteps + 1 + (NUMBER_OF_IMAGES - scan)
    [] pc = "crc_before" -> CopySteps
    [] pc = "copy"       ->
         (3 - attempt) * AttemptSteps + (page_span(length, PageUnits) - page) + 3
    [] pc = "readback"   -> (3 - attempt) * AttemptSteps + 2
    [] pc \in {"jump", "panic"} -> 1
    [] pc = "os"         -> 0
BootsEnd == [][Boot /\ pc' # "reset" => StepsLeft' < StepsLeft /\ StepsLeft' >= 0]_vars

(* The preferred image needs no search and so never more than two CRCs     *)
(* between two feeds, whatever the retries.                                *)
PreferredNeedsTwo == pc # "os" /\ Preferred # {} => unfed <= 2

(* A watchdog that allows the longest search never bites before the OS     *)
(* runs: it is fed in time on every path of select_image and               *)
(* copy_image_to_ram.                                                      *)
WatchdogKeepsQuiet == pc # "os" /\ budget >= LongestSearch => unfed <= budget
=============================================================================
