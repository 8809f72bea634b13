----------------------------- MODULE Moveloader -----------------------------
(***************************************************************************)
(* The whole of run(): the metadata half as in MetadataFixup, whose        *)
(* variables and actions this module takes over, and the image half, which *)
(* ImageBoot has in detail, in three steps.  They meet in the flash: the   *)
(* CRCs in the metadata are about slots that the OS overwrites, one slot   *)
(* and one metadata page at a time, while the power may fail at any point. *)
(*                                                                         *)
(* A slot holds a complete image or remains of one (Torn), and the CRC in  *)
(* the metadata is the image it was computed from.  Images are not empty   *)
(* and their copies to RAM are exact (ImageBoot!BootsChosenImage).         *)
(* Whether an image verifies is decided by the slots here, so that the     *)
(* instances have no payload in Bootable.                                  *)
(***************************************************************************)
EXTENDS MetadataFixup

CONSTANTS
  NUMBER_OF_IMAGES,
  Content,          \* complete images
  Torn,             \* the remains of an image
  NoImage           \* nothing runs, nothing is chosen

Slot == 0 .. NUMBER_OF_IMAGES - 1
NoSlot == NUMBER_OF_IMAGES

ASSUME SlotAssumption == NUMBER_OF_IMAGES \in Nat \ {0}
ASSUME ContentAssumption ==
  Torn \notin Content /\ NoImage \notin Content /\ Torn # NoImage

(* The CRC of an image goes with its length. *)
ASSUME PayloadAssumption ==
  Payload \subseteq [preferred_image : Nat, images : [Slot -> Content]]

VARIABLES
  slots,      \* the image slots in flash
  bkpr1,      \* rtc.bkpr[1], the slot that a soft reboot asks for
  index,      \* the slot that this boot has settled on
  running     \* what jump_to_image has started

images == <<slots, bkpr1, index, running>>
mvars == <<flash, pc, metadata, write, fix_result, soft, slots, bkpr1, index, running>>

MTypeOK ==
  /\ TypeOK
  /\ slots \in [Slot -> Content \cup {Torn}]
  /\ bkpr1 \in Slot \cup {NoSlot}
  /\ index \in Slot \cup {NoSlot}
  /\ running \in Content \cup {Torn, NoImage}

(* The flash as image-builder fills it, or as scripts/test_hardware.sh     *)
(* damages it: either block may be gone, and any of the slots.             *)
MInit ==
  /\ \E m \in Metadata :
       /\ m.version = 1 /\ m.payload.preferred_image = 0
       /\ flash \in [Page -> {[d \in Dword |-> m], ErasedPage}]
       /\ slots \in [Slot -> Content \cup {Torn}]
       /\ \A i \in Slot : slots[i] \in {m.payload.images[i], Torn}
  /\ pc = "reset" /\ metadata = NoMeta /\ write = NoWrite /\ fix_result = "none"
  /\ soft = "none" /\ bkpr1 = NoSlot
  /\ index = NoSlot /\ running = NoImage

-----------------------------------------------------------------------------
(* select_image                                                            *)

verify_image(payload, contents, i) == contents[i] = payload.images[i]

First(S) == CHOOSE i \in S : \A j \in S : i <= j

Verified(payload, contents) == {i \in Slot : verify_image(payload, contents, i)}

(* Mutant: the search does not begin with the preferred image. *)
select_image_first(payload, contents) ==
  LET verified == Verified(payload, contents)
  IN IF verified = {} THEN NoSlot ELSE First(verified)

(* NoSlot is the todo!() at its end. *)
select_image(payload, contents) ==
  LET preferred == payload.preferred_image
      verified == Verified(payload, contents)
  IN IF preferred \in verified THEN preferred
     ELSE IF verified = {} THEN NoSlot ELSE First(verified)

(* What a permanent boot from these pages and slots would start *)
Offered(pages, contents) ==
  LET current == Current(pages)
      i == select_image(current.payload, contents)
  IN IF current = NoMeta \/ i = NoSlot THEN NoImage ELSE contents[i]

Offer == Offered(flash, slots)

-----------------------------------------------------------------------------
(* run()                                                                   *)

(* The registers are cleared, the index of a soft reboot is used at once. *)
m_is_soft ==
  /\ is_soft
  /\ index' = IF soft = "valid" THEN bkpr1 ELSE NoSlot
  /\ bkpr1' = IF soft' = "none" THEN NoSlot ELSE bkpr1
  /\ UNCHANGED <<slots, running>>

m_select_metadata ==
  /\ \/ select_metadata
     \/ unlock_flash
     \/ write_metadata_erase
     \/ write_metadata_program
     \/ write_metadata_return
  /\ UNCHANGED images

m_select_image ==
  /\ pc = "boot" /\ index = NoSlot
  /\ index' = select_image(metadata.payload, slots)
  /\ index' # NoSlot
  /\ UNCHANGED vars /\ UNCHANGED <<slots, bkpr1, running>>

(* copy_image_to_ram and jump_to_image, in a permanent boot and in a soft  *)
(* one, where the slot has not been verified                               *)
copy_and_jump ==
  /\ index # NoSlot /\ running = NoImage
  /\ running' = slots[index]
  /\ StartOs \/ (pc = "os" /\ UNCHANGED vars)
  /\ UNCHANGED <<slots, bkpr1, index>>

-----------------------------------------------------------------------------
(* Resets                                                                  *)

ImagesReset ==
  /\ bkpr1' = IF soft' = "none" THEN NoSlot ELSE bkpr1
  /\ index' = NoSlot /\ running' = NoImage
  /\ UNCHANGED slots

MReset == Reset /\ ImagesReset

(* failsafe_boot and the end of select_image are todo!()s. *)
NothingToBoot ==
  \/ pc = "failsafe"
  \/ pc = "boot" /\ index = NoSlot /\ select_image(metadata.payload, slots) = NoSlot

panic == NothingToBoot /\ MReset

(* What is no OS does not feed the watchdog that the bootloader started. *)
watchdog == running = Torn /\ MReset

-----------------------------------------------------------------------------
(* The running OS, as doc/User-Guide.md describes its duties.              *)
OsRuns == running \in Content

(* "An OS must first write the image to the flash storage": it does not    *)
(* overwrite the only image that the next boot could start.                *)
OsEraseSlot(i) ==
  /\ pc = "os" /\ OsRuns
  /\ LET erased == [slots EXCEPT ![i] = Torn] IN
       Offered(flash, erased) # NoImage /\ slots' = erased
  /\ UNCHANGED vars /\ UNCHANGED <<bkpr1, index, running>>

OsWriteSlot(i, image) ==
  /\ pc = "os" /\ OsRuns
  /\ slots[i] = Torn
  /\ slots' = [slots EXCEPT ![i] = image]
  /\ UNCHANGED vars /\ UNCHANGED <<bkpr1, index, running>>

(* "Afterwards, it must overwrite one of the metadata slots, including the *)
(* CRC": of the image that is to be booted, at least.                      *)
OsPublish(p, m) ==
  /\ pc = "os" /\ OsRuns
  /\ LET i == m.payload.preferred_image IN
       i \in Slot /\ verify_image(m.payload, slots, i)
  /\ OsUpdate(p, m)
  /\ UNCHANGED images

OsWritesPage ==
  /\ OsErase \/ OsProgram
  /\ UNCHANGED images

OsAsksForTrial ==
  /\ OsRuns
  /\ OsRequestSoftReboot
  /\ bkpr1' \in IF soft' = "valid" THEN Slot ELSE {NoSlot}
  /\ UNCHANGED <<slots, index, running>>

-----------------------------------------------------------------------------
MBoot == m_is_soft \/ m_select_metadata \/ m_select_image \/ copy_and_jump \/ panic

MOs ==
  \/ \E i \in Slot : OsEraseSlot(i) \/ \E image \in Content : OsWriteSlot(i, image)
  \/ \E p \in Page, m \in Metadata : OsPublish(p, m)
  \/ OsWritesPage
  \/ OsAsksForTrial

MNext == MBoot \/ watchdog \/ MOs \/ MReset

MSpec == MInit /\ [][MNext]_mvars

(* The processor executes run(), BSY clears and the watchdog counts. *)
MFairSpec == MSpec /\ WF_mvars(MBoot) /\ WF_mvars(watchdog)

-----------------------------------------------------------------------------
(* Properties                                                              *)

(* Whatever is interrupted or fails, in whichever order: the next boot     *)
(* starts what the last OS that completed an update put on offer; only a   *)
(* running OS changes that, and never to nothing; a soft reboot starts its *)
(* image once and the reset after it returns to the offer (run).           *)
Promise ==
  INSTANCE BootPromise
    WITH offer <- Offer, trial <- (soft = "valid" \/ (pc = "os" /\ running = NoImage))
PromiseKept == Promise!Spec

(* Whatever repairs and interruptions do to the pages in the meantime, the *)
(* slot that a boot starts is the one ImageChoice has for the durable      *)
(* block and the slots as they are: what ImageBoot does in detail          *)
(* (select_image, is_soft).                                                *)
Durable == Current(flash)
DurablePreferred == IF Durable = NoMeta THEN NoSlot ELSE Durable.payload.preferred_image
DurableVerified == IF Durable = NoMeta THEN {} ELSE Verified(Durable.payload, slots)
Asked == IF soft = "valid" THEN bkpr1 ELSE NoSlot
Started == IF running = NoImage THEN NoSlot ELSE index
OneChoice ==
  INSTANCE ImageChoice
    WITH Slots <- Slot,
         preferred <- DurablePreferred, verified <- DurableVerified,
         asked <- Asked, chosen <- index, running <- Started
ChoiceKept == OneChoice!Spec

(* "To update an image": while its metadata is being written, the next     *)
(* boot starts what it would have started before, until the moment from    *)
(* which on it starts the new image.                                       *)
OldOrNew ==
  [][Offer' # Offer /\ pc \in {"os_erase", "os_program"}
       => Offer' = slots[write.data.payload.preferred_image]]_mvars

(* "in the hope that we survive until we have booted the next image": when *)
(* the resets from outside stop, a device with something on offer comes to *)
(* run a complete image, even if it has just been told to try a torn one.  *)
MResetsStop == <>[][MReset => panic \/ watchdog]_mvars
ComesBack == MResetsStop => (Offer # NoImage ~> running \in Content)
=============================================================================
