-------------------------- MODULE MoveloaderProofs --------------------------
(***************************************************************************)
(* The promise of the whole bootloader, for any number of slots, images,   *)
(* versions and double words, and any faults of the flash.                 *)
(***************************************************************************)
EXTENDS Moveloader, MetadataFixupProofs, WellFoundedInduction

-----------------------------------------------------------------------------
(* select_image                                                            *)

(* Every non-empty set of slots has a first one. *)
LEMMA FirstExists ==
  ASSUME NEW S \in SUBSET Slot, S # {}
  PROVE  First(S) \in S /\ \A j \in S : First(S) <= j
<1> DEFINE R == OpToRel(<, Nat)
<1>1. IsWellFoundedOn(R, Nat)
  BY NatLessThanWellFounded
<1>r. R = {ss \in Nat \X Nat : ss[1] < ss[2]}
  BY DEF OpToRel
<1> HIDE DEF R
<1>2. S \subseteq Nat
  BY SlotAssumption, SMT DEF Slot
<1>3. PICK i \in S : \A j \in S : <<j, i>> \notin R
  BY <1>1, <1>2, WFMin, Zenon
<1>4. ASSUME NEW j \in S PROVE i <= j
  <2>1. i \in Nat /\ j \in Nat
    BY <1>2
  <2>2. j < i => <<j, i>> \in R
    BY <1>r, <2>1
  <2> QED
    BY <1>3, <2>1, <2>2, SMT
<1> QED
  BY <1>4 DEF First

(* select_image finds an image that verifies whenever there is one, and    *)
(* the preferred one if that does.                                         *)
LEMMA SelectImage ==
  ASSUME NEW payload, NEW contents
  PROVE  LET i == select_image(payload, contents) IN
           /\ i \in Slot \cup {NoSlot}
           /\ i # NoSlot => i \in Slot /\ verify_image(payload, contents, i)
           /\ (\E j \in Slot : verify_image(payload, contents, j)) => i # NoSlot
           /\ payload.preferred_image \in Slot
                /\ verify_image(payload, contents, payload.preferred_image)
                => i = payload.preferred_image
<1> DEFINE verified == {i \in Slot : verify_image(payload, contents, i)}
<1>1. verified # {} => First(verified) \in verified
  BY FirstExists
<1>2. NoSlot \notin Slot
  BY SlotAssumption, SMT DEF Slot, NoSlot
<1> QED
  BY <1>1, <1>2 DEF select_image, Verified

LEMMA MetadataPayload ==
  ASSUME NEW m \in Metadata
  PROVE  m.payload.images \in [Slot -> Content]
<1>1. m.payload \in Payload
  BY DEF Metadata
<1> QED
  BY <1>1, PayloadAssumption

(* Only complete images are on offer. *)
LEMMA OfferedType ==
  ASSUME NEW f \in Flash, NEW contents
  PROVE  /\ Offered(f, contents) \in Content \cup {NoImage}
         /\ Offered(f, contents) # NoImage <=>
              /\ Current(f) # NoMeta
              /\ \E i \in Slot : verify_image(Current(f).payload, contents, i)
         /\ Offered(f, contents) # NoImage =>
              LET i == select_image(Current(f).payload, contents) IN
                i \in Slot /\ Offered(f, contents) = contents[i]
<1> DEFINE current == Current(f)
           i == select_image(current.payload, contents)
<1>1. Current(f) \in Metadata \cup {NoMeta}
  BY CurrentIsNewer
<1>2. current \in Metadata /\ i # NoSlot => contents[i] \in Content
  BY MetadataPayload, SelectImage DEF verify_image
<1>3. /\ i # NoSlot => i \in Slot /\ verify_image(current.payload, contents, i)
      /\ (\E j \in Slot : verify_image(current.payload, contents, j)) => i # NoSlot
  BY SelectImage
<1>4. Offered(f, contents) =
        IF current = NoMeta \/ i = NoSlot THEN NoImage ELSE contents[i]
  BY DEF Offered
<1> HIDE DEF i, current
<1>5. current \in Metadata \cup {NoMeta}
  BY <1>1 DEF current
<1>6. /\ Offered(f, contents) \in Content \cup {NoImage}
      /\ Offered(f, contents) # NoImage <=>
           current # NoMeta /\ \E j \in Slot : verify_image(current.payload, contents, j)
      /\ Offered(f, contents) # NoImage => i \in Slot /\ Offered(f, contents) = contents[i]
  BY <1>2, <1>3, <1>4, <1>5, ContentAssumption
<1> QED
  BY <1>6 DEF i, current

-----------------------------------------------------------------------------
(* Seen from the metadata, the image half does nothing but wait, so that   *)
(* everything proved of MetadataFixup holds of the whole.                  *)
LEMMA MInitInit == MInit => Init
<1> SUFFICES ASSUME MInit PROVE Init
  OBVIOUS
<1>1. PICK m \in Metadata : flash \in [Page -> {[d \in Dword |-> m], ErasedPage}]
  BY DEF MInit
<1>2. /\ [d \in Dword |-> m] \in PageImage /\ LeftOver([d \in Dword |-> m])
      /\ ErasedPage \in PageImage /\ LeftOver(ErasedPage)
  BY DEF PageImage, Cell, LeftOver, ErasedPage
<1>3. flash \in [Page -> {page \in PageImage : LeftOver(page)}]
  BY <1>1, <1>2
<1> QED
  BY <1>3 DEF MInit, Init

LEMMA MNextNext == [MNext]_mvars => [Next]_vars
  BY DEF MNext, MBoot, MOs, mvars, vars, Next, Boot, m_is_soft, m_select_metadata,
     m_select_image, copy_and_jump, MReset, panic, watchdog, OsEraseSlot, OsWriteSlot,
     OsPublish, OsWritesPage, OsAsksForTrial

THEOREM MetadataHalf == MSpec => Spec
  BY MInitInit, MNextNext, PTL DEF MSpec, Spec

(* MTypeOK is an invariant of every instance. *)
LEMMA ImagesType ==
  ASSUME MTypeOK, TypeOK', [MNext]_mvars
  PROVE  MTypeOK'
<1> USE DEF MTypeOK
<1>1. CASE m_is_soft
  BY <1>1 DEF m_is_soft
<1>2. CASE m_select_metadata
  BY <1>2 DEF m_select_metadata, images
<1>3. CASE m_select_image
  BY <1>3, SelectImage DEF m_select_image
<1>4. CASE copy_and_jump
  <2>1. index \in Slot
    BY <1>4 DEF copy_and_jump
  <2> QED
    BY <1>4, <2>1 DEF copy_and_jump
<1>5. CASE MReset
  BY <1>5 DEF MReset, ImagesReset
<1>6. CASE \E i \in Slot : OsEraseSlot(i) \/ \E image \in Content : OsWriteSlot(i, image)
  <2>1. UNCHANGED <<bkpr1, index, running>>
    BY <1>6 DEF OsEraseSlot, OsWriteSlot
  <2>2. slots' \in [Slot -> Content \cup {Torn}]
    BY <1>6 DEF OsEraseSlot, OsWriteSlot
  <2> QED
    BY <2>1, <2>2
<1>7. CASE (\E p \in Page, m \in Metadata : OsPublish(p, m)) \/ OsWritesPage
  BY <1>7 DEF OsPublish, OsWritesPage, images
<1>8. CASE OsAsksForTrial
  BY <1>8 DEF OsAsksForTrial
<1>9. CASE UNCHANGED mvars
  BY <1>9 DEF mvars
<1> QED
  BY <1>1, <1>2, <1>3, <1>4, <1>5, <1>6, <1>7, <1>8, <1>9
  DEF MNext, MBoot, MOs, panic, watchdog

THEOREM MTypeCorrect == MSpec => []MTypeOK
<1>1. MInit /\ TypeOK => MTypeOK
  BY DEF MInit, MTypeOK, NoSlot
<1>2. MTypeOK /\ TypeOK' /\ [MNext]_mvars => MTypeOK'
  BY ImagesType
<1> QED
  BY <1>1, <1>2, MetadataHalf, TypeCorrect, PTL DEF MSpec

-----------------------------------------------------------------------------
(* What the next permanent boot starts is changed by a running OS alone:   *)
(* no boot, repair, trial of a torn image, panic, watchdog or power loss   *)
(* does it, whatever the flash does and however the OS before has treated  *)
(* the pages (run, select_metadata, panic).                                *)
BootKeepsOffer == [][~OsRuns => Offer' = Offer]_mvars

OnlyOsWrites == pc \in {"os_erase", "os_program"} => OsRuns

LEMMA OnlyOsWritesStep ==
  ASSUME OnlyOsWrites, [MNext]_mvars
  PROVE  OnlyOsWrites'
<1> USE DEF OnlyOsWrites, OsRuns
<1>1. CASE OsWritesPage \/ \E p \in Page, m \in Metadata : OsPublish(p, m)
  <2>1. running' = running /\ running \in Content
    BY <1>1 DEF OsWritesPage, OsErase, OsProgram, OsPublish, images
  <2> QED
    BY <2>1
<1>2. CASE \/ \E i \in Slot : OsEraseSlot(i) \/ \E image \in Content : OsWriteSlot(i, image)
           \/ OsAsksForTrial \/ UNCHANGED mvars
  BY <1>2 DEF OsEraseSlot, OsWriteSlot, OsAsksForTrial, OsRequestSoftReboot, vars, mvars
<1>3. CASE MBoot \/ watchdog \/ MReset
  <2>1. pc' \notin {"os_erase", "os_program"}
    BY <1>3 DEF MBoot, m_is_soft, is_soft, m_select_metadata, select_metadata, unlock_flash,
       write_metadata_erase, write_metadata_program, write_metadata_return, FixupFailed,
       AdvanceLoop, m_select_image, copy_and_jump, StartOs, vars, panic, watchdog, MReset,
       Reset
  <2> QED
    BY <2>1
<1> QED
  BY <1>1, <1>2, <1>3 DEF MNext, MOs

THEOREM OfferOutlivesBoots == MSpec => BootKeepsOffer
<1>1. MInit => OnlyOsWrites
  BY DEF MInit, OnlyOsWrites
<1>2. OnlyOsWrites /\ [MNext]_mvars => OnlyOsWrites'
  BY OnlyOsWritesStep
<1>3. TypeOK /\ BootWriteInv /\ BootWriteInv' /\ OnlyOsWrites /\ [MNext]_mvars
        => [~OsRuns => Offer' = Offer]_mvars
  <2> SUFFICES ASSUME TypeOK, BootWriteInv, BootWriteInv', OnlyOsWrites, [MNext]_mvars,
                      ~OsRuns
               PROVE  Offer' = Offer
    OBVIOUS
  <2>1. Current(flash') = Current(flash)
    BY MNextNext, BootStepKeeps DEF OnlyOsWrites
  <2>2. slots' = slots
    BY DEF MNext, MBoot, m_is_soft, m_select_metadata, m_select_image, copy_and_jump, panic,
       watchdog, MReset, ImagesReset, MOs, OsEraseSlot, OsWriteSlot, OsPublish, OsWritesPage,
       OsAsksForTrial, images, mvars
  <2> QED
    BY <2>1, <2>2 DEF Offer, Offered
<1> QED
  BY <1>1, <1>2, <1>3, MetadataHalf, TypeCorrect, RepairSafe, PTL DEF MSpec, BootKeepsOffer

-----------------------------------------------------------------------------
(* How far the image half of a boot has come, and that an OS which runs,   *)
(* or has asked for a trial, has an image on offer to fall back on.        *)
MInv ==
  /\ running # NoImage => pc \in OsPhases
  /\ index # NoSlot => pc \in OsPhases \cup {"boot"}
  /\ pc \in OsPhases => index \in Slot
  /\ soft = "valid" => bkpr1 \in Slot
  /\ pc \in PcValues \ (OsPhases \cup {"reset"}) => soft = "none"
  /\ pc \in OsPhases /\ running = NoImage => pc = "os" /\ soft = "none"
  /\ pc \in {"os_erase", "os_program"} =>
       LET i == write.data.payload.preferred_image IN
         running \in Content /\ i \in Slot /\ verify_image(write.data.payload, slots, i)
  /\ pc = "boot" /\ index # NoSlot => index = select_image(metadata.payload, slots)
  /\ pc \in OsPhases \/ soft # "none" => Offer # NoImage

(* What a step can do to the offer *)
LEMMA OfferStep ==
  ASSUME TypeOK, TypeOK', BootWriteInv, BootWriteInv', OsWriteInv, MTypeOK, MInv,
         [MNext]_mvars
  PROVE  \/ Offer' = Offer
         \/ /\ OsRuns /\ UNCHANGED <<running, soft>>
            /\ pc \in OsPhases /\ pc' \in OsPhases
            /\ Offer' \in Content
            /\ pc # "os" =>
                 /\ OsWritesPage
                 /\ Offer' = slots[write.data.payload.preferred_image]
<1>0. flash \in Flash /\ flash' \in Flash
  BY DEF TypeOK, Flash
<1>1. CASE UNCHANGED mvars
  <2>1. flash' = flash /\ slots' = slots
    BY <1>1 DEF mvars
  <2> QED
    BY <2>1 DEF Offer
<1>2. CASE slots' = slots /\ (pc \notin {"os_erase", "os_program"} \/ pc' = "reset")
  <2>1. ~(OsErase \/ OsProgram)
    BY <1>2 DEF OsErase, OsProgram, OsGivesUp, AdvanceLoop
  <2>2. Current(flash') = Current(flash)
    BY <2>1, MNextNext, DurableStep
  <2> QED
    BY <1>2, <2>2 DEF Offer, Offered
<1>3. CASE \E i \in Slot : OsEraseSlot(i)
  <2>1. /\ OsRuns /\ pc = "os" /\ UNCHANGED <<running, soft, pc, flash>>
        /\ Offered(flash, slots') # NoImage
    BY <1>3 DEF OsEraseSlot, vars
  <2>2. Offer' \in Content
    BY <1>0, <2>1, OfferedType DEF Offer
  <2> QED
    BY <2>1, <2>2 DEF OsPhases
<1>4. CASE \E i \in Slot, image \in Content : OsWriteSlot(i, image)
  <2>1. PICK k \in Slot, image \in Content :
          slots[k] = Torn /\ slots' = [slots EXCEPT ![k] = image]
    BY <1>4 DEF OsWriteSlot
  <2>2. OsRuns /\ pc = "os" /\ UNCHANGED <<running, soft, pc, flash>>
    BY <1>4 DEF OsWriteSlot, vars
  <2>3. Offer # NoImage
    BY <2>2 DEF MInv, OsPhases
  <2>4. PICK i \in Slot : verify_image(Current(flash).payload, slots, i)
    BY <1>0, <2>3, OfferedType DEF Offer
  <2>5. Current(flash) \in Metadata
    BY <1>0, <2>3, OfferedType, CurrentIsNewer DEF Offer
  <2>6. slots[i] \in Content
    BY <2>4, <2>5, MetadataPayload DEF verify_image
  <2>7. verify_image(Current(flash).payload, slots', i)
    BY <2>1, <2>4, <2>6, ContentAssumption DEF verify_image, MTypeOK
  <2>8. Offered(flash, slots') \in Content
    BY <1>0, <2>5, <2>7, OfferedType, CellAssumption
  <2> QED
    BY <2>2, <2>8 DEF Offer, OsPhases
<1>5. CASE OsWritesPage
  <2> DEFINE i == write.data.payload.preferred_image
  <2>1. /\ pc \in {"os_erase", "os_program"} /\ UNCHANGED <<slots, running, soft>>
        /\ pc' \in OsPhases
    BY <1>5 DEF OsWritesPage, OsErase, OsProgram, OsGivesUp, AdvanceLoop, images, OsPhases
  <2>2. running \in Content /\ i \in Slot /\ verify_image(write.data.payload, slots, i)
    BY <2>1 DEF MInv
  <2>3. CASE Current(flash') = Current(flash)
    BY <2>1, <2>3 DEF Offer, Offered
  <2>4. CASE Current(flash') = write.data /\ write.data \in Metadata
    <3>1. select_image(write.data.payload, slots) = i
      BY <2>2, SelectImage
    <3>2. i # NoSlot
      BY <2>2, SlotAssumption, SMT DEF Slot, NoSlot
    <3>3. Offer' = slots[i]
      BY <2>1, <2>4, <3>1, <3>2, CellAssumption DEF Offer, Offered
    <3>4. slots[i] \in Content
      BY <2>2, <2>4, MetadataPayload DEF verify_image
    <3> QED
      BY <1>5, <2>1, <2>2, <3>3, <3>4 DEF OsRuns, OsPhases
  <2> QED
    BY <2>3, <2>4, MNextNext, DurableStep
<1> QED
  <2>1. CASE MReset
    <3>1. pc' = "reset" /\ slots' = slots
      BY <2>1 DEF MReset, ImagesReset, Reset
    <3> QED BY <1>2, <3>1
  <2>2. CASE m_is_soft \/ m_select_metadata \/ m_select_image \/ copy_and_jump
    <3>1. slots' = slots /\ pc \notin {"os_erase", "os_program"}
      BY <2>2 DEF m_is_soft, m_select_metadata, m_select_image, copy_and_jump, images, is_soft,
         select_metadata, unlock_flash, write_metadata_erase, write_metadata_program,
         write_metadata_return, StartOs
    <3> QED BY <1>2, <3>1
  <2>3. CASE (\E p \in Page, m \in Metadata : OsPublish(p, m)) \/ OsAsksForTrial
    <3>1. slots' = slots /\ pc \notin {"os_erase", "os_program"}
      BY <2>3 DEF OsPublish, OsAsksForTrial, OsRequestSoftReboot, images
    <3> QED BY <1>2, <3>1
  <2> QED
    BY <1>1, <1>3, <1>4, <1>5, <2>1, <2>2, <2>3 DEF MNext, MBoot, MOs, panic, watchdog

LEMMA ImagesInv ==
  ASSUME TypeOK, TypeOK', BootWriteInv, BootWriteInv', OsWriteInv, MTypeOK, MInv,
         [MNext]_mvars
  PROVE  MInv'
<1>0. flash \in Flash /\ flash' \in Flash
  BY DEF TypeOK, Flash
<1>a. Offer # NoImage => Offer' # NoImage
  BY OfferStep, ContentAssumption
<1>b. NoSlot \notin Slot
  BY SlotAssumption, SMT DEF Slot, NoSlot
<1> USE DEF OsPhases, PcValues, BootWrites
<1>1. CASE m_is_soft
  <2>1. /\ UNCHANGED <<flash, slots, running>> /\ pc = "reset" /\ soft' = "none"
        /\ pc' = IF soft = "valid" THEN "os" ELSE "select"
        /\ index' = IF soft = "valid" THEN bkpr1 ELSE NoSlot
    BY <1>1 DEF m_is_soft, is_soft
  <2>2. soft = "valid" => Offer # NoImage /\ bkpr1 \in Slot
    BY DEF MInv
  <2>3. running = NoImage
    BY <2>1 DEF MInv
  <2> QED
    BY <1>a, <2>1, <2>2, <2>3 DEF MInv
<1>2. CASE m_select_metadata
  <2>1. /\ UNCHANGED <<soft, slots, bkpr1, index, running>>
        /\ pc \in {"select"} \cup BootWrites
        /\ pc' \in {"boot", "failsafe"} \cup BootWrites
    BY <1>2 DEF m_select_metadata, images, select_metadata, unlock_flash,
       write_metadata_erase, write_metadata_program, write_metadata_return, FixupFailed,
       AdvanceLoop
  <2> QED
    BY <1>a, <2>1 DEF MInv
<1>3. CASE m_select_image
  <2>1. /\ UNCHANGED <<flash, pc, metadata, soft, slots, bkpr1, running>> /\ pc = "boot"
        /\ index' = select_image(metadata.payload, slots)
    BY <1>3 DEF m_select_image, vars
  <2> QED
    BY <1>a, <2>1 DEF MInv
<1>4. CASE copy_and_jump /\ pc = "boot"
  <2>1. /\ UNCHANGED <<flash, soft, slots, bkpr1, index>> /\ pc' = "os"
        /\ index # NoSlot /\ running' = slots[index]
    BY <1>4 DEF copy_and_jump, StartOs
  <2>2. soft = "none" /\ index = select_image(metadata.payload, slots)
    BY <1>4, <2>1 DEF MInv
  <2>3. metadata # NoMeta /\ metadata = Current(flash)
    BY <1>4 DEF BootWriteInv
  <2>4. index \in Slot /\ verify_image(metadata.payload, slots, index)
    BY <2>1, <2>2, SelectImage
  <2>5. Offer # NoImage
    BY <1>0, <2>3, <2>4, OfferedType DEF Offer
  <2>6. slots[index] # NoImage
    BY <2>4, ContentAssumption DEF MTypeOK
  <2> QED
    BY <1>a, <2>1, <2>2, <2>4, <2>5, <2>6 DEF MInv
<1>5. CASE copy_and_jump /\ pc # "boot"
  <2>1. /\ UNCHANGED <<flash, soft, pc, slots, bkpr1, index>> /\ pc = "os"
        /\ running' = slots[index]
    BY <1>5 DEF copy_and_jump, StartOs, vars
  <2>2. slots[index] # NoImage
    BY <2>1, ContentAssumption DEF MInv, MTypeOK
  <2> QED
    BY <1>a, <2>1, <2>2 DEF MInv
<1>6. CASE MReset
  <2>1. /\ pc' = "reset" /\ soft' \in {soft, "none"} /\ slots' = slots
        /\ bkpr1' = IF soft' = "none" THEN NoSlot ELSE bkpr1
        /\ index' = NoSlot /\ running' = NoImage
    BY <1>6 DEF MReset, ImagesReset, Reset
  <2> QED
    BY <1>a, <2>1 DEF MInv
<1>7. CASE \E i \in Slot : OsEraseSlot(i) \/ \E image \in Content : OsWriteSlot(i, image)
  <2>1. UNCHANGED <<bkpr1, index, running, soft, pc>> /\ pc = "os" /\ OsRuns
    BY <1>7 DEF OsEraseSlot, OsWriteSlot, vars
  <2> QED
    BY <1>a, <2>1 DEF MInv, OsRuns
<1>8. CASE \E p \in Page, m \in Metadata : OsPublish(p, m)
  <2>1. PICK p \in Page, m \in Metadata : OsPublish(p, m)
    BY <1>8
  <2>2. /\ UNCHANGED <<flash, soft, slots, bkpr1, index, running>> /\ OsRuns
        /\ pc = "os" /\ pc' = "os_erase"
        /\ m.payload.preferred_image \in Slot
        /\ verify_image(m.payload, slots, m.payload.preferred_image)
        /\ write' = [page |-> p, data |-> m, next |-> 1]
    BY <2>1 DEF OsPublish, OsUpdate, images
  <2>3. write'.data = m
    BY <2>2
  <2> QED
    BY <1>a, <2>2, <2>3, ContentAssumption DEF MInv, OsRuns
<1>9. CASE OsWritesPage
  <2>1. /\ UNCHANGED <<soft, slots, bkpr1, index, running>>
        /\ pc \in {"os_erase", "os_program"} /\ pc' \in {"os", "os_erase", "os_program"}
    BY <1>9 DEF OsWritesPage, OsErase, OsProgram, OsGivesUp, AdvanceLoop, images
  <2>2. pc' \in {"os_erase", "os_program"} => write'.data = write.data
    <3>1. CASE OsErase
      BY <3>1 DEF OsErase, OsGivesUp
    <3>2. CASE OsProgram
      BY <3>2, LoopType DEF OsProgram, OsGivesUp, Writing
    <3> QED
      BY <1>9, <3>1, <3>2 DEF OsWritesPage
  <2> QED
    BY <1>a, <2>1, <2>2, ContentAssumption DEF MInv
<1>10. CASE OsAsksForTrial
  <2>1. /\ UNCHANGED <<flash, pc, slots, index, running>> /\ pc = "os" /\ OsRuns
        /\ soft' = "valid" => bkpr1' \in Slot
    BY <1>10 DEF OsAsksForTrial, OsRequestSoftReboot
  <2> QED
    BY <1>a, <2>1, ContentAssumption DEF MInv, OsRuns
<1>11. CASE UNCHANGED mvars
  BY <1>a, <1>11 DEF mvars, MInv
<1> QED
  BY <1>1, <1>2, <1>3, <1>4, <1>5, <1>6, <1>7, <1>8, <1>9, <1>10, <1>11
  DEF MNext, MBoot, MOs, panic, watchdog

(* Safe is what a step of the whole may rely on. *)
Safe == TypeOK /\ BootWriteInv /\ OsWriteInv /\ MTypeOK /\ MInv

LEMMA AlwaysSafe == OsSparesNewest => (MSpec => []Safe)
<1> SUFFICES ASSUME OsSparesNewest PROVE MSpec => []Safe
  OBVIOUS
<1>1. MInit => MInv
  BY DEF MInit, MInv, OsPhases
<1>2. /\ TypeOK /\ TypeOK' /\ BootWriteInv /\ BootWriteInv' /\ OsWriteInv /\ MTypeOK
      /\ MInv /\ [MNext]_mvars
      => MInv'
  BY ImagesInv
<1> QED
  BY <1>1, <1>2, MetadataHalf, TypeCorrect, RepairSafe, UpdateSafe, MTypeCorrect, PTL
  DEF MSpec, Safe

-----------------------------------------------------------------------------
(* The whole bootloader keeps its promise: whatever is interrupted or      *)
(* fails, the next permanent boot starts the image on offer, which only a  *)
(* running OS replaces, and a trial happens once.                          *)
Trial == soft = "valid" \/ (pc = "os" /\ running = NoImage)

LEMMA PromiseStep ==
  ASSUME Safe, Safe', [MNext]_mvars
  PROVE  [Promise!Next]_<<Offer, running, Trial>>
<1> USE DEF Safe
<1>0. flash \in Flash /\ flash' \in Flash
  BY DEF TypeOK, Flash
<1>1. \/ Offer' = Offer
      \/ /\ OsRuns /\ UNCHANGED <<running, soft>>
         /\ pc \in OsPhases /\ pc' \in OsPhases
         /\ Offer' \in Content
  BY OfferStep
<1>2. CASE Offer' # Offer
  <2>1. Trial' = Trial
    BY <1>1, <1>2, ContentAssumption DEF Trial, OsRuns
  <2> QED
    BY <1>1, <1>2, <2>1 DEF Promise!Next, Promise!Replace, Promise!OsRuns, OsRuns, Trial
<1>3. CASE Offer' = Offer
  <2> USE <1>3 DEF OsPhases, PcValues, BootWrites
  <2>1. CASE m_is_soft
    <3>1. running' = running /\ pc = "reset" /\ soft' = "none"
          /\ pc' = IF soft = "valid" THEN "os" ELSE "select"
      BY <2>1 DEF m_is_soft, is_soft
    <3>2. running = NoImage
      BY <3>1 DEF MInv
    <3>3. Trial' = Trial
      BY <3>1, <3>2 DEF Trial
    <3> QED
      BY <3>1, <3>3
  <2>2. CASE m_select_metadata
    <3>1. /\ UNCHANGED <<soft, running>> /\ pc # "os" /\ pc' # "os"
      BY <2>2 DEF m_select_metadata, images, select_metadata, unlock_flash,
         write_metadata_erase, write_metadata_program, write_metadata_return, FixupFailed,
         AdvanceLoop
    <3> QED
      BY <3>1 DEF Trial
  <2>3. CASE m_select_image \/ OsWritesPage \/ UNCHANGED mvars
             \/ \E i \in Slot : OsEraseSlot(i) \/ \E image \in Content : OsWriteSlot(i, image)
    <3>1. UNCHANGED <<soft, running>>
      BY <2>3 DEF m_select_image, OsWritesPage, OsErase, OsProgram, OsEraseSlot, OsWriteSlot,
         images, mvars, vars
    <3>2. (pc = "os" /\ running = NoImage) <=> (pc' = "os" /\ running' = NoImage)
      <4>1. CASE OsWritesPage
        <5>1. running \in Content
          BY <4>1 DEF MInv, OsWritesPage, OsErase, OsProgram
        <5> QED
          BY <3>1, <5>1, ContentAssumption
      <4>2. CASE ~OsWritesPage
        BY <2>3, <3>1, <4>2 DEF m_select_image, OsEraseSlot, OsWriteSlot, mvars, vars
      <4> QED BY <4>1, <4>2
    <3> QED
      BY <3>1, <3>2 DEF Trial
  <2>4. CASE copy_and_jump /\ pc = "boot"
    <3>1. /\ UNCHANGED <<flash, soft, slots, bkpr1, index>> /\ pc' = "os"
          /\ index # NoSlot /\ running = NoImage /\ running' = slots[index]
      BY <2>4 DEF copy_and_jump, StartOs
    <3>2. soft = "none" /\ index = select_image(metadata.payload, slots)
      BY <2>4, <3>1 DEF MInv
    <3>3. metadata # NoMeta /\ metadata = Current(flash)
      BY <2>4 DEF BootWriteInv
    <3>4. Offer = slots[index]
      BY <3>1, <3>2, <3>3 DEF Offer, Offered
    <3>5. Offer' # NoImage
      BY <3>1 DEF MInv
    <3>6. ~Trial /\ ~Trial'
      BY <2>4, <3>1, <3>2, <3>4, <3>5 DEF Trial
    <3> QED
      BY <3>1, <3>4, <3>5, <3>6 DEF Promise!Next, Promise!Boot, Trial
  <2>5. CASE copy_and_jump /\ pc # "boot"
    <3>1. /\ UNCHANGED <<flash, soft, pc, slots, bkpr1, index>> /\ pc = "os"
          /\ running = NoImage /\ running' = slots[index]
      BY <2>5 DEF copy_and_jump, StartOs, vars
    <3>2. slots[index] \in Content \cup {Torn} /\ soft = "none"
      BY <3>1 DEF MInv, MTypeOK
    <3>3. Trial /\ ~Trial'
      BY <3>1, <3>2, ContentAssumption DEF Trial
    <3> QED
      BY <3>1, <3>2, <3>3 DEF Promise!Next, Promise!Try, Trial
  <2>6. CASE MReset
    <3>1. pc' = "reset" /\ soft' \in {soft, "none"} /\ running' = NoImage
      BY <2>6 DEF MReset, ImagesReset, Reset
    <3>2. Trial' \in {Trial, FALSE}
      <4>1. CASE soft' = "valid"
        BY <3>1, <4>1 DEF Trial
      <4>2. CASE soft' # "valid"
        BY <3>1, <4>2 DEF Trial
      <4> QED BY <4>1, <4>2
    <3> QED
      BY <3>1, <3>2 DEF Promise!Next, Promise!Restart, Trial
  <2>7. CASE \E p \in Page, m \in Metadata : OsPublish(p, m)
    <3>1. UNCHANGED <<soft, running>> /\ OsRuns
      BY <2>7 DEF OsPublish, OsUpdate, images
    <3> QED
      BY <3>1, ContentAssumption DEF Trial, OsRuns
  <2>8. CASE OsAsksForTrial
    <3>1. OsRuns /\ running' = running
      BY <2>8 DEF OsAsksForTrial
    <3>2. Trial' \in BOOLEAN
      BY DEF Trial
    <3> QED
      BY <3>1, <3>2 DEF Promise!Next, Promise!Ask, Promise!OsRuns, OsRuns, Trial
  <2> QED
    BY <2>1, <2>2, <2>3, <2>4, <2>5, <2>6, <2>7, <2>8 DEF MNext, MBoot, MOs, panic, watchdog
<1> QED
  BY <1>2, <1>3

THEOREM PromiseIsKept == OsSparesNewest => (MSpec => PromiseKept)
<1> SUFFICES ASSUME OsSparesNewest PROVE MSpec => PromiseKept
  OBVIOUS
<1>1. MInit /\ Safe => Promise!Init
  <2> SUFFICES ASSUME MInit, Safe PROVE Promise!Init
    OBVIOUS
  <2>1. flash \in Flash
    BY DEF Safe, TypeOK, Flash
  <2> QED
    BY <2>1, OfferedType DEF MInit, Promise!Init, Offer
<1>2. Safe /\ Safe' /\ [MNext]_mvars => [Promise!Next]_<<Offer, running, Trial>>
  BY PromiseStep
<1> QED
  BY <1>1, <1>2, AlwaysSafe, PTL DEF MSpec, PromiseKept, Promise!Spec, Trial

(* While the metadata is being written, the next boot starts the old or    *)
(* the new image and nothing else.                                         *)
THEOREM OldOrNewImage == OsSparesNewest => (MSpec => OldOrNew)
<1> SUFFICES ASSUME OsSparesNewest PROVE MSpec => OldOrNew
  OBVIOUS
<1>1. Safe /\ Safe' /\ [MNext]_mvars
        => [Offer' # Offer /\ pc \in {"os_erase", "os_program"}
              => Offer' = slots[write.data.payload.preferred_image]]_mvars
  BY OfferStep DEF Safe
<1> QED
  BY <1>1, AlwaysSafe, PTL DEF MSpec, OldOrNew

(* On a flash that reports its failures the results of the repairs are     *)
(* right in the composition, too.                                          *)
THEOREM MFixReported == "silent" \notin Faults => (MSpec => []FixOkMeansIntact)
  BY MetadataHalf, FixReported, PTL

(* So is how far a repair has come.                                        *)
THEOREM MFixGoesOn == "silent" \notin Faults => (MSpec => []FixProgress)
  BY MetadataHalf, FixGoesOn, PTL

-----------------------------------------------------------------------------
(* The slot that a boot starts, as ImageChoice has it                      *)

ChoiceVars == <<DurablePreferred, DurableVerified, Asked, index, Started>>

LEMMA FirstOfVerified ==
  ASSUME NEW payload, NEW contents, select_image(payload, contents) # NoSlot
  PROVE  LET i == select_image(payload, contents)
             verified == Verified(payload, contents)
         IN /\ i \in verified
            /\ \/ i = payload.preferred_image
               \/ payload.preferred_image \notin verified /\ \A j \in verified : i <= j
<1> DEFINE verified == Verified(payload, contents)
<1>1. verified \subseteq Slot
  BY DEF Verified
<1>2. verified # {} =>
        First(verified) \in verified /\ \A j \in verified : First(verified) <= j
  BY <1>1, FirstExists
<1> QED
  BY <1>2 DEF select_image

(* Outside the steps of an OS, flash keeps what ImageChoice sees of it.    *)
LEMMA DurableKept ==
  ASSUME Safe, Safe', [MNext]_mvars, slots' = slots, ~(OsErase \/ OsProgram)
  PROVE  Durable' = Durable /\ UNCHANGED <<DurablePreferred, DurableVerified>>
<1>1. Current(flash') = Current(flash)
  BY MNextNext, DurableStep DEF Safe
<1> QED
  BY <1>1 DEF Durable, DurablePreferred, DurableVerified

LEMMA ChoiceStep ==
  ASSUME Safe, Safe', [MNext]_mvars
  PROVE  [OneChoice!Next]_ChoiceVars
<1> USE DEF Safe, OsPhases, PcValues, BootWrites
<1>0. NoSlot \notin Slot
  BY SlotAssumption, SMT DEF Slot, NoSlot
<1>a. DurableVerified' \in SUBSET Slot
  BY DEF DurableVerified, Verified
<1>b. soft = "none" => Asked = NoSlot
  BY DEF Asked
<1>c. soft' = "none" => Asked' = NoSlot
  BY DEF Asked
<1>d. running # NoImage => Started \in Slot
  BY DEF Started, MInv
<1>1. CASE m_is_soft
  <2>1. /\ UNCHANGED <<slots, running>> /\ pc = "reset" /\ soft' = "none"
        /\ index' = IF soft = "valid" THEN bkpr1 ELSE NoSlot
        /\ pc' # pc
    BY <1>1 DEF m_is_soft, is_soft
  <2>2. UNCHANGED <<DurablePreferred, DurableVerified>>
    BY <2>1, DurableKept DEF OsErase, OsProgram
  <2>3. running = NoImage /\ index = NoSlot
    BY <2>1 DEF MInv, MTypeOK
  <2>4. Started = NoSlot /\ Started' = NoSlot
    BY <2>1, <2>3 DEF Started
  <2>5. CASE soft = "valid"
    <3>1. Asked \in Slot /\ index' = Asked /\ Asked' = NoSlot
      BY <1>c, <2>1, <2>5 DEF Asked, MInv
    <3> QED
      BY <2>2, <2>3, <2>4, <3>1 DEF OneChoice!Next, OneChoice!Try, OneChoice!Flash
  <2>6. CASE soft # "valid"
    <3>1. index' = index /\ Asked' = Asked
      BY <1>c, <2>1, <2>3, <2>6 DEF Asked
    <3> QED
      BY <2>2, <2>4, <3>1 DEF ChoiceVars
  <2> QED
    BY <2>5, <2>6
<1>2. CASE m_select_metadata
  <2>1. /\ UNCHANGED <<soft, slots, bkpr1, index, running>>
        /\ pc \notin {"os_erase", "os_program"}
    BY <1>2 DEF m_select_metadata, images, select_metadata, unlock_flash,
       write_metadata_erase, write_metadata_program, write_metadata_return
  <2>2. UNCHANGED <<DurablePreferred, DurableVerified>>
    BY <2>1, DurableKept DEF OsErase, OsProgram
  <2> QED
    BY <2>1, <2>2 DEF ChoiceVars, Asked, Started
<1>3. CASE m_select_image
  <2>1. /\ UNCHANGED <<flash, pc, metadata, soft, slots, bkpr1, running>> /\ pc = "boot"
        /\ index = NoSlot /\ index' # NoSlot
        /\ index' = select_image(metadata.payload, slots)
    BY <1>3 DEF m_select_image, vars
  <2>2. metadata # NoMeta /\ metadata = Durable
    BY <2>1 DEF BootWriteInv, Durable
  <2>3. /\ index' \in Verified(metadata.payload, slots)
        /\ \/ index' = metadata.payload.preferred_image
           \/ /\ metadata.payload.preferred_image \notin Verified(metadata.payload, slots)
              /\ \A j \in Verified(metadata.payload, slots) : index' <= j
    BY <2>1, FirstOfVerified
  <2>4. /\ DurablePreferred = metadata.payload.preferred_image
        /\ DurableVerified = Verified(metadata.payload, slots)
        /\ UNCHANGED <<DurablePreferred, DurableVerified>>
    BY <2>1, <2>2 DEF Durable, DurablePreferred, DurableVerified
  <2>5. soft = "none" /\ running = NoImage
    BY <2>1 DEF MInv, SoftValues
  <2>6. Asked = NoSlot /\ Asked' = NoSlot /\ Started = NoSlot /\ Started' = NoSlot
    BY <1>b, <1>c, <2>1, <2>5 DEF Started
  <2> QED
    BY <2>1, <2>3, <2>4, <2>6 DEF OneChoice!Next, OneChoice!Choose, OneChoice!Flash
<1>4. CASE copy_and_jump
  <2>1. /\ UNCHANGED <<soft, slots, bkpr1, index>> /\ running = NoImage
        /\ index # NoSlot /\ running' = slots[index] /\ pc \in {"boot", "os"}
    BY <1>4 DEF copy_and_jump, StartOs, vars
  <2>2. UNCHANGED <<DurablePreferred, DurableVerified>>
    BY <2>1, DurableKept DEF OsErase, OsProgram
  <2>3. slots[index] # NoImage
    BY <2>1, ContentAssumption DEF MTypeOK
  <2>4. Started = NoSlot /\ Started' = index /\ Asked' = Asked
    BY <2>1, <2>3 DEF Started, Asked
  <2> QED
    BY <2>1, <2>2, <2>4 DEF OneChoice!Next, OneChoice!Start, OneChoice!Flash
<1>5. CASE MReset
  <2>1. /\ pc' = "reset" /\ soft' \in {soft, "none"} /\ slots' = slots
        /\ bkpr1' = IF soft' = "none" THEN NoSlot ELSE bkpr1
        /\ index' = NoSlot /\ running' = NoImage
    BY <1>5 DEF MReset, ImagesReset, Reset
  <2>2. UNCHANGED <<DurablePreferred, DurableVerified>>
    BY <2>1, DurableKept DEF OsErase, OsProgram, OsGivesUp, AdvanceLoop
  <2>3. Started' = NoSlot /\ Asked' \in {Asked, NoSlot}
    BY <2>1 DEF Started, Asked
  <2> QED
    BY <2>1, <2>2, <2>3 DEF OneChoice!Next, OneChoice!Restart, OneChoice!Flash
<1>6. CASE \/ \E i \in Slot : OsEraseSlot(i) \/ \E image \in Content : OsWriteSlot(i, image)
           \/ \E p \in Page, m \in Metadata : OsPublish(p, m)
           \/ OsWritesPage
  <2>1. UNCHANGED <<soft, bkpr1, index, running>> /\ running # NoImage
    <3>1. CASE OsWritesPage
      BY <3>1, ContentAssumption DEF OsWritesPage, OsErase, OsProgram, images, MInv
    <3>2. CASE ~OsWritesPage
      BY <1>6, <3>2, ContentAssumption DEF OsEraseSlot, OsWriteSlot, OsPublish, OsUpdate,
         OsRuns, images, vars
    <3> QED
      BY <3>1, <3>2
  <2>2. Started \in Slot /\ Started' = Started /\ Asked' = Asked
    BY <1>d, <2>1 DEF Started, Asked
  <2> QED
    BY <1>0, <1>a, <2>1, <2>2 DEF OneChoice!Next, OneChoice!Update
<1>7. CASE OsAsksForTrial
  <2>1. /\ UNCHANGED <<flash, slots, index, running>> /\ OsRuns /\ soft' \in SoftValues
        /\ bkpr1' \in IF soft' = "valid" THEN Slot ELSE {NoSlot}
    BY <1>7 DEF OsAsksForTrial, OsRequestSoftReboot
  <2>2. running # NoImage
    BY <2>1, ContentAssumption DEF OsRuns
  <2>3. Started \in Slot /\ Started' = Started /\ Asked' \in Slot \cup {NoSlot}
    BY <1>d, <2>1, <2>2 DEF Started, Asked
  <2>4. UNCHANGED <<DurablePreferred, DurableVerified>>
    BY <2>1 DEF Durable, DurablePreferred, DurableVerified
  <2> QED
    BY <1>0, <2>1, <2>3, <2>4 DEF OneChoice!Next, OneChoice!Ask, OneChoice!Flash
<1>8. CASE UNCHANGED mvars
  BY <1>8 DEF mvars, ChoiceVars, Durable, DurablePreferred, DurableVerified, Asked, Started
<1> QED
  BY <1>1, <1>2, <1>3, <1>4, <1>5, <1>6, <1>7, <1>8 DEF MNext, MBoot, MOs, panic, watchdog

(* Whatever is repaired, interrupted or being written, the slot a boot     *)
(* starts is the one ImageChoice has for the durable block: the same that  *)
(* ChoiceRefined (ImageBootProofs) shows of select_image and the copy.     *)
THEOREM MChoiceRefined == OsSparesNewest => (MSpec => ChoiceKept)
<1> SUFFICES ASSUME OsSparesNewest PROVE MSpec => ChoiceKept
  OBVIOUS
<1>1. MInit => OneChoice!Init
  BY DEF MInit, OneChoice!Init, Verified, DurableVerified, Asked, Started
<1>2. Safe /\ Safe' /\ [MNext]_mvars => [OneChoice!Next]_ChoiceVars
  BY ChoiceStep
<1> QED
  BY <1>1, <1>2, AlwaysSafe, PTL DEF MSpec, ChoiceKept, OneChoice!Spec, ChoiceVars
=============================================================================
