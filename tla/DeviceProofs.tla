---------------------------- MODULE DeviceProofs ----------------------------
(***************************************************************************)
(* Proofs about the whole device.  It behaves as Moveloader says, and so   *)
(* everything that MoveloaderProofs and MetadataFixupProofs have for a     *)
(* flash driver that is one step per call holds for the driver as it is,   *)
(* with a reset between any two of its register accesses.                  *)
(***************************************************************************)
EXTENDS Device, FlashDriverProofs, MoveloaderProofs

-----------------------------------------------------------------------------
(* The driver of the device is the one of FlashDriver                      *)

LEMMA DriverHalfStep ==
  ASSUME DriverInv, [DeviceNext]_devicevars
  PROVE  [DriverNext]_dvars
<1>0. pc \in {"boot"} \cup OsPhases => at = "call"
  BY DEF DriverInv, DriverTypeOK, PlaceInv, OsPhases
<1>1. CASE DriverCalls \/ Hardware \/ DeviceReset \/ DeviceBite \/ (NothingToBoot /\ DeviceReset)
  BY <1>1 DEF Hardware, DeviceReset, DeviceBite, DriverNext, DriverBoot
<1>2. CASE RunSteps
  <2>1. CASE (at = "run" /\ m_is_soft) \/ (select_metadata /\ UNCHANGED images)
    BY <1>2, <2>1 DEF m_is_soft, RunSteps, registers, CallFree, DriverNext, DriverBoot
  <2>2. CASE m_select_image
    BY <1>0, <1>2, <2>2 DEF OsPhases, m_select_image, RunSteps, registers, vars, dvars
  <2>3. CASE copy_and_jump /\ StartOs
    BY <1>2, <2>3 DEF RunSteps, registers, CallFree, DriverNext, DriverBoot
  <2>4. CASE copy_and_jump /\ ~StartOs
    BY <1>0, <1>2, <2>4 DEF OsPhases, copy_and_jump, RunSteps, registers, vars, dvars
  <2> QED
    BY <1>2, <2>1, <2>2, <2>3, <2>4 DEF RunSteps
<1>3. CASE DeviceOs
  <2>1. CASE \E p \in Page, m \in Metadata : OsPublish(p, m)
    <3>1. \E p \in Page, m \in Metadata : OsUpdate(p, m)
      BY <2>1 DEF OsPublish
    <3> QED
      BY <1>3, <3>1 DEF DeviceOs, DriverOs, DriverNext
  <2>2. CASE OsWritesPage \/ OsAsksForTrial
    BY <1>3, <2>2 DEF DeviceOs, OsWritesPage, OsAsksForTrial, DriverOs, DriverNext
  <2>3. CASE \E i \in Slot : OsEraseSlot(i) \/ \E image \in Content : OsWriteSlot(i, image)
    <3>1. UNCHANGED vars
      BY <2>3 DEF OsEraseSlot, OsWriteSlot
    <3> QED
      BY <1>3, <3>1 DEF DeviceOs, driver, vars, dvars
  <2> QED
    BY <1>3, <2>1, <2>2, <2>3 DEF DeviceOs, MOs
<1>4. CASE UNCHANGED devicevars
  BY <1>4 DEF devicevars, dvars
<1> QED
  BY <1>1, <1>2, <1>3, <1>4 DEF DeviceNext, DeviceBoot

LEMMA DeviceInvariant == DeviceSpec => []DriverInv
<1>1. DeviceInit => DriverInv
  BY DriverInvStarts DEF DeviceInit
<1>2. DriverInv /\ [DeviceNext]_devicevars => [DriverNext]_dvars
  BY DriverHalfStep
<1>3. DriverInv /\ [DriverNext]_dvars => DriverInv'
  BY DriverInvStep
<1> QED
  BY <1>1, <1>2, <1>3, PTL DEF DeviceSpec

(* The slots, the OS in them and the image half of a boot take nothing     *)
(* away from what FlashDriverProofs has about the driver.                  *)
THEOREM DriverHalf == DeviceSpec => DriverSpec
<1>1. DeviceInit => DriverInit
  BY DEF DeviceInit
<1>2. DriverInv /\ [DeviceNext]_devicevars => [DriverNext]_dvars
  BY DriverHalfStep
<1> QED
  BY <1>1, <1>2, DeviceInvariant, PTL DEF DeviceSpec, DriverSpec

-----------------------------------------------------------------------------
(* The types of the whole                                                  *)

LEMMA DeviceImagesType ==
  ASSUME MTypeOK, TypeOK', [DeviceNext]_devicevars
  PROVE  MTypeOK'
<1> USE DEF MTypeOK
<1>1. CASE UNCHANGED images
  BY <1>1 DEF images
<1>2. CASE at = "run" /\ m_is_soft
  BY <1>2 DEF m_is_soft
<1>3. CASE m_select_image
  BY <1>3, SelectImage DEF m_select_image
<1>4. CASE copy_and_jump
  <2>1. index \in Slot
    BY <1>4 DEF copy_and_jump
  <2> QED
    BY <1>4, <2>1 DEF copy_and_jump
<1>5. CASE DeviceReset
  BY <1>5 DEF DeviceReset, ImagesReset
<1>6. CASE \E i \in Slot : OsEraseSlot(i) \/ \E image \in Content : OsWriteSlot(i, image)
  <2>1. UNCHANGED <<bkpr1, index, running>>
    BY <1>6 DEF OsEraseSlot, OsWriteSlot
  <2>2. slots' \in [Slot -> Content \cup {Torn}]
    BY <1>6 DEF OsEraseSlot, OsWriteSlot
  <2> QED
    BY <2>1, <2>2
<1>7. CASE (\E p \in Page, m \in Metadata : OsPublish(p, m)) \/ OsWritesPage
  BY <1>7 DEF OsPublish, OsWritesPage, images
<1>8. CASE OsAsksForTrial
  BY <1>8 DEF OsAsksForTrial
<1>9. CASE UNCHANGED devicevars
  BY <1>9 DEF devicevars
<1> QED
  BY <1>1, <1>2, <1>3, <1>4, <1>5, <1>6, <1>7, <1>8, <1>9
     DEF DeviceNext, DeviceBoot, RunSteps, Hardware, DeviceBite, DeviceOs, MOs

(* Types, of the slots and the metadata as of the registers                *)
THEOREM DeviceTypeCorrect == DeviceSpec => []MTypeOK
<1>1. DeviceInit /\ TypeOK => MTypeOK
  BY DEF DeviceInit, MInit, MTypeOK, NoSlot
<1>2. MTypeOK /\ TypeOK' /\ [DeviceNext]_devicevars => MTypeOK'
  BY DeviceImagesType
<1>3. DriverInv => TypeOK
  BY DEF DriverInv, DriverTypeOK
<1> QED
  BY <1>1, <1>2, <1>3, DeviceInvariant, PTL DEF DeviceSpec

-----------------------------------------------------------------------------
(* How long a boot can take                                                *)

(* From its first access to a register on, whenever no OS runs, the        *)
(* watchdog does: wherever the hardware does not answer, and whatever has  *)
(* been started, DeviceBite can end it.                                    *)
Watched == wd.running \/ OsRuns \/ (pc = "reset" /\ at = "call")

(* The watchdog counts in every boot that could hang, on the whole device. *)
THEOREM AlwaysWatched == DeviceSpec => []Watched
<1>1. DriverInv => Watched
  BY DEF DriverInv, DriverTypeOK, PlaceInv, WatchdogInv, WatchdogArmed, Armed, Watched
<1> QED
  BY <1>1, DeviceInvariant, PTL

(* BootStepsLeft, case by case                                             *)
StepsTable ==
  /\ pc = "reset" => BootStepsLeft = 2 * Dwords +
       (CASE at = "call" -> 15 [] at = "configure" -> 14 [] at = "update" -> 13 [] OTHER -> 12)
  /\ pc = "select" => BootStepsLeft = 2 * Dwords + 11
  /\ pc = "unlock" => BootStepsLeft = 2 * Dwords + (IF at = "call" THEN 10 ELSE 9)
  /\ pc = "erase" => BootStepsLeft = 2 * Dwords +
       (CASE at = "call" -> 8 [] at = "start" -> 7 [] OTHER -> 6)
  /\ pc = "program" => BootStepsLeft = 2 * (Dwords - write.next) +
       (CASE at = "call" -> 7 [] at = "start" -> 6 [] OTHER -> 5)
  /\ pc = "lock" => BootStepsLeft = 4
  /\ pc = "boot" => BootStepsLeft = IF index = NoSlot THEN 3 ELSE 2
  /\ pc \in {"failsafe"} \cup OsPhases => BootStepsLeft = IF running = NoImage THEN 1 ELSE 0

LEMMA StepsLeftAt == StepsTable /\ StepsTable'
  BY DEF StepsTable, BootStepsLeft, OsPhases

LEMMA StepsLeftNat == DriverInv => BootStepsLeft \in Nat
<1> SUFFICES ASSUME DriverInv PROVE BootStepsLeft \in Nat
  OBVIOUS
<1>1. pc \in PcValues /\ Dwords \in Nat
  BY DwordsAssumption DEF DriverInv, DriverTypeOK, TypeOK
<1>2. pc = "program" => Dwords - write.next \in Nat
  BY DwordsAssumption DEF DriverInv, DriverTypeOK, TypeOK, Writing, Dword
<1> QED
  BY <1>1, <1>2, StepsLeftAt, SMT DEF StepsTable, PcValues, BootWrites, OsPhases

LEMMA StepsLeftNatNext == (DriverInv => BootStepsLeft \in Nat)'
  BY StepsLeftNat, PTL

LEMMA BootStepCounts ==
  ASSUME DriverInv, DriverInv', MTypeOK, DeviceBoot, ~DeviceReset
  PROVE  BootStepsLeft' < BootStepsLeft
<1>0. /\ Dwords \in Nat \ {0}
      /\ pc = "program" => write.next \in 1 .. Dwords
      /\ pc' = "program" => write'.next \in 1 .. Dwords
  BY DwordsAssumption DEF DriverInv, DriverTypeOK, TypeOK, Writing, Dword
<1> USE <1>0, StepsLeftAt DEF StepsTable, OsPhases
<1>1. CASE watchdog_start \/ watchdog_configure \/ watchdog_update
  BY <1>1, SMT DEF watchdog_start, watchdog_configure, watchdog_update, vars
<1>2. CASE unlock_flash_keys \/ unlock_flash_check
  BY <1>2, SMT DEF unlock_flash_keys, unlock_flash_check, FixupFailed, vars
<1>3. CASE erase_page_select
  BY <1>3, SMT DEF erase_page_select, FixupFailed
<1>4. CASE erase_page_start
  BY <1>4, SMT DEF erase_page_start, vars
<1>5. CASE erase_page_result
  BY <1>5, SMT DEF erase_page_result, FixupFailed
<1>6. CASE write_dwords_begin
  BY <1>6, SMT DEF write_dwords_begin, FixupFailed
<1>7. CASE write_dwords_write
  BY <1>7, SMT DEF write_dwords_write, vars
<1>8. CASE write_dwords_next
  <2>1. write \in [page : Page, data : Metadata, next : Dword] /\ pc = "program" /\ at = "busy"
    BY <1>8 DEF write_dwords_next, DriverInv, DriverTypeOK, TypeOK, Writing
  <2>2. CASE FixupFailed
    BY <2>1, <2>2, SMT DEF FixupFailed
  <2>3. CASE AdvanceLoop("lock") /\ at' = IF pc' = "lock" THEN "call" ELSE "start"
    <3>1. CASE write.next = Dwords
      BY <2>1, <2>3, <3>1, SMT DEF AdvanceLoop
    <3>2. CASE write.next # Dwords
      <4>1. pc' = "program" /\ at' = "start" /\ write'.next = write.next + 1
        BY <2>1, <2>3, <3>2 DEF AdvanceLoop
      <4> QED
        BY <2>1, <4>1, SMT
    <3> QED
      BY <3>1, <3>2
  <2> QED
    BY <1>8, <2>2, <2>3 DEF write_dwords_next
<1>9. CASE lock_flash
  BY <1>9, SMT DEF lock_flash, write_metadata_return
<1>10. CASE RunSteps
  <2>1. CASE at = "run" /\ m_is_soft
    BY <2>1, SMT DEF m_is_soft, is_soft
  <2>2. CASE select_metadata
    BY <1>10, <2>2, SMT DEF RunSteps, select_metadata
  <2>3. CASE m_select_image
    BY <2>3, SMT DEF m_select_image, vars
  <2>4. CASE copy_and_jump
    <3>1. running = NoImage /\ index # NoSlot /\ running' # NoImage
      <4>1. index \in Slot /\ slots[index] \in Content \cup {Torn}
        BY <2>4 DEF copy_and_jump, MTypeOK
      <4> QED
        BY <2>4, <4>1, ContentAssumption DEF copy_and_jump
    <3>2. (pc = "boot" /\ pc' = "os") \/ (pc = "os" /\ pc' = "os")
      BY <2>4 DEF copy_and_jump, StartOs, vars
    <3> QED
      BY <3>1, <3>2, SMT
  <2> QED
    BY <1>10, <2>1, <2>2, <2>3, <2>4 DEF RunSteps
<1> QED
  BY <1>1, <1>2, <1>3, <1>4, <1>5, <1>6, <1>7, <1>8, <1>9, <1>10 DEF DeviceBoot, DriverCalls

(* Every step of a boot but a panic brings it closer to its end.           *)
THEOREM DeviceBootEnds == DeviceSpec => BootAdvances
<1>1. DriverInv /\ DriverInv' /\ MTypeOK /\ [DeviceNext]_devicevars
        => [DeviceBoot /\ ~DeviceReset
              => BootStepsLeft' < BootStepsLeft /\ BootStepsLeft' >= 0]_devicevars
  <2> SUFFICES ASSUME DriverInv, DriverInv', MTypeOK, DeviceBoot, ~DeviceReset
               PROVE  BootStepsLeft' < BootStepsLeft /\ BootStepsLeft' >= 0
    OBVIOUS
  <2>1. BootStepsLeft' \in Nat
    BY StepsLeftNatNext, SMT
  <2> QED
    BY <2>1, BootStepCounts, SMT
<1> QED
  BY <1>1, DeviceInvariant, DeviceTypeCorrect, PTL DEF DeviceSpec, BootAdvances

-----------------------------------------------------------------------------
(* The device behaves as Moveloader says                                   *)

(* Moveloader takes over the actions of MetadataFixup.                     *)
LEMMA WholeActions ==
  /\ Whole!vars = Fixup!vars
  /\ Whole!Init <=> Fixup!Init
  /\ Whole!is_soft <=> Fixup!is_soft
  /\ Whole!select_metadata <=> Fixup!select_metadata
  /\ Whole!unlock_flash <=> Fixup!unlock_flash
  /\ Whole!write_metadata_erase <=> Fixup!write_metadata_erase
  /\ Whole!write_metadata_program <=> Fixup!write_metadata_program
  /\ Whole!write_metadata_return <=> Fixup!write_metadata_return
  /\ Whole!StartOs <=> Fixup!StartOs
  /\ Whole!OsRequestSoftReboot <=> Fixup!OsRequestSoftReboot
  /\ \A p, m : Whole!OsUpdate(p, m) <=> Fixup!OsUpdate(p, m)
  /\ Whole!OsErase <=> Fixup!OsErase
  /\ Whole!OsProgram <=> Fixup!OsProgram
  /\ Whole!Reset <=> Fixup!Reset
<1> USE DEF
    Whole!Version, Fixup!Version, Whole!Metadata, Fixup!Metadata, Whole!Dword,
    Fixup!Dword, Whole!Cell, Fixup!Cell, Whole!PageImage, Fixup!PageImage,
    Whole!METADATA_1, Fixup!METADATA_1, Whole!METADATA_2, Fixup!METADATA_2,
    Whole!NoPage, Fixup!NoPage, Whole!Page, Fixup!Page, Whole!Other, Fixup!Other,
    Whole!ErasedPage, Fixup!ErasedPage, Whole!Holds, Fixup!Holds, Whole!read_metadata,
    Fixup!read_metadata, Whole!is_valid, Fixup!is_valid, Whole!SelectResult,
    Fixup!SelectResult, Whole!internal_select, Fixup!internal_select, Whole!Select,
    Fixup!Select, Whole!Intact, Fixup!Intact, Whole!Current, Fixup!Current, Whole!vars,
    Fixup!vars, Whole!NoWrite, Fixup!NoWrite, Whole!SoftValues, Fixup!SoftValues,
    Whole!LeftOver, Fixup!LeftOver, Whole!Init, Fixup!Init, Whole!PartlyErased,
    Fixup!PartlyErased, Whole!erase_page, Fixup!erase_page, Whole!PartlyProgrammed,
    Fixup!PartlyProgrammed, Whole!write_dword, Fixup!write_dword, Whole!is_soft,
    Fixup!is_soft, Whole!select_metadata, Fixup!select_metadata, Whole!FixupFailed,
    Fixup!FixupFailed, Whole!unlock_flash, Fixup!unlock_flash,
    Whole!write_metadata_erase, Fixup!write_metadata_erase, Whole!AdvanceLoop,
    Fixup!AdvanceLoop, Whole!write_metadata_program, Fixup!write_metadata_program,
    Whole!write_metadata_return, Fixup!write_metadata_return, Whole!StartOs,
    Fixup!StartOs, Whole!OsRequestSoftReboot, Fixup!OsRequestSoftReboot, Whole!Spare,
    Fixup!Spare, Whole!OsUpdate, Fixup!OsUpdate, Whole!OsGivesUp, Fixup!OsGivesUp,
    Whole!OsErase, Fixup!OsErase, Whole!OsProgram, Fixup!OsProgram,
    Whole!InterruptedFlash, Fixup!InterruptedFlash, Whole!Reset, Fixup!Reset
<1> QED
  OBVIOUS

(* What the driver and the controller do is a step of write_metadata.      *)
LEMMA CallsStep ==
  ASSUME DriverInv, DriverCalls \/ OperationEnds \/ WatchdogUpdates
  PROVE  \/ Fixup!unlock_flash \/ Fixup!write_metadata_erase
         \/ Fixup!write_metadata_program \/ Fixup!write_metadata_return
         \/ UNCHANGED Fixup!vars
<1>1. CASE watchdog_start \/ watchdog_configure \/ watchdog_update \/ unlock_flash_keys
  <2>1. at # "busy" /\ at' # "busy" /\ UNCHANGED vars
    BY <1>1 DEF watchdog_start, watchdog_configure, watchdog_update, unlock_flash_keys
  <2> QED
    BY <2>1, PlainOutsideCalls DEF Answered, Plain, vars, Fixup!vars
<1>2. CASE WatchdogUpdates
  <2>1. UNCHANGED <<at, op, sr>> /\ UNCHANGED vars
    BY <1>2 DEF WatchdogUpdates
  <2> QED
    BY <2>1 DEF MappedPc, MappedWrite, MappedResult, Failed, Answered, LastDword, status, vars,
       Fixup!vars
<1>3. CASE \/ unlock_flash_check \/ erase_page_select \/ erase_page_start \/ erase_page_result
            \/ write_dwords_begin \/ write_dwords_write \/ write_dwords_next \/ lock_flash
            \/ OperationEnds
  <2>1. /\ pc \in {"unlock", "erase", "program", "lock"}
        /\ pc' \in {"unlock", "erase", "program", "lock", "boot"}
    BY <1>3 DEF unlock_flash_check, erase_page_select, erase_page_start, erase_page_result,
       write_dwords_begin, write_dwords_write, write_dwords_next, lock_flash, OperationEnds,
       write_metadata_return, FixupFailed, AdvanceLoop, vars, DriverInv, OpInv, PlaceInv
  <2>2. /\ MappedPc \in {"unlock", "erase", "program", "lock", "boot"}
        /\ MappedPc' \in {"unlock", "erase", "program", "lock", "boot"}
    BY <2>1 DEF MappedPc
  <2>3. [Fixup!Next]_Fixup!vars
    <3>1. DriverNext
      BY <1>3 DEF DriverNext, DriverBoot, DriverCalls
    <3> QED
      BY <3>1, DriverStep
  <2>4. ~Fixup!is_soft /\ ~Fixup!select_metadata /\ ~Fixup!StartOs /\ ~Fixup!failsafe_boot
        /\ ~Fixup!OsRequestSoftReboot /\ (\A p, m : ~Fixup!OsUpdate(p, m))
        /\ ~Fixup!OsErase /\ ~Fixup!OsProgram /\ ~Fixup!Reset /\ ~Fixup!select_image_panics
    BY <2>2 DEF Fixup!is_soft, Fixup!select_metadata, Fixup!StartOs, Fixup!failsafe_boot,
       Fixup!OsRequestSoftReboot, Fixup!OsUpdate, Fixup!OsErase, Fixup!OsProgram, Fixup!Reset,
       Fixup!select_image_panics, Fixup!PanicResets
  <2> QED
    BY <2>3, <2>4 DEF Fixup!Next, Fixup!Boot
<1> QED
  BY <1>1, <1>2, <1>3 DEF DriverCalls

(* It reads the same blocks, ...                                           *)
LEMMA WholeSelect == \A pages : Whole!Current(pages) = Current(pages)
  BY DEF Whole!Version, Version, Whole!Metadata, Metadata, Whole!Dword, Dword, Whole!Cell,
         Cell, Whole!PageImage, PageImage, Whole!METADATA_1, METADATA_1, Whole!METADATA_2,
         METADATA_2, Whole!NoPage, NoPage, Whole!Page, Page, Whole!Other, Other,
         Whole!ErasedPage, ErasedPage, Whole!Holds, Holds, Whole!read_metadata,
         read_metadata, Whole!is_valid, is_valid, Whole!SelectResult, SelectResult,
         Whole!internal_select, internal_select, Whole!Select, Select, Whole!Current,
         Current

(* ... and what it has of its own is the same.                    *)
LEMMA WholeImages ==
  /\ Whole!images = images /\ Whole!NoSlot = NoSlot /\ Whole!Slot = Slot
  /\ Whole!Page = Page /\ Whole!Metadata = Metadata
  /\ Whole!OsRuns <=> OsRuns
  /\ \A payload, contents :
       /\ Whole!select_image(payload, contents) = select_image(payload, contents)
       /\ \A i : Whole!verify_image(payload, contents, i) <=> verify_image(payload, contents, i)
  /\ \A pages, contents : Whole!Offered(pages, contents) = Offered(pages, contents)
<1> USE DEF Whole!Slot, Slot, Whole!NoSlot, NoSlot, Whole!Page, Page, Whole!METADATA_1, METADATA_1,
    Whole!METADATA_2, METADATA_2, Whole!Metadata, Metadata, Whole!Version, Version
<1>1. \A payload, contents :
        /\ Whole!select_image(payload, contents) = select_image(payload, contents)
        /\ \A i : Whole!verify_image(payload, contents, i) <=> verify_image(payload, contents, i)
  BY DEF Whole!select_image, select_image, Whole!First, First, Whole!Verified, Verified,
     Whole!verify_image, verify_image
<1>2. \A pages : Whole!Current(pages) = Current(pages)
  BY WholeSelect
<1>3. \A pages, contents : Whole!Offered(pages, contents) = Offered(pages, contents)
  BY <1>1, <1>2 DEF Whole!Offered, Offered
<1> QED
  BY <1>1, <1>3 DEF Whole!images, images, Whole!OsRuns, OsRuns

(* A step of run() outside the driver is the same step of Moveloader.      *)
LEMMA RunStep ==
  ASSUME DriverInv, RunSteps
  PROVE  Whole!MBoot
<1>0. at \notin {"start", "busy"} /\ at' = "call"
  BY DEF RunSteps, m_is_soft, is_soft, select_metadata, m_select_image, copy_and_jump, StartOs,
     DriverInv, PlaceInv
<1>1. Plain /\ Plain'
  BY <1>0, PlainOutsideCalls DEF Answered
<1>2. CASE m_is_soft
  <2>1. Whole!is_soft
    BY <1>1, <1>2, PlainActions, WholeActions DEF m_is_soft
  <2> QED
    BY <1>2, <2>1, WholeImages DEF m_is_soft, Whole!m_is_soft, Whole!MBoot
<1>3. CASE select_metadata /\ UNCHANGED images
  <2>1. Whole!select_metadata
    BY <1>1, <1>3, PlainActions, WholeActions
  <2> QED
    BY <1>3, <2>1 DEF images, Whole!images, Whole!m_select_metadata, Whole!MBoot
<1>4. CASE m_select_image
  BY <1>1, <1>4, WholeImages
     DEF Plain, m_select_image, vars, Whole!vars, Whole!m_select_image, Whole!MBoot
<1>5. CASE copy_and_jump
  <2>1. Whole!StartOs \/ (MappedPc = "os" /\ UNCHANGED Whole!vars)
    BY <1>1, <1>5, PlainActions, WholeActions DEF Plain, copy_and_jump, vars, Whole!vars
  <2> QED
    BY <1>5, <2>1, WholeImages DEF copy_and_jump, Whole!copy_and_jump, Whole!MBoot
<1> QED
  BY <1>2, <1>3, <1>4, <1>5 DEF RunSteps

(* So is a step of the OS.                                                 *)
LEMMA OsStep ==
  ASSUME DriverInv, DeviceOs
  PROVE  Whole!MOs
<1>0. pc \in OsPhases /\ at \notin {"start", "busy"} /\ at' = at
  BY DEF DeviceOs, MOs, OsEraseSlot, OsWriteSlot, OsPublish, OsUpdate, OsWritesPage, OsErase,
     OsProgram, OsAsksForTrial, OsRequestSoftReboot, OsPhases, driver, DriverInv, PlaceInv
<1>1. Plain /\ Plain'
  BY <1>0, PlainOutsideCalls DEF Answered
<1>2. CASE \E i \in Slot : OsEraseSlot(i) \/ \E image \in Content : OsWriteSlot(i, image)
  <2>1. ASSUME NEW i \in Slot, OsEraseSlot(i)
        PROVE  Whole!OsEraseSlot(i)
    BY <1>1, <2>1, WholeImages DEF Plain, OsEraseSlot, Whole!OsEraseSlot, vars, Whole!vars
  <2>2. ASSUME NEW i \in Slot, NEW image \in Content, OsWriteSlot(i, image)
        PROVE  Whole!OsWriteSlot(i, image)
    BY <1>1, <2>2, WholeImages DEF Plain, OsWriteSlot, Whole!OsWriteSlot, vars, Whole!vars
  <2> QED
    BY <1>2, <2>1, <2>2, WholeImages DEF Whole!MOs
<1>3. CASE \E p \in Page, m \in Metadata : OsPublish(p, m)
  <2>1. PICK p \in Page, m \in Metadata : OsPublish(p, m)
    BY <1>3
  <2>2. Whole!OsUpdate(p, m)
    BY <1>1, <2>1, PlainActions, WholeActions DEF OsPublish
  <2>3. Whole!OsPublish(p, m)
    BY <1>1, <2>1, <2>2, WholeImages
       DEF Plain, OsPublish, Whole!OsPublish, images, Whole!images
  <2> QED
    BY <2>3, WholeImages DEF Whole!MOs
<1>4. CASE OsWritesPage
  BY <1>1, <1>4, PlainActions, WholeActions
     DEF images, Whole!images, OsWritesPage, Whole!OsWritesPage, Whole!MOs
<1>5. CASE OsAsksForTrial
  <2>1. Whole!OsRequestSoftReboot
    BY <1>1, <1>5, PlainActions, WholeActions DEF OsAsksForTrial
  <2> QED
    BY <1>5, <2>1, WholeImages DEF OsAsksForTrial, Whole!OsAsksForTrial, Whole!MOs
<1> QED
  BY <1>2, <1>3, <1>4, <1>5 DEF DeviceOs, MOs

LEMMA DeviceStep ==
  ASSUME DriverInv, [DeviceNext]_devicevars
  PROVE  [Whole!MNext]_(Whole!mvars)
<1>1. CASE (DriverCalls \/ OperationEnds \/ WatchdogUpdates) /\ UNCHANGED images
  BY <1>1, CallsStep, WholeActions
     DEF images, Whole!images, Whole!m_select_metadata, Whole!MBoot, Whole!MNext, Whole!mvars, Fixup!vars, images
<1>2. CASE RunSteps
  BY <1>2, RunStep DEF Whole!MNext
<1>3. CASE DeviceReset
  <2>1. Whole!Reset
    BY <1>3, ResetStep, WholeActions DEF DeviceReset
  <2>2. Whole!ImagesReset
    BY <1>3, WholeImages DEF DeviceReset, ImagesReset, Whole!ImagesReset
  <2> QED
    BY <2>1, <2>2 DEF Whole!MReset, Whole!MNext
<1>4. CASE DeviceOs
  BY <1>4, OsStep DEF Whole!MNext
<1>5. CASE UNCHANGED devicevars
  BY <1>5 DEF devicevars, MappedPc, MappedWrite, MappedResult, Failed, Answered, LastDword,
     status, Whole!mvars
<1> QED
  BY <1>1, <1>2, <1>3, <1>4, <1>5 DEF DeviceNext, DeviceBoot, Hardware, DeviceBite

(* Moveloader is right about the device: run() on the real steps of the    *)
(* driver, with every register access, every failure of the controller and *)
(* a reset at any point, does nothing that Moveloader does not allow.      *)
THEOREM DeviceImplements == DeviceSpec => ImplementsWhole
<1>1. DeviceInit => Whole!MInit
  <2> SUFFICES ASSUME DeviceInit PROVE Whole!MInit
    OBVIOUS
  <2>1. Plain /\ MInit
    BY PlainOutsideCalls DEF DeviceInit, DriverInit, Answered
  <2> QED
    BY <2>1, WholeImages DEF MInit, Whole!MInit, Plain, Whole!Dword, Dword, Whole!ErasedPage,
       ErasedPage, Whole!NoWrite, NoWrite, Whole!NoPage, NoPage
<1>2. DriverInv /\ [DeviceNext]_devicevars => [Whole!MNext]_(Whole!mvars)
  BY DeviceStep
<1> QED
  BY <1>1, <1>2, DeviceInvariant, PTL DEF DeviceSpec, ImplementsWhole, Whole!MSpec

-----------------------------------------------------------------------------
(* What follows for the device                                             *)

(* The theorems of MoveloaderProofs and MetadataFixupProofs, about the     *)
(* mapped variables                                                        *)
W == INSTANCE MoveloaderProofs
       WITH pc <- MappedPc, write <- MappedWrite, fix_result <- MappedResult,
            Faults <- FaultKinds

LEMMA SameConstants ==
  W!Metadata = Metadata /\ W!FaultKinds = FaultKinds /\ W!Slot = Slot
  BY DEF W!Metadata, Metadata, W!Version, Version, W!FaultKinds, FaultKinds, W!Slot, Slot

LEMMA SameWhole == (W!MInit <=> Whole!MInit) /\ ([W!MNext]_(W!mvars) <=> [Whole!MNext]_(Whole!mvars))
<1> USE DEF
    W!Version, Whole!Version, W!Metadata, Whole!Metadata, W!Dword, Whole!Dword, W!Cell,
    Whole!Cell, W!PageImage, Whole!PageImage, W!METADATA_1, Whole!METADATA_1,
    W!METADATA_2, Whole!METADATA_2, W!NoPage, Whole!NoPage, W!Page, Whole!Page, W!Other,
    Whole!Other, W!ErasedPage, Whole!ErasedPage, W!Holds, Whole!Holds, W!read_metadata,
    Whole!read_metadata, W!is_valid, Whole!is_valid, W!SelectResult, Whole!SelectResult,
    W!internal_select, Whole!internal_select, W!Select, Whole!Select, W!Current,
    Whole!Current, W!vars, Whole!vars, W!NoWrite, Whole!NoWrite, W!SoftValues,
    Whole!SoftValues, W!PartlyErased, Whole!PartlyErased, W!erase_page,
    Whole!erase_page, W!PartlyProgrammed, Whole!PartlyProgrammed, W!write_dword,
    Whole!write_dword, W!is_soft, Whole!is_soft, W!select_metadata,
    Whole!select_metadata, W!FixupFailed, Whole!FixupFailed, W!unlock_flash,
    Whole!unlock_flash, W!write_metadata_erase, Whole!write_metadata_erase,
    W!AdvanceLoop, Whole!AdvanceLoop, W!write_metadata_program,
    Whole!write_metadata_program, W!write_metadata_return, Whole!write_metadata_return,
    W!StartOs, Whole!StartOs, W!OsRequestSoftReboot, Whole!OsRequestSoftReboot, W!Spare,
    Whole!Spare, W!OsUpdate, Whole!OsUpdate, W!OsGivesUp, Whole!OsGivesUp, W!OsErase,
    Whole!OsErase, W!OsProgram, Whole!OsProgram, W!InterruptedFlash,
    Whole!InterruptedFlash, W!Reset, Whole!Reset, W!Slot, Whole!Slot, W!NoSlot,
    Whole!NoSlot, W!images, Whole!images, W!mvars, Whole!mvars, W!MInit, Whole!MInit,
    W!verify_image, Whole!verify_image, W!First, Whole!First, W!Verified,
    Whole!Verified, W!select_image, Whole!select_image, W!Offered, Whole!Offered,
    W!m_is_soft, Whole!m_is_soft, W!m_select_metadata, Whole!m_select_metadata,
    W!m_select_image, Whole!m_select_image, W!copy_and_jump, Whole!copy_and_jump,
    W!ImagesReset, Whole!ImagesReset, W!MReset, Whole!MReset, W!NothingToBoot,
    Whole!NothingToBoot, W!panic, Whole!panic, W!watchdog, Whole!watchdog, W!OsRuns,
    Whole!OsRuns, W!OsEraseSlot, Whole!OsEraseSlot, W!OsWriteSlot, Whole!OsWriteSlot,
    W!OsPublish, Whole!OsPublish, W!OsWritesPage, Whole!OsWritesPage, W!OsAsksForTrial,
    Whole!OsAsksForTrial, W!MBoot, Whole!MBoot, W!MOs, Whole!MOs, W!MNext, Whole!MNext
<1>1. W!MInit <=> Whole!MInit
  OBVIOUS
<1>2. W!MNext <=> Whole!MNext
  OBVIOUS
<1>3. W!mvars = Whole!mvars
  OBVIOUS
<1> QED
  BY <1>1, <1>2

LEMMA DeviceIsWhole == DeviceSpec => W!MSpec
  BY DeviceImplements, SameWhole, PTL DEF ImplementsWhole, Whole!MSpec, W!MSpec

(* The mapping only looks ahead within write_metadata.                     *)
LEMMA MappedOutsideCalls ==
  ASSUME DriverInv
  PROVE  pc \notin {"erase", "program"} => Plain /\ ~Answered
  BY PlainOutsideCalls DEF DriverInv, PlaceInv, Answered

LEMMA MappedInsideCalls ==
  ASSUME DriverInv, pc \in {"erase", "program"}
  PROVE  MappedPc \in {"erase", "program", "lock", "boot"}
  BY DEF MappedPc

LEMMA SameCurrent == \A pages : W!Current(pages) = Current(pages) /\ (W!Intact(pages) <=> Intact(pages))
  BY DEF W!Version, Version, W!Metadata, Metadata, W!Dword, Dword, W!Cell, Cell, W!PageImage,
         PageImage, W!METADATA_1, METADATA_1, W!METADATA_2, METADATA_2, W!NoPage, NoPage, W!Page,
         Page, W!Other, Other, W!ErasedPage, ErasedPage, W!Holds, Holds, W!read_metadata,
         read_metadata, W!is_valid, is_valid, W!SelectResult, SelectResult, W!internal_select,
         internal_select, W!Select, Select, W!Current, Current, W!Intact, Intact

LEMMA SameOffer == W!Offer = Offer
<1>1. \A payload, contents : W!select_image(payload, contents) = select_image(payload, contents)
  BY DEF W!select_image, select_image, W!First, First, W!Verified, Verified, W!verify_image,
     verify_image, W!Slot, Slot, W!NoSlot, NoSlot
<1> QED
  BY <1>1, SameCurrent DEF W!Offer, Offer, W!Offered, Offered, W!NoSlot, NoSlot

LEMMA DeviceIsFixup == DeviceSpec => W!Spec
<1>1. W!MSpec => W!Spec
  BY SameConstants, W!MetadataHalf, MaxVersionAssumption, DwordsAssumption, CellAssumption,
     OsAssumption, BootableAssumption, SlotAssumption, ContentAssumption, PayloadAssumption
<1> QED
  BY <1>1, DeviceIsWhole, PTL

(* The durable metadata of the device is one atomic block.                 *)
THEOREM DeviceAtomic == OsSparesNewest => (DeviceSpec => AtomicSpec)
<1> SUFFICES ASSUME OsSparesNewest PROVE DeviceSpec => AtomicSpec
  OBVIOUS
<1>1. W!Spec => W!AtomicSpec
  BY SameConstants, W!Refinement, MaxVersionAssumption, DwordsAssumption, CellAssumption,
     OsAssumption, BootableAssumption, SlotAssumption, ContentAssumption, PayloadAssumption
<1>2. /\ W!Atomic!Init <=> Atomic!Init
      /\ [W!Atomic!Next]_<<W!Current(flash), metadata>> <=> [Atomic!Next]_<<Current(flash), metadata>>
  BY SameConstants, SameCurrent
     DEF W!Atomic!Init, Atomic!Init, W!Atomic!Next, Atomic!Next, W!Atomic!HandOver, Atomic!HandOver,
         W!Atomic!Publish, Atomic!Publish, W!Atomic!Restart, Atomic!Restart
<1> QED
  BY <1>1, <1>2, DeviceIsFixup, PTL DEF W!AtomicSpec, AtomicSpec, W!Atomic!Spec, Atomic!Spec

(* Power loss at any register access does not take the last valid metadata *)
(* from a device that has booted from it.                                  *)
THEOREM DeviceNeverBreaks == OsSparesNewest => (DeviceSpec => NeverBroken)
<1> SUFFICES ASSUME OsSparesNewest PROVE DeviceSpec => NeverBroken
  OBVIOUS
<1>1. W!Spec => W!NeverBroken
  BY SameConstants, W!SparingNeverBreaks, MaxVersionAssumption, DwordsAssumption, CellAssumption,
     OsAssumption, BootableAssumption, SlotAssumption, ContentAssumption, PayloadAssumption
<1>2. DriverInv => (pc = "boot" => MappedPc = "boot") /\ (MappedPc # "failsafe" => pc # "failsafe")
  BY MappedOutsideCalls DEF Plain
<1> QED
  BY <1>1, <1>2, DeviceIsFixup, DeviceInvariant, PTL DEF W!NeverBroken, NeverBroken

(* No register access of the bootloader changes two intact pages.          *)
THEOREM DeviceSavesCycles == DeviceSpec => NoNeedlessWrite
<1>1. W!Spec => W!NoNeedlessWrite
  BY SameConstants, W!FlashCyclesSaved, MaxVersionAssumption, DwordsAssumption, CellAssumption,
     OsAssumption, BootableAssumption, SlotAssumption, ContentAssumption, PayloadAssumption
<1>2. DriverInv /\ [MappedPc \notin W!OsPhases /\ W!Intact(flash) => UNCHANGED flash]_(W!vars)
        => [pc \notin OsPhases /\ Intact(flash) => UNCHANGED flash]_vars
  <2>1. DriverInv /\ pc \notin OsPhases => MappedPc \notin OsPhases
    BY MappedOutsideCalls, MappedInsideCalls DEF OsPhases, Plain
  <2> QED
    BY <2>1, SameCurrent DEF W!OsPhases, OsPhases, W!vars, vars
<1> QED
  BY <1>1, <1>2, DeviceIsFixup, DeviceInvariant, PTL DEF W!NoNeedlessWrite, NoNeedlessWrite

(* A metadata update that has been written completely is what the next     *)
(* boot reads.                                                             *)
THEOREM DeviceUpdate == DeviceSpec => UpdateTakesEffect
<1>1. W!Spec => W!UpdateTakesEffect
  BY SameConstants, W!UpdateEffective, MaxVersionAssumption, DwordsAssumption, CellAssumption,
     OsAssumption, BootableAssumption, SlotAssumption, ContentAssumption, PayloadAssumption
<1> DEFINE Effect == pc = "os_program" /\ pc' = "os" /\ Holds(flash'[write.page], write.data)
                       => Current(flash') = write.data
           Mapped == MappedPc = "os_program" /\ MappedPc' = "os"
                         /\ W!Holds(flash'[MappedWrite.page], MappedWrite.data)
                       => W!Current(flash') = MappedWrite.data
<1>2. DriverInv /\ DriverInv' /\ [Mapped]_(W!vars) => [Effect]_vars
  <2> SUFFICES ASSUME DriverInv, DriverInv', [Mapped]_(W!vars), pc = "os_program", pc' = "os"
               PROVE  Effect
    OBVIOUS
  <2>1. Plain /\ MappedPc' = "os"
    BY PlainOutsideCalls DEF DriverInv, PlaceInv, Answered, Plain
  <2>2. Mapped
    BY <2>1 DEF W!vars, Plain
  <2>3. \A page, m : W!Holds(page, m) <=> Holds(page, m)
    BY DEF W!Holds, Holds, W!Dword, Dword
  <2> QED
    BY <2>1, <2>2, <2>3, SameCurrent DEF Plain
<1> QED
  BY <1>1, <1>2, DeviceIsFixup, DeviceInvariant, PTL DEF W!UpdateTakesEffect, UpdateTakesEffect

(* No register access of a boot, no failure of the controller and no reset *)
(* changes what the next permanent boot starts, however the OS before has  *)
(* treated the metadata pages.                                             *)
THEOREM DeviceKeepsOffer == DeviceSpec => BootKeepsOffer
<1>1. W!MSpec => W!BootKeepsOffer
  BY SameConstants, W!OfferOutlivesBoots, MaxVersionAssumption, DwordsAssumption, CellAssumption,
     OsAssumption, BootableAssumption, SlotAssumption, ContentAssumption, PayloadAssumption
<1>2. (W!Offer = Offer)'
  BY SameOffer, PTL
<1>3. [~W!OsRuns => W!Offer' = W!Offer]_(W!mvars) => [~OsRuns => Offer' = Offer]_mvars
  <2> SUFFICES ASSUME [~W!OsRuns => W!Offer' = W!Offer]_(W!mvars), ~OsRuns
               PROVE  Offer' = Offer
    OBVIOUS
  <2>1. CASE W!mvars' = W!mvars
    <3>1. UNCHANGED <<flash, slots>>
      BY <2>1 DEF W!mvars
    <3> QED
      BY <3>1 DEF Offer, Offered, Current, Select, read_metadata, internal_select, select_image
  <2>2. CASE W!Offer' = W!Offer
    BY <1>2, <2>2, SameOffer
  <2> QED
    BY <2>1, <2>2 DEF W!OsRuns, OsRuns
<1> QED
  BY <1>1, <1>3, DeviceIsWhole, PTL DEF W!BootKeepsOffer, BootKeepsOffer

(* The promise of a boot, kept by the device as a whole                    *)
THEOREM DevicePromise == OsSparesNewest => (DeviceSpec => PromiseKept)
<1> SUFFICES ASSUME OsSparesNewest PROVE DeviceSpec => PromiseKept
  OBVIOUS
<1>1. W!MSpec => W!PromiseKept
  BY SameConstants, W!PromiseIsKept, MaxVersionAssumption, DwordsAssumption, CellAssumption,
     OsAssumption, BootableAssumption, SlotAssumption, ContentAssumption, PayloadAssumption
<1>2. DriverInv => W!Trial = Trial
  <2>1. DriverInv => (MappedPc = "os" <=> pc = "os")
    BY MappedOutsideCalls, MappedInsideCalls DEF Plain
  <2> QED
    BY <2>1 DEF W!Trial, Trial
<1>p. (DriverInv => W!Trial = Trial)' /\ (W!Offer = Offer)'
  BY <1>2, SameOffer, PTL
<1>3. DriverInv /\ W!Promise!Init => Promise!Init
  BY <1>2, SameOffer DEF W!Promise!Init, Promise!Init, W!Trial, Trial
<1>4. DriverInv /\ DriverInv' /\ [W!Promise!Next]_<<W!Offer, running, W!Trial>>
        => [Promise!Next]_<<Offer, running, Trial>>
  <2> SUFFICES ASSUME DriverInv, DriverInv', [W!Promise!Next]_<<W!Offer, running, W!Trial>>
               PROVE  [Promise!Next]_<<Offer, running, Trial>>
    OBVIOUS
  <2>1. W!Offer = Offer /\ W!Offer' = Offer' /\ W!Trial = Trial /\ W!Trial' = Trial'
    BY <1>2, <1>p, SameOffer
  <2>2. CASE UNCHANGED <<W!Offer, running, W!Trial>>
    BY <2>1, <2>2
  <2>3. CASE W!Promise!Boot
    BY <2>1, <2>3 DEF W!Trial, Trial, W!Promise!Boot, Promise!Boot, Promise!Next
  <2>4. CASE W!Promise!Try
    BY <2>1, <2>4 DEF W!Trial, Trial, W!Promise!Try, Promise!Try, Promise!Next
  <2>5. CASE W!Promise!Ask
    BY <2>1, <2>5 DEF W!Trial, Trial, W!Promise!Ask, Promise!Ask, W!Promise!OsRuns, Promise!OsRuns,
       Promise!Next
  <2>6. CASE W!Promise!Replace
    BY <2>1, <2>6 DEF W!Trial, Trial, W!Promise!Replace, Promise!Replace, W!Promise!OsRuns,
       Promise!OsRuns, Promise!Next
  <2>7. CASE W!Promise!Restart
    BY <2>1, <2>7 DEF W!Trial, Trial, W!Promise!Restart, Promise!Restart, Promise!Next
  <2> QED
    BY <2>2, <2>3, <2>4, <2>5, <2>6, <2>7 DEF W!Promise!Next, W!Trial
<1> QED
  BY <1>1, <1>3, <1>4, DeviceIsWhole, DeviceInvariant, PTL
     DEF W!PromiseKept, PromiseKept, W!Promise!Spec, Promise!Spec, W!Trial, Trial

(* During an update the device starts the old or the new image.            *)
THEOREM DeviceOldOrNew == OsSparesNewest => (DeviceSpec => OldOrNew)
<1> SUFFICES ASSUME OsSparesNewest PROVE DeviceSpec => OldOrNew
  OBVIOUS
<1>1. W!MSpec => W!OldOrNew
  BY SameConstants, W!OldOrNewImage, MaxVersionAssumption, DwordsAssumption, CellAssumption,
     OsAssumption, BootableAssumption, SlotAssumption, ContentAssumption, PayloadAssumption
<1> DEFINE Change == Offer' # Offer /\ pc \in {"os_erase", "os_program"}
                       => Offer' = slots[write.data.payload.preferred_image]
           Mapped == W!Offer' # W!Offer /\ MappedPc \in {"os_erase", "os_program"}
                       => W!Offer' = slots[MappedWrite.data.payload.preferred_image]
<1>2. (W!Offer = Offer)'
  BY SameOffer, PTL
<1>3. DriverInv /\ [Mapped]_(W!mvars) => [Change]_mvars
  <2> SUFFICES ASSUME DriverInv, [Mapped]_(W!mvars), Offer' # Offer, pc \in {"os_erase", "os_program"}
               PROVE  Change
    OBVIOUS
  <2>1. Plain
    BY MappedOutsideCalls
  <2>2. W!mvars' # W!mvars
    <3> SUFFICES ASSUME W!mvars' = W!mvars PROVE Offer' = Offer
      OBVIOUS
    <3>1. UNCHANGED <<flash, slots>>
      BY DEF W!mvars
    <3> QED
      BY <3>1 DEF Offer, Offered, Current, Select, read_metadata, internal_select, select_image
  <2> QED
    BY <1>2, <2>1, <2>2, SameOffer DEF Plain
<1> QED
  BY <1>1, <1>3, DeviceIsWhole, DeviceInvariant, PTL DEF W!OldOrNew, OldOrNew

(* The slot that is started is the one ImageChoice has.                    *)
THEOREM DeviceChoice == OsSparesNewest => (DeviceSpec => ChoiceKept)
<1> SUFFICES ASSUME OsSparesNewest PROVE DeviceSpec => ChoiceKept
  OBVIOUS
<1>1. W!MSpec => W!ChoiceKept
  BY SameConstants, W!MChoiceRefined, MaxVersionAssumption, DwordsAssumption, CellAssumption,
     OsAssumption, BootableAssumption, SlotAssumption, ContentAssumption, PayloadAssumption
<1>2. \A payload, contents : W!Verified(payload, contents) = Verified(payload, contents)
  BY DEF W!Verified, Verified, W!verify_image, verify_image, W!Slot, Slot
<1>3. W!ChoiceVars = ChoiceVars
  BY <1>2, SameCurrent
     DEF W!ChoiceVars, ChoiceVars, W!DurablePreferred, DurablePreferred, W!DurableVerified,
         DurableVerified, W!Durable, Durable, W!Asked, Asked, W!Started, Started, W!NoSlot, NoSlot
<1>4. W!OneChoice!Init <=> OneChoice!Init
  BY <1>3 DEF W!OneChoice!Init, OneChoice!Init, W!Slot, Slot, W!NoSlot, NoSlot, W!ChoiceVars, ChoiceVars
<1>5. [W!OneChoice!Next]_(W!ChoiceVars) => [OneChoice!Next]_ChoiceVars
  <2>1. (W!ChoiceVars = ChoiceVars)'
    BY <1>3, PTL
  <2> QED
    BY <1>3, <2>1
       DEF W!ChoiceVars, ChoiceVars, W!Slot, Slot, W!NoSlot, NoSlot, W!OneChoice!Next, OneChoice!Next,
           W!OneChoice!Try, OneChoice!Try, W!OneChoice!Choose, OneChoice!Choose, W!OneChoice!Start,
           OneChoice!Start, W!OneChoice!Update, OneChoice!Update, W!OneChoice!Ask, OneChoice!Ask,
           W!OneChoice!Restart, OneChoice!Restart, W!OneChoice!Flash, OneChoice!Flash
<1> QED
  BY <1>1, <1>4, <1>5, DeviceIsWhole, PTL
     DEF W!ChoiceKept, ChoiceKept, W!OneChoice!Spec, OneChoice!Spec, W!ChoiceVars, ChoiceVars
=============================================================================
