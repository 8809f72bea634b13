------------------------- MODULE FlashDriverProofs -------------------------
(***************************************************************************)
(* Proofs about the flash driver, for both bank modes, both ways to clear  *)
(* a flag, any flags an operation may fail with, and pages of any length.  *)
(* DriverInv says what the registers hold at each place of the driver; the *)
(* refinement follows from it, and with it every theorem about             *)
(* MetadataFixup holds for the boot with the driver's own steps.           *)
(***************************************************************************)
EXTENDS FlashDriver, MetadataFixupProofs

-----------------------------------------------------------------------------
(* The memory layout                                                       *)

(* The addresses as numbers *)
LEMMA Addresses ==
  /\ MAX_PAGE_SIZE = 8192 /\ SLOT_SIZE = 516096
  /\ METADATA_1_ADDR = 8192 /\ METADATA_2_ADDR = 16384
  /\ SLOT_1_ADDR = 24576 /\ SLOT_2_ADDR = 540672 /\ SLOT_3_ADDR = 1056768
  BY SMT DEF MAX_PAGE_SIZE, SINGLE_BANK_PAGE_SIZE, SLOT_SIZE, METADATA_1_ADDR,
     METADATA_2_ADDR, SLOT_1_ADDR, SLOT_2_ADDR, SLOT_3_ADDR

(* The address of a page that contains the given address *)
LEMMA PageContains ==
  ASSUME NEW address \in Nat, NEW size \in {4096, 8192}
  PROVE  /\ address \div size \in Nat
         /\ size * (address \div size) <= address
         /\ address < size * (address \div size) + size
  BY SMT

(* "An error should only happen if we gave an invalid page address, which  *)
(* is not possible if addr is in 0 <= addr < FLASH_SIZE" (metadata.rs): in *)
(* both bank modes every address has a page that erase_page accepts, and   *)
(* bank and page as it selects them name the page that contains it.        *)
THEOREM EveryAddressErasable ==
  ASSUME NEW address \in Nat, address < FLASH_SIZE, NEW dualbank \in BOOLEAN
  PROVE  LET page_number == address_to_page_number(address, dualbank)
             from == ErasedFrom(Selection(page_number, dualbank), dualbank)
         IN /\ page_number \in 0 .. PagesOfFlash(dualbank) - 1
            /\ from = page_number * page_size(dualbank)
            /\ from <= address /\ address < from + page_size(dualbank)
<1> DEFINE size == page_size(dualbank)
           n == address_to_page_number(address, dualbank)
           from == ErasedFrom(Selection(n, dualbank), dualbank)
<1>1. size \in {4096, 8192} /\ FLASH_SIZE = 2097152
  BY SMT DEF page_size, SINGLE_BANK_PAGE_SIZE, DUAL_BANK_PAGE_SIZE, FLASH_SIZE
<1>2. n \in Nat /\ size * n <= address /\ address < size * n + size
  BY <1>1, PageContains, SMT DEF address_to_page_number
<1>3. CASE dualbank
  <2>1. size = 4096 /\ PagesOfFlash(dualbank) = 512
    BY <1>3, SMT DEF page_size, DUAL_BANK_PAGE_SIZE, PagesOfFlash
  <2> HIDE DEF n, size
  <2>2. n < 512
    BY <1>1, <1>2, <2>1, SMT
  <2>3. from = (IF n \div 256 = 1 THEN 1048576 ELSE 0) + (n % 256) * 4096
    <3> DEFINE selection == Selection(n, dualbank)
    <3>1. /\ selection.bker = (dualbank /\ n \div 256 = 1)
          /\ selection.pnb = n % 256
      BY Zenon DEF Selection
    <3>2. selection.bker <=> n \div 256 = 1
      BY <1>3, <3>1
    <3>3. from = (IF selection.bker THEN FLASH_SIZE \div 2 ELSE 0) + selection.pnb * page_size(dualbank)
      BY Zenon DEF ErasedFrom
    <3>4. FLASH_SIZE \div 2 = 1048576 /\ page_size(dualbank) = 4096
      BY <1>1, <2>1, SMT DEF size
    <3> HIDE DEF selection, from
    <3> QED
      BY <3>1, <3>2, <3>3, <3>4, SMT
  <2>4. \/ n < 256 /\ n \div 256 = 0 /\ n % 256 = n
        \/ n >= 256 /\ n \div 256 = 1 /\ n % 256 = n - 256
    BY <1>2, <2>2, SMT
  <2>5. from = n * 4096
    BY <1>2, <2>3, <2>4, SMT
  <2> QED
    BY <1>2, <2>1, <2>2, <2>5, SMT DEF n, size
<1>4. CASE ~dualbank
  <2>1. size = 8192 /\ PagesOfFlash(dualbank) = 256
    BY <1>4, SMT DEF page_size, SINGLE_BANK_PAGE_SIZE, PagesOfFlash
  <2> HIDE DEF n, size
  <2>2. n < 256
    BY <1>1, <1>2, <2>1, SMT
  <2>3. n % 256 = n
    BY <1>2, <2>2, SMT
  <2>4. from = n * 8192
    BY <1>2, <1>4, <2>1, <2>3, SMT DEF ErasedFrom, Selection, size
  <2> QED
    BY <1>2, <2>1, <2>2, <2>4, SMT DEF n, size
<1> QED
  BY <1>3, <1>4, SMT

(* The parts of the flash do not overlap and lie within it, and erasing    *)
(* the page of any address, in either mode, erases nothing outside of the  *)
(* part the address is in: a repair of one metadata page touches neither   *)
(* the other one nor an image nor the bootloader (asserts and base_checks  *)
(* of lib.rs, and more).                                                   *)
THEOREM RegionsApart ==
  ASSUME NEW r \in Regions, NEW s \in Regions, r # s
  PROVE  /\ r.end <= FLASH_SIZE
         /\ r.end <= s.start \/ s.end <= r.start
  BY Addresses, SMT DEF Regions, Region, FLASH_SIZE

LEMMA RegionIsWholePages ==
  ASSUME NEW r \in Regions
  PROVE  /\ r.start \in Nat /\ r.end \in Nat
         /\ r.end <= FLASH_SIZE
         /\ \E a, b \in Nat : r.start = 8192 * a /\ r.end = 8192 * b
<1>1. /\ 0 = 8192 * 0 /\ 8192 = 8192 * 1 /\ 16384 = 8192 * 2 /\ 24576 = 8192 * 3
      /\ 540672 = 8192 * 66 /\ 1056768 = 8192 * 129 /\ 1572864 = 8192 * 192
  BY SMT
<1>2. PICK a \in {0, 1, 2, 3, 66, 129}, b \in {1, 2, 3, 66, 129, 192} :
        r.start = 8192 * a /\ r.end = 8192 * b
  BY <1>1, Addresses, SMT DEF Regions, Region
<1> QED
  BY <1>2, SMT DEF FLASH_SIZE

THEOREM EraseStaysInRegion ==
  ASSUME NEW r \in Regions, NEW address \in Nat,
         r.start <= address, address < r.end, NEW dualbank \in BOOLEAN
  PROVE  LET from == ErasedFrom(Selection(address_to_page_number(address, dualbank),
                                          dualbank), dualbank)
         IN r.start <= from /\ from + page_size(dualbank) <= r.end
<1> DEFINE size == page_size(dualbank)
           n == address_to_page_number(address, dualbank)
           from == ErasedFrom(Selection(n, dualbank), dualbank)
<1>1. /\ r.start \in Nat /\ r.end \in Nat /\ r.end <= FLASH_SIZE
      /\ \E a, b \in Nat : r.start = 8192 * a /\ r.end = 8192 * b
  BY RegionIsWholePages, SMT
<1>2. address < FLASH_SIZE
  BY <1>1, SMT DEF FLASH_SIZE
<1>3. n \in Nat /\ from = n * size /\ from <= address /\ address < from + size
  BY <1>2, EveryAddressErasable, SMT DEF PagesOfFlash
<1>4. size = 4096 \/ size = 8192
  BY SMT DEF page_size, SINGLE_BANK_PAGE_SIZE, DUAL_BANK_PAGE_SIZE
<1>5. PICK a \in Nat, b \in Nat : r.start = 8192 * a /\ r.end = 8192 * b
  BY <1>1, SMT
<1> HIDE DEF n, size, from
<1>6. CASE size = 4096
  <2>1. 2 * a <= n /\ n < 2 * b
    BY <1>3, <1>5, <1>6, SMT
  <2> QED
    BY <1>3, <1>5, <1>6, <2>1, SMT DEF n, size, from
<1>7. CASE size = 8192
  <2>1. a <= n /\ n < b
    BY <1>3, <1>5, <1>7, SMT
  <2> QED
    BY <1>3, <1>5, <1>7, <2>1, SMT DEF n, size, from
<1> QED
  BY <1>4, <1>6, <1>7, SMT

-----------------------------------------------------------------------------
(* The page that is erased                                                 *)

TargetSelection(p, dualbank) ==
  Selection(address_to_page_number(METADATA_ADDR(p), dualbank), dualbank)
Target(p, dualbank) == ErasedFrom(TargetSelection(p, dualbank), dualbank)

LEMMA MetadataAddresses ==
  /\ METADATA_ADDR(METADATA_1) = 8192 /\ METADATA_ADDR(METADATA_2) = 16384
  /\ Page = {METADATA_1, METADATA_2}
  BY Addresses, SMT DEF METADATA_ADDR, METADATA_1, METADATA_2, Page

LEMMA PageSizes ==
  ASSUME NEW dualbank \in BOOLEAN
  PROVE  page_size(dualbank) \in {4096, 8192}
  BY SMT DEF page_size, DUAL_BANK_PAGE_SIZE, SINGLE_BANK_PAGE_SIZE

(* In both bank modes the page selected starts where the block does, and   *)
(* erase_page does not refuse it.                                          *)
LEMMA TargetStarts ==
  ASSUME NEW p \in Page, NEW dualbank \in BOOLEAN
  PROVE  /\ METADATA_ADDR(p) \in Nat
         /\ Target(p, dualbank) = METADATA_ADDR(p)
         /\ address_to_page_number(METADATA_ADDR(p), dualbank) < PagesOfFlash(dualbank)
         /\ TargetSelection(p, dualbank) \in [bker : BOOLEAN, pnb : 0 .. 255]
<1> DEFINE addr == METADATA_ADDR(p)
           n == address_to_page_number(addr, dualbank)
           size == page_size(dualbank)
<1>1. addr \in {8192, 16384}
  BY MetadataAddresses
<1>2. addr \in Nat /\ addr < FLASH_SIZE
  BY <1>1, SMT DEF FLASH_SIZE
<1>3. /\ n \in 0 .. PagesOfFlash(dualbank) - 1
      /\ Target(p, dualbank) <= addr
      /\ Target(p, dualbank) = n * size
  BY <1>2, EveryAddressErasable, Zenon DEF Target, TargetSelection
<1>4. n \in Nat /\ n < PagesOfFlash(dualbank)
  BY <1>3, SMT DEF PagesOfFlash
<1>5. PICK r \in Regions : r.start = addr /\ r.end = addr + 8192
  BY <1>1, Addresses, SMT DEF Regions, Region
<1>6. r.start <= Target(p, dualbank)
  <2>1. r.start <= addr /\ addr < r.end
    BY <1>1, <1>5, SMT
  <2> QED
    BY <1>2, <2>1, EraseStaysInRegion, Zenon DEF Target, TargetSelection
<1>7. size \in Nat
  BY PageSizes, SMT
<1>8. Target(p, dualbank) = addr
  <2>1. n * size \in Nat
    BY <1>4, <1>7, SMT
  <2> QED
    BY <1>2, <1>3, <1>5, <1>6, <2>1, SMT
<1>9. n % 256 \in 0 .. 255
  BY <1>4, SMT
<1> QED
  BY <1>2, <1>4, <1>8, <1>9 DEF TargetSelection, Selection

(* ... and covers this block and not the other one.                        *)
LEMMA TargetCovers ==
  ASSUME NEW p \in Page, NEW dualbank \in BOOLEAN
  PROVE  {q \in Page : /\ Target(p, dualbank) <= METADATA_ADDR(q)
                       /\ METADATA_ADDR(q) < Target(p, dualbank) + page_size(dualbank)} = {p}
<1>1. Target(p, dualbank) = METADATA_ADDR(p)
  BY TargetStarts
<1>2. ASSUME NEW q \in Page
      PROVE  METADATA_ADDR(p) <= METADATA_ADDR(q)
               /\ METADATA_ADDR(q) < METADATA_ADDR(p) + page_size(dualbank) <=> q = p
  BY MetadataAddresses, PageSizes, SMT
<1> QED
  BY <1>1, <1>2

-----------------------------------------------------------------------------
(* What the registers hold, by the place in the driver                     *)

PlaceInv ==
  /\ at \in {"configure", "update", "run"} => pc = "reset"
  /\ at = "check" => pc = "unlock"
  /\ at \in {"start", "busy"} => pc \in {"erase", "program"}

(* An operation is the one that the driver is waiting for. *)
EraseOp == [kind |-> "erase", from |-> Target(write.page, chip.dualbank)]
ProgramOp ==
  [kind |-> "program", page |-> write.page, dword |-> write.next, data |-> write.data]
OpInv ==
  op # NoOp =>
    /\ at = "busy" /\ sr \cap ProgrammingFlags = {}
    /\ pc = "erase" => op = EraseOp
    /\ pc = "program" => op = ProgramOp /\ flash[write.page][write.next] = Erased

(* LOCK is read back before anything is started; PER and PG are never up   *)
(* at the same time.                                                       *)
CrInv ==
  /\ pc \in {"erase", "program", "lock"} => ~cr.lock
  /\ pc = "erase" /\ at \in {"start", "busy"} =>
       cr.per /\ cr.selection = TargetSelection(write.page, chip.dualbank)
  /\ pc = "program" => ~cr.per
  /\ pc = "program" /\ at \in {"start", "busy"} => cr.pg

(* An error flag that wait() lets pass is one that status() ignores.       *)
FlagInv ==
  /\ missed \/ status = "Err" \/ sr \cap ProgrammingFlags = {}
  /\ at = "start" => status = "Ok"

WatchdogInv ==
  /\ at = "configure" => wd.running
  /\ at = "update" => wd.running /\ wd.access /\ wd.divide_by256
  /\ WatchdogArmed

DriverInv ==
  DriverTypeOK /\ PlaceInv /\ OpInv /\ CrInv /\ FlagInv /\ WatchdogInv

LEMMA OpTypes ==
  ASSUME DriverInv
  PROVE  /\ op = NoOp \/ op.kind \in {"erase", "program"}
         /\ op.kind = "none" <=> op = NoOp
         /\ op # NoOp /\ pc = "erase" => op.kind = "erase" /\ op.from = Target(write.page, chip.dualbank)
         /\ op # NoOp /\ pc = "program" =>
              /\ op.kind = "program" /\ op.page = write.page
              /\ op.dword = write.next /\ op.data = write.data
         /\ op # NoOp => pc \in {"erase", "program"}
<1>1. NoOp.kind = "none" /\ EraseOp.kind = "erase" /\ ProgramOp.kind = "program"
  BY DEF NoOp, EraseOp, ProgramOp
<1>2. op # NoOp => pc \in {"erase", "program"}
  BY DEF DriverInv, OpInv, PlaceInv
<1>3. op # NoOp => (pc = "erase" /\ op = EraseOp) \/ (pc = "program" /\ op = ProgramOp)
  BY <1>2 DEF DriverInv, OpInv
<1>4. EraseOp.from = Target(write.page, chip.dualbank)
  BY Zenon DEF EraseOp
<1>5. ProgramOp.page = write.page /\ ProgramOp.dword = write.next /\ ProgramOp.data = write.data
  BY Zenon DEF ProgramOp
<1> HIDE DEF EraseOp, ProgramOp, NoOp
<1> QED
  BY <1>1, <1>2, <1>3, <1>4, <1>5

(* What an operation can do to the flash: nothing but to the page the      *)
(* driver has named.                                                       *)
LEMMA ErasedPagesIsTarget ==
  ASSUME DriverInv, op # NoOp, pc = "erase"
  PROVE  ErasedPages = {write.page}
<1>1. write.page \in Page /\ chip.dualbank \in BOOLEAN
  BY DEF DriverInv, DriverTypeOK, TypeOK, Writing
<1>2. op.from = Target(write.page, chip.dualbank)
  BY OpTypes
<1> QED
  BY <1>1, <1>2, TargetCovers DEF ErasedPages

LEMMA PartlySelf ==
  ASSUME flash \in Flash
  PROVE  /\ \A p \in Page : flash[p] \in PartlyErased(flash[p])
         /\ \A p \in Page : flash = [flash EXCEPT ![p] = flash[p]]
         /\ \A p \in Page, d \in Dword : flash = [flash EXCEPT ![p][d] = flash[p][d]]
         /\ \A cell : cell \in PartlyProgrammed(cell)
  BY DEF Flash, PageImage, PartlyErased, PartlyProgrammed

LEMMA HalfwayEffect ==
  ASSUME DriverInv, flash' \in Halfway
  PROVE  flash' \in Flash /\ flash' \in InterruptedFlash
<1>1. flash \in Flash
  BY DEF DriverInv, DriverTypeOK, TypeOK, Flash
<1>2. CASE op = NoOp
  <2>1. flash' = flash
    BY <1>2, OpTypes DEF Halfway
  <2>2. pc \in Writing => write.page \in Page /\ write.next \in Dword
    BY DEF DriverInv, DriverTypeOK, TypeOK
  <2> QED
    BY <1>1, <2>1, <2>2, PartlySelf DEF InterruptedFlash, Writing
<1>3. CASE op # NoOp /\ pc = "erase"
  <2>1. op.kind = "erase" /\ ErasedPages = {write.page} /\ write.page \in Page
    BY <1>3, OpTypes, ErasedPagesIsTarget DEF DriverInv, DriverTypeOK, TypeOK, Writing
  <2>2. PICK q \in PartlyErased(flash[write.page]) : flash' = [flash EXCEPT ![write.page] = q]
    BY <1>1, <2>1, PartlySelf DEF Halfway
  <2>q. q \in PageImage
    BY <2>2 DEF PartlyErased
  <2>3. flash' \in InterruptedFlash
    BY <1>3, <2>2 DEF InterruptedFlash
  <2> QED
    BY <1>1, <2>1, <2>2, <2>q, <2>3, PageUpdateType
<1>4. CASE op # NoOp /\ pc = "program"
  <2>1. /\ op.kind = "program" /\ op.page = write.page /\ op.dword = write.next
        /\ write.page \in Page /\ write.next \in Dword
    BY <1>4, OpTypes DEF DriverInv, DriverTypeOK, TypeOK, Writing
  <2>2. PICK cell \in PartlyProgrammed(flash[write.page][write.next]) :
           flash' = [flash EXCEPT ![write.page][write.next] = cell]
    BY <2>1 DEF Halfway
  <2>3. cell \in Cell
    BY <1>1, <2>1, <2>2 DEF PartlyProgrammed, Flash, PageImage, Cell
  <2> QED
    BY <1>1, <1>4, <2>1, <2>2, <2>3 DEF InterruptedFlash, Flash, PageImage
<1> QED
  BY <1>2, <1>3, <1>4, OpTypes

LEMMA CompleteEffect ==
  ASSUME DriverInv, op # NoOp, flash' = Complete
  PROVE  /\ flash' \in Flash
         /\ pc = "erase" => flash' = [flash EXCEPT ![write.page] = ErasedPage]
         /\ pc = "program" =>
              /\ flash[write.page][write.next] = Erased
              /\ flash' = [flash EXCEPT ![write.page][write.next] = write.data]
<1>1. flash \in Flash
  BY DEF DriverInv, DriverTypeOK, TypeOK, Flash
<1>2. CASE pc = "erase"
  <2>1. op.kind = "erase" /\ ErasedPages = {write.page} /\ write.page \in Page
    BY <1>2, OpTypes, ErasedPagesIsTarget DEF DriverInv, DriverTypeOK, TypeOK, Writing
  <2>2. flash' = [flash EXCEPT ![write.page] = ErasedPage]
    BY <1>1, <2>1 DEF Complete, Flash
  <2>3. ErasedPage \in PageImage
    BY DEF ErasedPage, PageImage, Cell
  <2>4. flash' \in Flash
    <3>1. [flash EXCEPT ![write.page] = ErasedPage] \in Flash
      BY <1>1, <2>1, <2>3, PageUpdateType
    <3> QED
      BY <2>2, <3>1
  <2> QED
    BY <1>2, <2>2, <2>4
<1>3. CASE pc = "program"
  <2>1. /\ op.kind = "program" /\ op.page = write.page /\ op.dword = write.next
        /\ op.data = write.data /\ flash[write.page][write.next] = Erased
        /\ write.page \in Page /\ write.next \in Dword /\ write.data \in Metadata
    BY <1>3, OpTypes DEF DriverInv, DriverTypeOK, TypeOK, Writing, OpInv
  <2>2. flash' = [flash EXCEPT ![write.page][write.next] = write.data]
    BY <2>1 DEF Complete
  <2> QED
    BY <1>1, <1>3, <2>1, <2>2 DEF Flash, PageImage, Cell
<1> QED
  BY <1>2, <1>3, OpTypes

-----------------------------------------------------------------------------
(* The types                                                               *)

(* Steps that change nothing MetadataFixup knows of, and registers only    *)
RegisterStep ==
  \/ watchdog_start \/ watchdog_configure \/ watchdog_update \/ unlock_flash_keys
  \/ erase_page_start \/ write_dwords_write \/ WatchdogUpdates

LEMMA VariablesType ==
  ASSUME DriverInv, [DriverNext]_dvars
  PROVE  TypeOK'
<1> USE DEF PcValues, BootWrites, OsPhases, SoftValues, Writing
<1>0. TypeOK /\ flash \in Flash
  BY DEF DriverInv, DriverTypeOK, TypeOK, Flash
<1>1. CASE RegisterStep \/ UNCHANGED dvars
  <2>1. UNCHANGED vars
    BY <1>1 DEF RegisterStep, watchdog_start, watchdog_configure, watchdog_update,
       unlock_flash_keys, erase_page_start, write_dwords_write, WatchdogUpdates, dvars, vars
  <2> QED
    BY <1>0, <2>1 DEF TypeOK, vars
<1>2. CASE CallFree \/ DriverOs \/ lock_flash
  <2>1. Next
    BY <1>2 DEF CallFree, DriverOs, lock_flash, Next, Boot
  <2> QED
    BY <1>0, <2>1, TypeStep
<1>3. CASE unlock_flash_check
  BY <1>0, <1>3 DEF unlock_flash_check, FixupFailed, TypeOK
<1>4. CASE erase_page_select
  BY <1>0, <1>4 DEF erase_page_select, FixupFailed, TypeOK
<1>5. CASE erase_page_result
  BY <1>0, <1>5 DEF erase_page_result, FixupFailed, TypeOK
<1>6. CASE write_dwords_begin
  BY <1>0, <1>6 DEF write_dwords_begin, FixupFailed, TypeOK
<1>7. CASE write_dwords_next
  <2>1. UNCHANGED <<flash, metadata, soft>> /\ pc = "program"
    BY <1>7 DEF write_dwords_next
  <2>2. CASE FixupFailed
    BY <1>0, <2>1, <2>2 DEF FixupFailed, TypeOK
  <2>3. CASE AdvanceLoop("lock") /\ UNCHANGED fix_result
    BY <1>0, <2>1, <2>3, LoopType DEF TypeOK
  <2> QED
    BY <1>7, <2>2, <2>3 DEF write_dwords_next
<1>8. CASE OperationEnds
  <2>1. UNCHANGED <<pc, metadata, write, fix_result, soft>>
    BY <1>8 DEF OperationEnds
  <2>2. flash' \in Flash
    BY <1>8, HalfwayEffect, CompleteEffect DEF OperationEnds
  <2> QED
    BY <1>0, <2>1, <2>2 DEF TypeOK, Flash
<1>9. CASE DriverReset
  <2>1. flash' \in InterruptedFlash
    BY <1>9, HalfwayEffect DEF DriverReset
  <2>2. Reset
    BY <1>9, <2>1 DEF DriverReset, Reset
  <2> QED
    BY <1>0, <2>2, TypeStep DEF Next
<1> QED
  BY <1>1, <1>2, <1>3, <1>4, <1>5, <1>6, <1>7, <1>8, <1>9
     DEF DriverNext, DriverBoot, DriverCalls, RegisterStep, Bite, Panic

ControlRegister ==
  [lock : BOOLEAN, pg : BOOLEAN, per : BOOLEAN, selection : [bker : BOOLEAN, pnb : 0 .. 255]]

(* Whatever the driver writes to FLASH_CR, the register keeps its fields.  *)
LEMMA ModifyCrType ==
  ASSUME NEW r \in ControlRegister, NEW b \in BOOLEAN
  PROVE  /\ [r EXCEPT !.lock = b] \in ControlRegister
         /\ [r EXCEPT !.pg = b] \in ControlRegister
         /\ [r EXCEPT !.per = b] \in ControlRegister
  BY DEF ControlRegister

LEMMA SelectType ==
  ASSUME NEW r \in ControlRegister, NEW s \in [bker : BOOLEAN, pnb : 0 .. 255]
  PROVE  [r EXCEPT !.per = TRUE, !.selection = s] \in ControlRegister
<1> DEFINE Selections == [bker : BOOLEAN, pnb : 0 .. 255]
<1>1. r \in [lock : BOOLEAN, pg : BOOLEAN, per : BOOLEAN, selection : Selections] /\ s \in Selections
  BY DEF ControlRegister
<1>2. ControlRegister = [lock : BOOLEAN, pg : BOOLEAN, per : BOOLEAN, selection : Selections]
  BY DEF ControlRegister
<1> HIDE DEF Selections
<1> QED
  BY <1>1, <1>2

LEMMA RegistersType ==
  ASSUME DriverInv, [DriverNext]_dvars
  PROVE  /\ at' \in {"call", "configure", "update", "run", "check", "start", "busy"}
         /\ cr' \in ControlRegister
         /\ sr' \subseteq StatusRegister
         /\ missed' \in BOOLEAN
         /\ chip' \in [dualbank : BOOLEAN, write_one_clears : BOOLEAN]
<1>0. DriverTypeOK
  BY DEF DriverInv
<1>r. cr \in ControlRegister
  BY <1>0 DEF DriverTypeOK, ControlRegister
<1> USE DEF DriverTypeOK, StatusRegister, ProgrammingFlags, StatusFlags
<1>1. CASE watchdog_start \/ watchdog_configure \/ watchdog_update \/ CallFree \/ WatchdogUpdates
             \/ DriverOs \/ UNCHANGED dvars
  <2>1. UNCHANGED <<cr, sr, missed, chip>>
    BY <1>1 DEF watchdog_start, watchdog_configure, watchdog_update, CallFree,
       WatchdogUpdates, DriverOs, driver, dvars
  <2>2. at' \in {at, "configure", "update", "run", "call"}
    BY <1>1 DEF watchdog_start, watchdog_configure, watchdog_update, CallFree,
       WatchdogUpdates, DriverOs, driver, dvars
  <2>3. cr' \in ControlRegister /\ sr' \subseteq StatusRegister
    BY <1>0, <1>r, <2>1
  <2>4. missed' \in BOOLEAN /\ chip' \in [dualbank : BOOLEAN, write_one_clears : BOOLEAN]
    BY <1>0, <2>1
  <2>5. at' \in {"call", "configure", "update", "run", "check", "start", "busy"}
    BY <1>0, <2>2
  <2> QED
    BY <2>3, <2>4, <2>5
<1>2. CASE unlock_flash_keys \/ unlock_flash_check \/ lock_flash
  <2>1. \E lock \in BOOLEAN : cr' \in {cr, [cr EXCEPT !.lock = lock]}
    BY <1>2 DEF unlock_flash_keys, unlock_flash_check, lock_flash, ModifyCr
  <2>2. UNCHANGED <<sr, missed, chip>> /\ at' \in {"check", "call"}
    BY <1>2 DEF unlock_flash_keys, unlock_flash_check, lock_flash
  <2>3. cr' \in ControlRegister
    BY <1>r, <2>1, ModifyCrType
  <2> QED
    BY <1>0, <2>2, <2>3
<1>3. CASE erase_page_select
  <2>1. write.page \in Page /\ chip.dualbank \in BOOLEAN
    BY <1>0, <1>3 DEF erase_page_select, TypeOK, Writing
  <2>2. TargetSelection(write.page, chip.dualbank) \in [bker : BOOLEAN, pnb : 0 .. 255]
    BY <2>1, TargetStarts
  <2>3. cr' \in {cr, [cr EXCEPT !.per = TRUE, !.selection = TargetSelection(write.page, chip.dualbank)]}
    BY <1>3, Zenon DEF erase_page_select, ModifyCr, TargetSelection
  <2>4. cr' \in ControlRegister
    <3> DEFINE target == TargetSelection(write.page, chip.dualbank)
    <3>1. target \in [bker : BOOLEAN, pnb : 0 .. 255]
      BY <2>2
    <3>2. cr' \in {cr, [cr EXCEPT !.per = TRUE, !.selection = target]}
      BY <2>3
    <3> HIDE DEF target
    <3>3. [cr EXCEPT !.per = TRUE, !.selection = target] \in ControlRegister
      BY <1>r, <3>1, SelectType
    <3> QED
      BY <1>r, <3>2, <3>3
  <2>5. at' \in {"call", "start"} /\ UNCHANGED <<missed, chip>>
        /\ sr' \in {sr, clear_programming_flags}
    BY <1>3 DEF erase_page_select
  <2>6. clear_programming_flags \subseteq sr
    BY DEF clear_programming_flags, WriteSr
  <2>7. sr' \subseteq StatusRegister
    BY <1>0, <2>5, <2>6
  <2>8. missed' \in BOOLEAN /\ chip' \in [dualbank : BOOLEAN, write_one_clears : BOOLEAN]
    BY <1>0, <2>5
  <2> QED
    BY <2>4, <2>5, <2>7, <2>8
<1>4. CASE erase_page_result
  <2>1. cr' \in {cr, [cr EXCEPT !.per = FALSE]} /\ at' = "call" /\ UNCHANGED <<sr, missed, chip>>
    BY <1>4 DEF erase_page_result, ModifyCr
  <2>2. cr' \in ControlRegister
    BY <1>r, <2>1, ModifyCrType
  <2> QED
    BY <1>0, <2>1, <2>2
<1>5. CASE write_dwords_begin
  <2>1. cr' \in {cr, [cr EXCEPT !.pg = TRUE]} /\ at' \in {"call", "start"}
    BY <1>5 DEF write_dwords_begin, ModifyCr
  <2>2. UNCHANGED <<missed, chip>> /\ sr' \in {sr, clear_programming_flags}
    BY <1>5 DEF write_dwords_begin
  <2> QED
    <3>1. clear_programming_flags \subseteq sr
      BY DEF clear_programming_flags, WriteSr
    <3>2. sr' \subseteq StatusRegister
      BY <1>0, <2>2, <3>1
    <3>3. cr' \in ControlRegister
      BY <1>r, <2>1, ModifyCrType
    <3>4. missed' \in BOOLEAN /\ chip' \in [dualbank : BOOLEAN, write_one_clears : BOOLEAN]
      BY <1>0, <2>2
    <3> QED
      BY <2>1, <3>2, <3>3, <3>4
<1>6. CASE erase_page_start \/ write_dwords_write
  BY <1>0, <1>r, <1>6 DEF erase_page_start, write_dwords_write, Launch
<1>7. CASE write_dwords_next
  <2>1. \E pg \in BOOLEAN : cr' \in {cr, [cr EXCEPT !.pg = pg]}
    BY <1>7 DEF write_dwords_next, ModifyCr
  <2>2. UNCHANGED <<missed, chip>> /\ sr' \in {sr, clear_eop} /\ at' \in {"call", "start"}
    BY <1>7 DEF write_dwords_next
  <2>3. cr' \in ControlRegister
    BY <1>r, <2>1, ModifyCrType
  <2> QED
    BY <1>0, <2>2, <2>3 DEF clear_eop, WriteSr
<1>8. CASE OperationEnds
  BY <1>0, <1>r, <1>8, ErrorsAssumption DEF OperationEnds
<1>9. CASE DriverReset
  <2>1. 0 \in 0 .. 255
    BY SMT
  <2> QED
    BY <1>0, <1>9, <2>1 DEF DriverReset, ResetCr, ControlRegister
<1> QED
  BY <1>1, <1>2, <1>3, <1>4, <1>5, <1>6, <1>7, <1>8, <1>9 DEF DriverNext, DriverBoot, DriverCalls, Bite, Panic

LEMMA WatchdogType ==
  ASSUME DriverInv, [DriverNext]_dvars
  PROVE  wd' \in Watchdogs
<1>0. wd \in Watchdogs
  BY DEF DriverInv, DriverTypeOK
<1> USE DEF Watchdogs
<1>1. CASE watchdog_start
  BY <1>0, <1>1 DEF watchdog_start, key_start
<1>2. CASE watchdog_configure
  BY <1>0, <1>2 DEF watchdog_configure, key_enable, write_pr, write_rlr
<1>3. CASE watchdog_update
  BY <1>0, <1>3 DEF watchdog_update, feed
<1>4. CASE WatchdogUpdates
  BY <1>0, <1>4 DEF WatchdogUpdates, Updated
<1>5. CASE DriverReset
  BY <1>5 DEF DriverReset, AfterReset
<1>6. CASE UNCHANGED wd
  BY <1>0, <1>6
<1> QED
  BY <1>1, <1>2, <1>3, <1>4, <1>5, <1>6 DEF DriverNext, DriverBoot, DriverCalls, CallFree, unlock_flash_keys,
     unlock_flash_check, erase_page_select, erase_page_start, erase_page_result,
     write_dwords_begin, write_dwords_write, write_dwords_next, lock_flash, OperationEnds,
     DriverOs, driver, dvars, Bite, Panic

-----------------------------------------------------------------------------
(* DriverInv is inductive                                                  *)

LEMMA PlaceStep ==
  ASSUME DriverInv, [DriverNext]_dvars
  PROVE  PlaceInv'
<1>0. PlaceInv
  BY DEF DriverInv
<1>1. CASE watchdog_start \/ watchdog_configure \/ watchdog_update
  BY <1>1 DEF watchdog_start, watchdog_configure, watchdog_update, vars, PlaceInv
<1>2. CASE CallFree \/ unlock_flash_check \/ erase_page_result \/ lock_flash \/ DriverReset
  <2>1. at' = "call"
    BY <1>2 DEF CallFree, unlock_flash_check, erase_page_result, lock_flash, DriverReset
  <2> QED
    BY <2>1 DEF PlaceInv
<1>3. CASE unlock_flash_keys \/ erase_page_start \/ write_dwords_write
  BY <1>3 DEF unlock_flash_keys, erase_page_start, write_dwords_write, vars, PlaceInv
<1>4. CASE erase_page_select \/ write_dwords_begin
  BY <1>4 DEF erase_page_select, write_dwords_begin, PlaceInv
<1>5. CASE write_dwords_next
  BY <1>5 DEF write_dwords_next, AdvanceLoop, PlaceInv
<1>6. CASE OperationEnds \/ WatchdogUpdates \/ UNCHANGED dvars
  BY <1>0, <1>6 DEF OperationEnds, WatchdogUpdates, dvars, vars, PlaceInv
<1>7. CASE DriverOs
  <2>1. at' = at /\ pc \in OsPhases /\ at = "call"
    BY <1>0, <1>7 DEF DriverOs, driver, OsRequestSoftReboot, OsUpdate, OsErase, OsProgram,
       OsPhases, PlaceInv, DriverInv, DriverTypeOK
  <2> QED
    BY <2>1 DEF PlaceInv
<1> QED
  BY <1>1, <1>2, <1>3, <1>4, <1>5, <1>6, <1>7 DEF DriverNext, DriverBoot, DriverCalls, Bite, Panic

LEMMA OpStep ==
  ASSUME DriverInv, [DriverNext]_dvars
  PROVE  op' \in Operations /\ OpInv'
<1>0. DriverTypeOK /\ PlaceInv /\ OpInv
  BY DEF DriverInv
<1>1. NoOp \in Operations /\ op \in Operations
  BY <1>0 DEF Operations, DriverTypeOK
<1>2. CASE op' = NoOp
  BY <1>1, <1>2 DEF OpInv
<1>3. CASE op = NoOp /\ UNCHANGED op
  BY <1>2, <1>3
<1>4. CASE \/ watchdog_start \/ watchdog_configure \/ watchdog_update \/ CallFree
           \/ unlock_flash_keys \/ unlock_flash_check \/ lock_flash \/ DriverOs
  <2>1. at # "busy"
    BY <1>0, <1>4 DEF watchdog_start, watchdog_configure, watchdog_update, CallFree, is_soft,
       select_metadata, StartOs, unlock_flash_keys, unlock_flash_check, lock_flash,
       write_metadata_return, DriverOs, OsRequestSoftReboot, OsUpdate, OsErase, OsProgram,
       PlaceInv
  <2>2. UNCHANGED op
    BY <1>4 DEF watchdog_start, watchdog_configure, watchdog_update, CallFree,
       unlock_flash_keys, unlock_flash_check, lock_flash, DriverOs, driver
  <2> QED
    BY <1>0, <1>3, <2>1, <2>2 DEF OpInv
<1>5. CASE erase_page_select \/ erase_page_result \/ write_dwords_begin \/ write_dwords_next
  BY <1>3, <1>5 DEF erase_page_select, erase_page_result, write_dwords_begin,
     write_dwords_next, wait
<1>6. CASE OperationEnds \/ DriverReset
  BY <1>2, <1>6 DEF OperationEnds, DriverReset
<1>7. CASE WatchdogUpdates \/ UNCHANGED dvars
  <2>1. UNCHANGED <<flash, pc, write, at, sr, op, chip>>
    BY <1>7 DEF WatchdogUpdates, dvars, vars
  <2> QED
    BY <1>0, <1>1, <2>1 DEF OpInv, EraseOp, ProgramOp
<1>8. CASE erase_page_start
  <2>1. /\ UNCHANGED <<flash, pc, write, chip>> /\ pc = "erase" /\ at' = "busy"
        /\ op = NoOp
    BY <1>0, <1>8 DEF erase_page_start, vars, OpInv
  <2>2. write.page \in Page /\ chip.dualbank \in BOOLEAN
    BY <1>0, <2>1 DEF DriverTypeOK, TypeOK, Writing
  <2>3. cr.selection = TargetSelection(write.page, chip.dualbank)
    BY <1>8 DEF erase_page_start, DriverInv, CrInv
  <2>4. \/ UNCHANGED op
        \/ op' = EraseOp /\ UNCHANGED sr /\ sr \cap ProgrammingFlags = {}
    BY <1>8, <2>3 DEF erase_page_start, Launch, EraseOp, Target
  <2>5. EraseOp \in Operations
    BY <2>2, TargetStarts DEF EraseOp, Operations
  <2> QED
    BY <1>3, <2>1, <2>4, <2>5 DEF OpInv, EraseOp
<1>9. CASE write_dwords_write
  <2>1. /\ UNCHANGED <<flash, pc, write, chip>> /\ pc = "program" /\ at' = "busy"
        /\ op = NoOp
    BY <1>0, <1>9 DEF write_dwords_write, vars, OpInv
  <2>2. \/ UNCHANGED op
        \/ /\ op' = ProgramOp /\ UNCHANGED sr /\ sr \cap ProgrammingFlags = {}
           /\ flash[write.page][write.next] = Erased
    BY <1>9 DEF write_dwords_write, Launch, ProgramOp
  <2>3. ProgramOp \in Operations
    BY <1>0, <2>1 DEF ProgramOp, Operations, DriverTypeOK, TypeOK, Writing
  <2> QED
    BY <1>3, <2>1, <2>2, <2>3 DEF OpInv, ProgramOp
<1> QED
  BY <1>4, <1>5, <1>6, <1>7, <1>8, <1>9 DEF DriverNext, DriverBoot, DriverCalls, Bite, Panic

LEMMA CrStep ==
  ASSUME DriverInv, [DriverNext]_dvars
  PROVE  CrInv'
<1>0. DriverTypeOK /\ PlaceInv /\ CrInv
  BY DEF DriverInv
<1>1. CASE pc' \notin {"erase", "program", "lock"}
  BY <1>1 DEF CrInv
<1>2. CASE watchdog_start \/ watchdog_configure \/ watchdog_update \/ CallFree
             \/ unlock_flash_keys \/ DriverOs \/ lock_flash \/ DriverReset
  BY <1>1, <1>2 DEF watchdog_start, watchdog_configure, watchdog_update, CallFree, is_soft,
     select_metadata, StartOs, unlock_flash_keys, DriverOs, OsRequestSoftReboot, OsUpdate,
     OsErase, OsProgram, OsGivesUp, AdvanceLoop, lock_flash, write_metadata_return,
     DriverReset, vars
<1>3. CASE unlock_flash_check
  BY <1>1, <1>3 DEF unlock_flash_check, FixupFailed, CrInv
<1>4. CASE erase_page_select
  <2>1. CASE FixupFailed
    BY <1>1, <2>1 DEF FixupFailed
  <2>2. CASE ~FixupFailed
    <3>1. /\ pc = "erase" /\ UNCHANGED <<pc, write, chip>>
          /\ cr' = [cr EXCEPT !.per = TRUE,
                              !.selection = TargetSelection(write.page, chip.dualbank)]
      BY <1>0, <1>4, <2>2 DEF erase_page_select, ModifyCr, CrInv, TargetSelection
    <3> QED
      BY <1>0, <3>1 DEF CrInv, DriverTypeOK
  <2> QED
    BY <2>1, <2>2
<1>5. CASE erase_page_result
  <2>1. CASE FixupFailed
    BY <1>1, <2>1 DEF FixupFailed
  <2>2. CASE ~FixupFailed
    <3>1. pc' = "program" /\ at' = "call" /\ cr' = [cr EXCEPT !.per = FALSE] /\ ~cr.lock
      BY <1>0, <1>5, <2>2 DEF erase_page_result, ModifyCr, CrInv
    <3> QED
      BY <1>0, <3>1 DEF CrInv, DriverTypeOK
  <2> QED
    BY <2>1, <2>2
<1>6. CASE write_dwords_begin
  <2>1. CASE FixupFailed
    BY <1>1, <2>1 DEF FixupFailed
  <2>2. CASE ~FixupFailed
    <3>1. pc' = "program" /\ pc = "program" /\ cr' = [cr EXCEPT !.pg = TRUE] /\ ~cr.lock
      BY <1>0, <1>6, <2>2 DEF write_dwords_begin, ModifyCr, CrInv
    <3> QED
      BY <1>0, <3>1 DEF CrInv, DriverTypeOK
  <2> QED
    BY <2>1, <2>2
<1>7. CASE write_dwords_next
  <2>1. CASE FixupFailed
    BY <1>1, <2>1 DEF FixupFailed
  <2>2. CASE ~FixupFailed
    <3>1. /\ pc = "program" /\ pc' \in {"program", "lock"} /\ ~cr.lock
          /\ cr' = [cr EXCEPT !.pg = pc' # "lock"]
      BY <1>0, <1>7, <2>2 DEF write_dwords_next, ModifyCr, AdvanceLoop, CrInv
    <3> QED
      BY <1>0, <3>1 DEF CrInv, DriverTypeOK
  <2> QED
    BY <2>1, <2>2
<1>8. CASE erase_page_start \/ write_dwords_write \/ OperationEnds \/ WatchdogUpdates
             \/ UNCHANGED dvars
  <2>1. UNCHANGED <<pc, write, cr, chip>>
    BY <1>8 DEF erase_page_start, write_dwords_write, OperationEnds, WatchdogUpdates, vars, dvars
  <2>2. at' \in {"start", "busy"} => at \in {"start", "busy"}
    BY <1>8 DEF erase_page_start, write_dwords_write, OperationEnds, WatchdogUpdates, dvars
  <2> QED
    BY <1>0, <2>1, <2>2 DEF CrInv
<1> QED
  BY <1>2, <1>3, <1>4, <1>5, <1>6, <1>7, <1>8 DEF DriverNext, DriverBoot, DriverCalls, Bite, Panic

LEMMA FlagStep ==
  ASSUME DriverInv, [DriverNext]_dvars
  PROVE  FlagInv'
<1>0. PlaceInv /\ OpInv /\ FlagInv
  BY DEF DriverInv
<1>1. CASE UNCHANGED <<sr, missed>> /\ (at' = "start" => at = "start")
  BY <1>0, <1>1 DEF FlagInv, status
<1>2. CASE \/ watchdog_start \/ watchdog_configure \/ watchdog_update \/ CallFree
           \/ unlock_flash_keys \/ unlock_flash_check \/ erase_page_result \/ lock_flash
           \/ WatchdogUpdates \/ DriverOs \/ UNCHANGED dvars
  BY <1>1, <1>2 DEF watchdog_start, watchdog_configure, watchdog_update, CallFree,
     unlock_flash_keys, unlock_flash_check, erase_page_result, lock_flash, WatchdogUpdates,
     DriverOs, driver, dvars
<1>3. CASE erase_page_select \/ write_dwords_begin \/ write_dwords_next
  <2>1. CASE status = "Err"
    BY <1>1, <1>3, <2>1 DEF erase_page_select, write_dwords_begin, write_dwords_next
  <2>2. CASE status # "Err"
    <3>1. sr' \subseteq sr /\ UNCHANGED missed
      BY <1>3, <2>2 DEF erase_page_select, write_dwords_begin, write_dwords_next,
         clear_programming_flags, clear_eop, WriteSr
    <3>2. sr \cap StatusFlags = {} /\ (missed \/ sr \cap ProgrammingFlags = {})
      BY <1>0, <2>2 DEF FlagInv, status
    <3>3. sr' \cap StatusFlags = {} /\ (missed' \/ sr' \cap ProgrammingFlags = {})
      BY <3>1, <3>2
    <3> QED
      BY <3>3 DEF FlagInv, status
  <2> QED
    BY <2>1, <2>2
<1>4. CASE erase_page_start \/ write_dwords_write
  <2>1. at' = "busy"
    BY <1>4 DEF erase_page_start, write_dwords_write
  <2>2. \/ UNCHANGED <<sr, missed>>
        \/ missed' = TRUE
        \/ sr' = sr \cup {"progerr"}
    BY <1>4 DEF erase_page_start, write_dwords_write, Launch
  <2>3. sr' = sr \cup {"progerr"} => sr' \cap StatusFlags # {}
    BY DEF StatusFlags
  <2> QED
    BY <1>1, <2>1, <2>2, <2>3 DEF FlagInv, status
<1>5. CASE OperationEnds
  <2>1. at' = "busy" /\ sr \cap ProgrammingFlags = {}
    BY <1>0, <1>5 DEF OperationEnds, OpInv
  <2>2. CASE sr' \in {sr, sr \cup {"eop"}}
    <3>1. sr' \cap ProgrammingFlags = {}
      BY <2>1, <2>2 DEF ProgrammingFlags, StatusFlags
    <3> QED
      BY <2>1, <3>1 DEF FlagInv
  <2>3. CASE \E error \in OperationErrors :
                /\ sr' = sr \cup {error}
                /\ missed' = (missed \/ error \notin StatusFlags)
    BY <2>1, <2>3 DEF FlagInv, status
  <2> QED
    BY <1>5, <2>2, <2>3 DEF OperationEnds
<1>6. CASE DriverReset
  BY <1>6 DEF DriverReset, FlagInv
<1> QED
  BY <1>2, <1>3, <1>4, <1>5, <1>6 DEF DriverNext, DriverBoot, DriverCalls, Bite, Panic

LEMMA WatchdogStep ==
  ASSUME DriverInv, [DriverNext]_dvars
  PROVE  WatchdogInv'
<1>0. wd \in Watchdogs /\ PlaceInv /\ WatchdogInv
  BY DEF DriverInv, DriverTypeOK
<1> USE DEF Watchdogs
<1>1. CASE watchdog_start
  BY <1>0, <1>1 DEF watchdog_start, key_start, vars, WatchdogInv, WatchdogArmed
<1>2. CASE watchdog_configure
  BY <1>0, <1>2 DEF watchdog_configure, key_enable, write_pr, write_rlr, vars, WatchdogInv,
     WatchdogArmed
<1>3. CASE watchdog_update
  BY <1>0, <1>3 DEF watchdog_update, feed, Armed, vars, WatchdogInv, WatchdogArmed
<1>4. CASE WatchdogUpdates
  BY <1>0, <1>4 DEF WatchdogUpdates, Updated, Armed, vars, WatchdogInv, WatchdogArmed
<1>5. CASE DriverReset
  BY <1>5 DEF DriverReset, WatchdogInv, WatchdogArmed
<1>6. CASE /\ UNCHANGED wd
           /\ at' \in {"configure", "update"} => at' = at
           /\ pc' # "reset" \/ at' = "run" => pc # "reset" \/ at = "run"
  BY <1>0, <1>6 DEF WatchdogInv, WatchdogArmed, Armed
<1>7. CASE CallFree \/ unlock_flash_keys \/ unlock_flash_check \/ lock_flash
  <2>1. UNCHANGED wd /\ at' \in {"call", "check"} /\ (pc = "reset" => at = "run")
    BY <1>7 DEF CallFree, is_soft, select_metadata, StartOs, unlock_flash_keys,
       unlock_flash_check, lock_flash, write_metadata_return
  <2> QED
    BY <1>6, <2>1
<1>8. CASE \/ erase_page_select \/ erase_page_start \/ erase_page_result \/ write_dwords_begin
           \/ write_dwords_write \/ write_dwords_next
  <2>1. UNCHANGED wd /\ pc \in {"erase", "program"}
    BY <1>8 DEF erase_page_select, erase_page_start, erase_page_result, write_dwords_begin,
       write_dwords_write, write_dwords_next
  <2>2. at' \in {"call", "start", "busy"}
    BY <1>8 DEF erase_page_select, erase_page_start, erase_page_result, write_dwords_begin,
       write_dwords_write, write_dwords_next
  <2> QED
    BY <1>6, <2>1, <2>2
<1>9. CASE OperationEnds \/ UNCHANGED dvars
  BY <1>6, <1>9 DEF OperationEnds, dvars
<1>10. CASE DriverOs
  BY <1>6, <1>10 DEF DriverOs, driver, OsRequestSoftReboot, OsUpdate, OsErase, OsProgram
<1> QED
  BY <1>1, <1>2, <1>3, <1>4, <1>5, <1>7, <1>8, <1>9, <1>10 DEF DriverNext, DriverBoot, DriverCalls, Bite, Panic

LEMMA DriverInvStarts == DriverInit => DriverInv
<1> SUFFICES ASSUME DriverInit PROVE DriverInv
  OBVIOUS
<1> USE DEF DriverInit
<1>1. TypeOK
  BY DEF Init, TypeOK, PcValues, SoftValues, Writing
<1>2. 0 \in 0 .. 255
  BY SMT
<1>3. cr \in [lock : BOOLEAN, pg : BOOLEAN, per : BOOLEAN,
              selection : [bker : BOOLEAN, pnb : 0 .. 255]]
  BY <1>2 DEF ResetCr
<1>4. wd \in Watchdogs /\ op \in Operations
  BY DEF Watchdogs, AfterReset, Operations
<1>5. pc = "reset"
  BY DEF Init
<1> QED
  BY <1>1, <1>3, <1>4, <1>5 DEF DriverInv, DriverTypeOK, PlaceInv, OpInv, CrInv, FlagInv,
     WatchdogInv, WatchdogArmed, StatusRegister

LEMMA DriverInvStep ==
  ASSUME DriverInv, [DriverNext]_dvars
  PROVE  DriverInv'
<1>1. DriverTypeOK'
  BY VariablesType, RegistersType, WatchdogType, OpStep DEF DriverTypeOK, ControlRegister
<1> QED
  BY <1>1, PlaceStep, OpStep, CrStep, FlagStep, WatchdogStep DEF DriverInv

LEMMA DriverInvariant == DriverSpec => []DriverInv
<1>1. DriverInv /\ [DriverNext]_dvars => DriverInv'
  BY DriverInvStep
<1> QED
  BY <1>1, DriverInvStarts, PTL DEF DriverSpec

-----------------------------------------------------------------------------
(* The types of the registers (flash.rs, watchdog.rs)                      *)
THEOREM DriverTypeCorrect == DriverSpec => []DriverTypeOK
<1>1. DriverInv => DriverTypeOK
  BY DEF DriverInv
<1> QED
  BY <1>1, DriverInvariant, PTL

(* CR is locked until unlock_flash gives its keys. *)
LockInv == pc \in {"reset", "select"} \/ (pc = "unlock" /\ at = "call") => cr.lock

LEMMA LockStep ==
  ASSUME LockInv, [DriverNext]_dvars
  PROVE  LockInv'
<1>1. CASE watchdog_start \/ watchdog_configure \/ watchdog_update
  BY <1>1 DEF watchdog_start, watchdog_configure, watchdog_update, vars, LockInv
<1>2. CASE CallFree
  BY <1>2 DEF CallFree, is_soft, select_metadata, StartOs, LockInv
<1>3. CASE unlock_flash_keys \/ unlock_flash_check
  BY <1>3 DEF unlock_flash_keys, unlock_flash_check, FixupFailed, vars, LockInv
<1>4. CASE erase_page_select \/ erase_page_start \/ erase_page_result
  BY <1>4 DEF erase_page_select, erase_page_start, erase_page_result, FixupFailed, vars, LockInv
<1>5. CASE write_dwords_begin \/ write_dwords_write \/ write_dwords_next \/ lock_flash
  BY <1>5 DEF write_dwords_begin, write_dwords_write, write_dwords_next, AdvanceLoop, FixupFailed,
     lock_flash, write_metadata_return, vars, LockInv
<1>6. CASE OperationEnds \/ WatchdogUpdates \/ UNCHANGED dvars
  BY <1>6 DEF OperationEnds, WatchdogUpdates, vars, dvars, LockInv
<1>7. CASE DriverReset
  BY <1>7 DEF DriverReset, ResetCr, LockInv
<1>8. CASE DriverOs
  BY <1>8 DEF DriverOs, driver, OsRequestSoftReboot, OsUpdate, OsErase, OsProgram, OsGivesUp,
     AdvanceLoop, LockInv
<1> QED
  BY <1>1, <1>2, <1>3, <1>4, <1>5, <1>6, <1>7, <1>8
    DEF DriverNext, DriverBoot, DriverCalls, Bite, Panic

LeftOpen == [][~cr.lock /\ pc' # "reset" => ~cr'.lock]_dvars

(* lock_flash does not lock: once unlock_flash has opened CR, no step of   *)
(* the repair, of its return and of the OS started after it closes it      *)
(* again, and only a reset does (lock_flash writes 0 to LOCK).             *)
THEOREM OnlyResetLocks == DriverSpec => LeftOpen
<1>1. DriverInit => LockInv
  BY DEF DriverInit, ResetCr, LockInv
<1>2. LockInv /\ [DriverNext]_dvars => LockInv'
  BY LockStep
<1>3. ASSUME LockInv, DriverNext, ~cr.lock, pc' # "reset", DriverTypeOK PROVE ~cr'.lock
  <2>1. CASE erase_page_select \/ erase_page_start \/ erase_page_result
    BY <1>3, <2>1 DEF erase_page_select, erase_page_start, erase_page_result, ModifyCr, DriverTypeOK
  <2>2. CASE write_dwords_begin \/ write_dwords_write \/ write_dwords_next
    BY <1>3, <2>2 DEF write_dwords_begin, write_dwords_write, write_dwords_next, ModifyCr,
       DriverTypeOK
  <2>3. CASE lock_flash
    BY <1>3, <2>3 DEF lock_flash, ModifyCr, DriverTypeOK
  <2>4. CASE unlock_flash_keys
    BY <1>3, <2>4 DEF unlock_flash_keys, LockInv
  <2>5. CASE \/ watchdog_start \/ watchdog_configure \/ watchdog_update \/ CallFree
             \/ unlock_flash_check \/ OperationEnds \/ WatchdogUpdates \/ DriverOs
    BY <1>3, <2>5 DEF watchdog_start, watchdog_configure, watchdog_update, CallFree,
       unlock_flash_check, OperationEnds, WatchdogUpdates, DriverOs, driver
  <2>6. ~DriverReset
    BY <1>3 DEF DriverReset
  <2> QED
    BY <1>3, <2>1, <2>2, <2>3, <2>4, <2>5, <2>6 DEF DriverNext, DriverBoot, DriverCalls, Bite, Panic
<1>4. LockInv /\ DriverTypeOK /\ [DriverNext]_dvars
        => [~cr.lock /\ pc' # "reset" => ~cr'.lock]_dvars
  BY <1>3
<1> QED
  BY <1>1, <1>2, <1>4, DriverTypeCorrect, PTL DEF DriverSpec, LeftOpen

(* In both bank modes erase_page erases the block that write_metadata      *)
(* passes to it, all of it, and nothing outside the space kept for it.     *)
THEOREM EraseOnTarget == DriverSpec => []EraseHitsTarget
<1>1. DriverInv => EraseHitsTarget
  <2> SUFFICES ASSUME DriverInv, op.kind = "erase" PROVE EraseHitsTarget
    BY DEF EraseHitsTarget
  <2>1. op # NoOp /\ pc \in {"erase", "program"} /\ pc # "program"
    <3>1. NoOp.kind = "none"
      BY DEF NoOp
    <3> QED
      BY <3>1, OpTypes
  <2>2. op.from = Target(write.page, chip.dualbank)
    BY <2>1, OpTypes
  <2>3. write.page \in Page /\ chip.dualbank \in BOOLEAN
    BY <2>1 DEF DriverInv, DriverTypeOK, TypeOK, Writing
  <2>4. op.from = METADATA_ADDR(write.page) /\ METADATA_ADDR(write.page) \in Nat
    BY <2>2, <2>3, TargetStarts
  <2>5. page_size(chip.dualbank) \in {4096, 8192}
    BY <2>3, PageSizes
  <2> QED
    BY <2>4, <2>5, Addresses, SMT DEF EraseHitsTarget, METADATA_SIZE
<1> QED
  BY <1>1, DriverInvariant, PTL

(* Whatever the flash has failed with before, as long as status() saw it,  *)
(* erase_page and write_dwords start nothing that the controller refuses   *)
(* with PGSERR.                                                            *)
THEOREM AlwaysAccepted == DriverSpec => []OperationsAccepted
<1>1. DriverInv => OperationsAccepted
  <2> SUFFICES ASSUME DriverInv, at = "start" PROVE OperationsAccepted
    BY DEF OperationsAccepted
  <2>1. pc \in {"erase", "program"} /\ op = NoOp
    BY DEF DriverInv, PlaceInv, OpInv
  <2>2. ~cr.lock /\ IF pc = "erase" THEN cr.per ELSE cr.pg /\ ~cr.per
    BY <2>1 DEF DriverInv, CrInv
  <2>3. missed \/ sr \cap ProgrammingFlags = {}
    BY DEF DriverInv, FlagInv
  <2> QED
    BY <2>1, <2>2, <2>3 DEF OperationsAccepted
<1> QED
  BY <1>1, DriverInvariant, PTL

(* setup_and_start leaves the watchdog running, slow and protected before  *)
(* run() goes on, in whatever order PVU and RVU clear.                     *)
THEOREM AlwaysArmed == DriverSpec => []WatchdogArmed
<1>1. DriverInv => WatchdogArmed
  BY DEF DriverInv, WatchdogInv
<1> QED
  BY <1>1, DriverInvariant, PTL

-----------------------------------------------------------------------------
(* Where a repair stands, and what can be said of its page as long as no   *)
(* failure has gone unnoticed                                              *)
RepairInv ==
  /\ pc \in {"unlock", "erase", "program"} => Holds(flash[Other(write.page)], write.data)
  /\ pc \in {"unlock", "erase"} => write.next = 1
  /\ ~missed =>
       /\ pc = "program" =>
            /\ \A d \in Dword : d < write.next => flash[write.page][d] = write.data
            /\ Answered /\ status = "Ok" => flash[write.page][write.next] = write.data
       /\ pc = "lock" => Intact(flash)
       /\ pc = "boot" /\ fix_result = "Ok" => Intact(flash)

(* The end of an operation changes nothing but its own place. *)
LEMMA EndsFrame ==
  ASSUME DriverInv, OperationEnds
  PROVE  /\ pc \in {"erase", "program"}
         /\ flash'[Other(write.page)] = flash[Other(write.page)]
         /\ pc = "program" =>
              \A d \in Dword : d # write.next => flash'[write.page][d] = flash[write.page][d]
<1>1. pc \in {"erase", "program"} /\ op # NoOp
  BY OpTypes DEF OperationEnds
<1>2. flash \in Flash /\ write.page \in Page /\ write.next \in Dword
  BY <1>1 DEF DriverInv, DriverTypeOK, TypeOK, Flash, Writing
<1>3. Other(write.page) \in Page /\ Other(write.page) # write.page
  BY <1>2 DEF Page, Other, METADATA_1, METADATA_2
<1>4. CASE pc = "erase"
  <2>1. \E q : flash' = [flash EXCEPT ![write.page] = q]
    BY <1>1, <1>4, CompleteEffect, HalfwayEffect DEF OperationEnds, InterruptedFlash
  <2> QED
    BY <1>2, <1>3, <1>4, <2>1 DEF Flash
<1>5. CASE pc = "program"
  <2>1. \E cell : flash' = [flash EXCEPT ![write.page][write.next] = cell]
    BY <1>1, <1>5, CompleteEffect, HalfwayEffect DEF OperationEnds, InterruptedFlash
  <2> QED
    BY <1>2, <1>3, <1>5, <2>1 DEF Flash, PageImage
<1> QED
  BY <1>1, <1>4, <1>5

LEMMA RepairEnds ==
  ASSUME DriverInv, RepairInv, OperationEnds
  PROVE  RepairInv'
<1>1. /\ UNCHANGED <<pc, write, fix_result>> /\ pc \in {"erase", "program"}
      /\ flash'[Other(write.page)] = flash[Other(write.page)]
  BY EndsFrame DEF OperationEnds
<1>2. Holds(flash[Other(write.page)], write.data)'
  BY <1>1 DEF RepairInv, Holds
<1>3. pc = "erase" => write.next = 1
  BY DEF RepairInv
<1>4. ASSUME ~missed', pc = "program"
      PROVE  /\ \A d \in Dword : d < write.next => flash'[write.page][d] = write.data
             /\ status' = "Ok" => flash'[write.page][write.next] = write.data
  <2>1. ~missed
    BY <1>4 DEF OperationEnds
  <2>2. \A d \in Dword : d < write.next => flash'[write.page][d] = write.data
    <3>1. \A d \in Dword : d < write.next => d # write.next
      BY <1>4 DEF DriverInv, DriverTypeOK, TypeOK, Writing, Dword
    <3> QED
      BY <1>4, <2>1, <3>1, EndsFrame DEF RepairInv
  <2>3. CASE flash' = Complete
    <3>1. flash' = [flash EXCEPT ![write.page][write.next] = write.data]
      BY <1>4, <2>3, CompleteEffect DEF OperationEnds
    <3>2. flash \in Flash /\ write.page \in Page /\ write.next \in Dword
      BY <1>4 DEF DriverInv, DriverTypeOK, TypeOK, Flash, Writing
    <3> QED
      BY <2>2, <3>1, <3>2 DEF Flash, PageImage
  <2>4. CASE \E error \in OperationErrors :
               sr' = sr \cup {error} /\ missed' = (missed \/ error \notin StatusFlags)
    <3>1. PICK error \in OperationErrors :
            sr' = sr \cup {error} /\ missed' = (missed \/ error \notin StatusFlags)
      BY <2>4
    <3>2. error \in StatusFlags
      BY <1>4, <3>1
    <3>3. status' = "Err"
      BY <3>1, <3>2 DEF status
    <3> QED
      BY <2>2, <3>3
  <2> QED
    BY <2>3, <2>4 DEF OperationEnds
<1> QED
  BY <1>1, <1>2, <1>3, <1>4 DEF RepairInv

LEMMA RepairTurn ==
  ASSUME DriverInv, RepairInv, write_dwords_next
  PROVE  RepairInv'
<1>1. /\ pc = "program" /\ at = "busy" /\ op = NoOp /\ at' # "busy"
      /\ UNCHANGED <<flash, missed>>
  BY DEF write_dwords_next, wait
<1>2. /\ flash \in Flash /\ write.page \in Page /\ write.next \in Dword /\ write.data \in Metadata
      /\ write \in [page : Page, data : Metadata, next : Dword]
  BY <1>1 DEF DriverInv, DriverTypeOK, TypeOK, Flash, Writing
<1>3. Holds(flash[Other(write.page)], write.data)
  BY <1>1 DEF RepairInv
<1>4. CASE status = "Err"
  BY <1>1, <1>4 DEF write_dwords_next, FixupFailed, RepairInv
<1>5. CASE status = "Ok"
  <2>1. ~missed => \A d \in Dword : d <= write.next => flash[write.page][d] = write.data
    <3>1. ~missed => /\ \A d \in Dword : d < write.next => flash[write.page][d] = write.data
                     /\ flash[write.page][write.next] = write.data
      BY <1>1, <1>5 DEF RepairInv, Answered
    <3>2. \A d \in Dword : d <= write.next => d < write.next \/ d = write.next
      BY <1>2, DwordsAssumption DEF Dword
    <3> QED
      BY <3>1, <3>2
  <2>2. AdvanceLoop("lock")
    BY <1>5 DEF write_dwords_next
  <2>3. CASE write.next = Dwords
    <3>1. pc' = "lock"
      BY <2>2, <2>3 DEF AdvanceLoop
    <3>2. ~missed => Holds(flash[write.page], write.data)
      BY <2>1, <2>3, DwordsAssumption DEF Holds, Dword
    <3>3. ~missed => Intact(flash)
      BY <1>2, <1>3, <3>2, SameBlockIntact
    <3>4. Intact(flash) => Intact(flash)'
      BY <1>1 DEF Intact
    <3> QED
      BY <1>1, <3>1, <3>3, <3>4 DEF RepairInv
  <2>4. CASE write.next # Dwords
    <3>1. pc' = "program" /\ write' = [write EXCEPT !.next = write.next + 1]
      BY <1>1, <2>2, <2>4 DEF AdvanceLoop
    <3>2. write'.page = write.page /\ write'.data = write.data /\ write'.next = write.next + 1
      BY <1>2, <3>1
    <3>3. \A d \in Dword : d < write.next + 1 => d <= write.next
      BY <1>2, DwordsAssumption DEF Dword
    <3>4. Holds(flash[Other(write.page)], write.data)'
      BY <1>1, <1>3, <3>2 DEF Holds
    <3> QED
      BY <1>1, <2>1, <3>1, <3>2, <3>3, <3>4 DEF RepairInv, Answered
  <2> QED
    BY <2>3, <2>4
<1> QED
  BY <1>4, <1>5 DEF status

LEMMA RepairStep ==
  ASSUME DriverInv, RepairInv, [DriverNext]_dvars
  PROVE  RepairInv'
<1>0. PlaceInv /\ flash \in Flash
  BY DEF DriverInv, DriverTypeOK, TypeOK, Flash
<1>1. CASE pc' \notin {"unlock", "erase", "program", "lock", "boot"}
  BY <1>1 DEF RepairInv
<1>2. CASE pc' = "boot" /\ fix_result' # "Ok"
  BY <1>2 DEF RepairInv
<1>3. CASE UNCHANGED <<flash, pc, write, fix_result, missed>> /\ ~Answered'
  BY <1>3 DEF RepairInv, Holds, Intact
<1>4. CASE \/ watchdog_start \/ watchdog_configure \/ watchdog_update \/ DriverReset
           \/ (at = "run" /\ is_soft /\ CallFree)
           \/ StartOs \/ DriverOs
  <2>1. pc' \notin {"unlock", "erase", "program", "lock", "boot"}
    BY <1>4 DEF watchdog_start, watchdog_configure, watchdog_update, vars, DriverReset, is_soft,
       StartOs, DriverOs, OsRequestSoftReboot, OsUpdate, OsErase, OsProgram, OsGivesUp, AdvanceLoop
  <2> QED
    BY <1>1, <2>1
<1>5. CASE CallFree /\ select_metadata
  <2>1. /\ Select(flash).write_addr # NoPage =>
             Holds(flash[Other(Select(flash).write_addr)], Select(flash).meta)
        /\ Select(flash).meta # NoMeta => (Select(flash).write_addr = NoPage <=> Intact(flash))
    BY <1>0, SelectNewest
  <2>2. UNCHANGED <<flash, missed>> /\ ~Answered'
    BY <1>5 DEF CallFree, select_metadata, Answered
  <2> QED
    BY <1>5, <2>1, <2>2 DEF select_metadata, RepairInv, Intact
<1>6. CASE unlock_flash_keys
  BY <1>3, <1>6 DEF unlock_flash_keys, vars, Answered
<1>7. CASE unlock_flash_check
  <2>1. UNCHANGED <<flash, missed>> /\ pc = "unlock"
    BY <1>7 DEF unlock_flash_check
  <2>2. CASE FixupFailed
    BY <1>2, <2>2 DEF FixupFailed
  <2>3. CASE pc' = "erase" /\ UNCHANGED write
    BY <2>1, <2>3 DEF RepairInv, Holds
  <2> QED
    BY <1>7, <2>2, <2>3 DEF unlock_flash_check
<1>8. CASE erase_page_select \/ write_dwords_begin
  <2>1. CASE FixupFailed
    BY <1>2, <2>1 DEF FixupFailed
  <2>2. CASE UNCHANGED <<flash, pc, write, fix_result, missed>> /\ at' = "start"
    BY <1>3, <2>2 DEF Answered
  <2> QED
    BY <1>8, <2>1, <2>2 DEF erase_page_select, write_dwords_begin
<1>9. CASE erase_page_start
  <2>1. UNCHANGED <<flash, pc, write, fix_result>> /\ pc = "erase"
    BY <1>9 DEF erase_page_start, vars
  <2> QED
    BY <2>1 DEF RepairInv, Holds
<1>10. CASE erase_page_result
  <2>1. UNCHANGED <<flash, missed>> /\ pc = "erase" /\ at' = "call"
    BY <1>10 DEF erase_page_result
  <2>2. CASE FixupFailed
    BY <1>2, <2>2 DEF FixupFailed
  <2>3. CASE pc' = "program" /\ UNCHANGED write
    <3>1. \A d \in Dword : ~(d < 1)
      BY DEF Dword
    <3> QED
      BY <2>1, <2>3, <3>1 DEF RepairInv, Holds, Answered
  <2> QED
    BY <1>10, <2>2, <2>3 DEF erase_page_result
<1>11. CASE write_dwords_write
  <2>1. UNCHANGED <<flash, pc, write, fix_result>> /\ pc = "program"
    BY <1>11 DEF write_dwords_write, vars
  <2>2. \/ sr' = sr \cup {"progerr"} /\ UNCHANGED missed
        \/ missed'
        \/ op' = ProgramOp /\ UNCHANGED missed
    BY <1>11 DEF write_dwords_write, Launch, ProgramOp
  <2>3. sr' = sr \cup {"progerr"} => status' # "Ok"
    BY DEF status, StatusFlags
  <2>4. ProgramOp # NoOp
    <3>1. ProgramOp.kind = "program" /\ NoOp.kind = "none"
      BY DEF ProgramOp, NoOp
    <3> HIDE DEF ProgramOp, NoOp
    <3> QED
      BY <3>1
  <2> QED
    BY <2>1, <2>2, <2>3, <2>4 DEF RepairInv, Holds, Answered
<1>12. CASE lock_flash
  BY <1>12 DEF lock_flash, write_metadata_return, RepairInv, Intact
<1>13. CASE WatchdogUpdates \/ UNCHANGED dvars
  <2>1. UNCHANGED <<flash, pc, write, fix_result, at, sr, op, missed>>
    BY <1>13 DEF WatchdogUpdates, dvars, vars
  <2> QED
    BY <2>1 DEF RepairInv, Holds, Intact, Answered, status
<1> QED
  BY <1>4, <1>5, <1>6, <1>7, <1>8, <1>9, <1>10, <1>11, <1>12, <1>13, RepairEnds, RepairTurn
  DEF DriverNext, DriverBoot, DriverCalls, CallFree, Bite, Panic

(* A repair that select_metadata reports as done is done, unless an        *)
(* operation failed with a flag that status() does not look at: missing    *)
(* EOPs, refused double words and failed erases never slip through.        *)
THEOREM OkMeansDone == DriverSpec => []OkUnlessMissed
<1>1. DriverInit => RepairInv
  BY DEF DriverInit, Init, RepairInv
<1>2. DriverInv /\ RepairInv /\ [DriverNext]_dvars => RepairInv'
  BY RepairStep
<1>3. RepairInv => OkUnlessMissed
  BY DEF RepairInv, OkUnlessMissed
<1> QED
  BY <1>1, <1>2, <1>3, DriverInvariant, PTL DEF DriverSpec

-----------------------------------------------------------------------------
(* The refinement.  The operators of MetadataFixup without a mapped        *)
(* variable mean the same on both levels.                                  *)

LEMMA SameValues ==
  /\ Fixup!Page = Page /\ Fixup!Dword = Dword /\ Fixup!Metadata = Metadata
  /\ Fixup!PageImage = PageImage /\ Fixup!NoPage = NoPage /\ Fixup!NoWrite = NoWrite
  /\ Fixup!ErasedPage = ErasedPage /\ Fixup!SoftValues = SoftValues
  BY DEF Fixup!Page, Page, Fixup!Dword, Dword, Fixup!Metadata, Metadata, Fixup!Version, Version,
     Fixup!PageImage, PageImage, Fixup!Cell, Cell, Fixup!NoPage, NoPage, Fixup!NoWrite, NoWrite,
     Fixup!ErasedPage, ErasedPage, Fixup!SoftValues, SoftValues, Fixup!METADATA_1, METADATA_1,
     Fixup!METADATA_2, METADATA_2

LEMMA SameSelect ==
  ASSUME NEW f
  PROVE  Fixup!Select(f) = Select(f) /\ Fixup!Current(f) = Current(f)
  BY DEF Fixup!Select, Select, Fixup!Current, Current, Fixup!internal_select, internal_select,
     Fixup!read_metadata, read_metadata, Fixup!is_valid, is_valid, Fixup!Holds, Holds,
     Fixup!SelectResult, SelectResult, Fixup!METADATA_1, METADATA_1, Fixup!METADATA_2, METADATA_2,
     Fixup!Dword, Dword, Fixup!Metadata, Metadata, Fixup!Version, Version, Fixup!NoPage, NoPage

LEMMA SamePartly ==
  /\ \A page : Fixup!PartlyErased(page) = PartlyErased(page)
  /\ \A cell : Fixup!PartlyProgrammed(cell) = PartlyProgrammed(cell)
  BY SameValues DEF Fixup!PartlyErased, PartlyErased, Fixup!PartlyProgrammed, PartlyProgrammed

LEMMA SameErase ==
  ASSUME NEW p, NEW result
  PROVE  erase_page(p, result) => Fixup!erase_page(p, result)
  BY FaultsAssumption, SameValues, SamePartly DEF Fixup!erase_page, erase_page

LEMMA SameDword ==
  ASSUME NEW p, NEW d, NEW m, NEW result
  PROVE  write_dword(p, d, m, result) => Fixup!write_dword(p, d, m, result)
  BY FaultsAssumption, SamePartly DEF Fixup!write_dword, write_dword

(* Between the calls nothing is mapped to anything else.                   *)
Plain == MappedPc = pc /\ MappedWrite = write /\ MappedResult = fix_result

LEMMA PlainOutsideCalls == (~Answered => Plain) /\ (~Answered' => Plain')
  BY DEF Plain, MappedPc, MappedWrite, MappedResult, Failed

(* An action of MetadataFixup between two such states                      *)
LEMMA PlainActions ==
  ASSUME Plain, Plain'
  PROVE  /\ is_soft => Fixup!is_soft
         /\ select_metadata => Fixup!select_metadata
         /\ unlock_flash => Fixup!unlock_flash
         /\ write_metadata_erase => Fixup!write_metadata_erase
         /\ write_metadata_program => Fixup!write_metadata_program
         /\ write_metadata_return => Fixup!write_metadata_return
         /\ StartOs => Fixup!StartOs
         /\ failsafe_boot => Fixup!failsafe_boot
         /\ select_image_panics => Fixup!select_image_panics
         /\ OsRequestSoftReboot => Fixup!OsRequestSoftReboot
         /\ \A p \in Page, m \in Metadata : OsUpdate(p, m) => Fixup!OsUpdate(p, m)
         /\ OsErase => Fixup!OsErase
         /\ OsProgram => Fixup!OsProgram
         /\ Reset => Fixup!Reset
<1> USE SameValues, SameSelect DEF Plain
<1>1. is_soft => Fixup!is_soft
  BY DEF is_soft, Fixup!is_soft
<1>2. select_metadata => Fixup!select_metadata
  BY DEF select_metadata, Fixup!select_metadata
<1>3. unlock_flash => Fixup!unlock_flash
  BY FaultsAssumption DEF unlock_flash, FixupFailed, Fixup!unlock_flash, Fixup!FixupFailed
<1>4. write_metadata_erase => Fixup!write_metadata_erase
  BY SameErase DEF write_metadata_erase, FixupFailed, Fixup!write_metadata_erase,
     Fixup!FixupFailed
<1>5. write_metadata_program => Fixup!write_metadata_program
  BY SameDword DEF write_metadata_program, FixupFailed, AdvanceLoop,
     Fixup!write_metadata_program, Fixup!FixupFailed, Fixup!AdvanceLoop
<1>6. write_metadata_return => Fixup!write_metadata_return
  BY DEF write_metadata_return, Fixup!write_metadata_return
<1>7. StartOs => Fixup!StartOs
  BY DEF StartOs, Fixup!StartOs
<1>8. /\ failsafe_boot => Fixup!failsafe_boot
      /\ select_image_panics => Fixup!select_image_panics
  BY DEF failsafe_boot, Fixup!failsafe_boot, select_image_panics, Fixup!select_image_panics,
     NoImageVerifies, Fixup!NoImageVerifies, PanicResets, Fixup!PanicResets
<1>9. OsRequestSoftReboot => Fixup!OsRequestSoftReboot
  BY DEF OsRequestSoftReboot, Fixup!OsRequestSoftReboot
<1>10. ASSUME NEW p \in Page, NEW m \in Metadata, OsUpdate(p, m)
       PROVE  Fixup!OsUpdate(p, m)
  <2>1. Fixup!Spare(flash, p) <=> Spare(flash, p)
    BY DEF Fixup!Spare, Spare
  <2> QED
    BY <1>10, <2>1 DEF OsUpdate, Fixup!OsUpdate
<1>11. OsErase => Fixup!OsErase
  BY SameErase DEF OsErase, OsGivesUp, Fixup!OsErase, Fixup!OsGivesUp
<1>12. OsProgram => Fixup!OsProgram
  BY SameDword DEF OsProgram, OsGivesUp, AdvanceLoop, Fixup!OsProgram, Fixup!OsGivesUp,
     Fixup!AdvanceLoop
<1>13. Reset => Fixup!Reset
  BY SamePartly DEF Reset, InterruptedFlash, Fixup!Reset, Fixup!InterruptedFlash
<1> QED
  BY <1>1, <1>2, <1>3, <1>4, <1>5, <1>6, <1>7, <1>8, <1>9, <1>10, <1>11, <1>12, <1>13, Zenon

LEMMA PlainStep ==
  ASSUME Plain, Plain', Next
  PROVE  Fixup!Next
<1>1. CASE \E p \in Page, m \in Metadata : OsUpdate(p, m)
  <2>1. \E p \in Page, m \in Metadata : Fixup!OsUpdate(p, m)
    BY <1>1, PlainActions
  <2> QED
    BY <2>1, SameValues DEF Fixup!Next
<1> QED
  BY <1>1, PlainActions DEF Next, Boot, Fixup!Next, Fixup!Boot

(* An erase that is answered, by its result or without having been tried   *)
LEMMA EraseAnswer ==
  ASSUME Plain, pc = "erase", UNCHANGED <<metadata, soft>>,
         \/ /\ Fixup!erase_page(write.page, "Ok")
            /\ MappedPc' = "program" /\ MappedWrite' = write /\ MappedResult' = fix_result
         \/ /\ Fixup!erase_page(write.page, "Err")
            /\ MappedPc' = "boot" /\ MappedWrite' = NoWrite /\ MappedResult' = "Err"
  PROVE  Fixup!Next
  BY SameValues DEF Plain, Fixup!write_metadata_erase, Fixup!FixupFailed, Fixup!Next,
     Fixup!Boot

(* The same for one double word                                            *)
LEMMA DwordAnswer ==
  ASSUME Plain, pc = "program", UNCHANGED <<metadata, soft>>,
         \/ /\ Fixup!write_dword(write.page, write.next, write.data, "Ok")
            /\ MappedResult' = fix_result
            /\ IF write.next = Dwords
               THEN MappedPc' = "lock" /\ MappedWrite' = NoWrite
               ELSE MappedPc' = "program" /\ MappedWrite' = [write EXCEPT !.next = @ + 1]
         \/ /\ Fixup!write_dword(write.page, write.next, write.data, "Err")
            /\ MappedPc' = "boot" /\ MappedWrite' = NoWrite /\ MappedResult' = "Err"
  PROVE  Fixup!Next
  BY SameValues DEF Plain, Fixup!write_metadata_program, Fixup!AdvanceLoop,
     Fixup!FixupFailed, Fixup!Next, Fixup!Boot

(* What an answered call is mapped to                                      *)
AnswerMapping ==
  Answered /\ pc \in {"erase", "program"} =>
    /\ status = "Err" => MappedPc = "boot" /\ MappedWrite = NoWrite /\ MappedResult = "Err"
    /\ status # "Err" =>
         /\ MappedResult = fix_result
         /\ pc = "erase" => MappedPc = "program" /\ MappedWrite = write
         /\ pc = "program" =>
              IF write.next = Dwords
              THEN MappedPc = "lock" /\ MappedWrite = NoWrite
              ELSE MappedPc = "program" /\ MappedWrite = [write EXCEPT !.next = @ + 1]

LEMMA MappedAnswer == AnswerMapping /\ AnswerMapping'
  BY DEF AnswerMapping, MappedPc, MappedWrite, MappedResult, Failed, LastDword

(* An operation that does not take effect, with an error or without        *)
LEMMA NoEffect ==
  ASSUME DriverInv
  PROVE  /\ pc = "erase" /\ flash' \in Halfway =>
              \A result \in {"Ok", "Err"} : Fixup!erase_page(write.page, result)
         /\ pc = "program" /\ flash' \in Halfway =>
              \A result \in {"Ok", "Err"} : Fixup!write_dword(write.page, write.next, write.data, result)
<1>1. {"erase", "program", "silent"} \subseteq FaultKinds
  BY DEF FaultKinds
<1>2. pc \in {"erase", "program"} => write.page \in Page /\ write.next \in Dword
  BY DEF DriverInv, DriverTypeOK, TypeOK, Writing
<1>3. flash' \in Halfway => flash' \in InterruptedFlash
  BY HalfwayEffect
<1>4. ASSUME pc = "erase", flash' \in InterruptedFlash, NEW result \in {"Ok", "Err"}
      PROVE  Fixup!erase_page(write.page, result)
  BY <1>1, <1>4, SameValues, SamePartly DEF Fixup!erase_page, InterruptedFlash
<1>5. ASSUME pc = "program", flash' \in InterruptedFlash, NEW result \in {"Ok", "Err"}
      PROVE  Fixup!write_dword(write.page, write.next, write.data, result)
  BY <1>1, <1>5, SameValues, SamePartly DEF Fixup!write_dword, InterruptedFlash
<1> QED
  BY <1>3, <1>4, <1>5

(* ... such as one that has not been started                               *)
LEMMA NothingStarted ==
  ASSUME DriverInv, UNCHANGED flash, op = NoOp
  PROVE  flash' \in Halfway
<1>1. op.kind = "none"
  BY OpTypes
<1> QED
  BY <1>1 DEF Halfway

(* A reset at any place of the driver                                      *)
LEMMA ResetStep ==
  ASSUME DriverInv, DriverReset
  PROVE  Fixup!Reset
<1>0. DriverTypeOK /\ PlaceInv /\ OpInv /\ CrInv /\ FlagInv
  BY DEF DriverInv
<1>1. ~Answered' /\ Plain'
  <2>1. at' = "call"
    BY DEF DriverReset
  <2> QED
    BY <2>1, PlainOutsideCalls DEF Answered
<1>2. flash' \in InterruptedFlash
  BY HalfwayEffect DEF DriverReset
<1>3. CASE ~Answered
  <2>1. Reset
    BY <1>2 DEF DriverReset, Reset
  <2>2. Plain
    BY <1>3, PlainOutsideCalls
  <2> QED
    BY <1>1, <2>1, <2>2, PlainActions
<1>4. CASE Answered
  <2>1. pc \in {"erase", "program"} /\ op = NoOp
    BY <1>0, <1>4 DEF Answered, PlaceInv
  <2>2. flash' = flash
    <3>1. op.kind = "none" /\ flash' \in Halfway
      BY <2>1, OpTypes DEF DriverReset
    <3> QED
      BY <3>1 DEF Halfway
  <2>3. flash' \in Fixup!InterruptedFlash
    <3>1. flash \in Flash /\ Dwords \in Nat \ {0}
      BY <1>0, DwordsAssumption DEF DriverTypeOK, TypeOK, Flash
    <3>2. write \in [page : Page, data : Metadata, next : Dword]
      BY <1>0, <2>1 DEF DriverTypeOK, TypeOK, Writing
    <3>3. CASE MappedPc \notin {"erase", "program", "os_erase", "os_program"}
      BY <2>2, <3>3 DEF Fixup!InterruptedFlash
    <3>4. CASE MappedPc \in {"erase", "program", "os_erase", "os_program"}
      <4>1. status # "Err" /\ MappedPc = "program"
        BY <1>4, <2>1, <3>4, MappedAnswer DEF AnswerMapping
      <4>2. MappedWrite.page \in Page /\ MappedWrite.next \in Dword
        BY <1>4, <2>1, <3>1, <3>2, <4>1, MappedAnswer, SMT DEF AnswerMapping, Dword
      <4> QED
        BY <2>2, <3>1, <4>1, <4>2, PartlySelf, SamePartly DEF Fixup!InterruptedFlash
    <3> QED
      BY <3>3, <3>4
  <2> QED
    BY <1>1, <2>3, SameValues DEF DriverReset, Plain, Fixup!Reset
<1> QED
  BY <1>3, <1>4

LEMMA DriverStep ==
  ASSUME DriverInv, [DriverNext]_dvars
  PROVE  [Fixup!Next]_Fixup!vars
<1> DEFINE Stays == UNCHANGED <<flash, MappedPc, metadata, MappedWrite, MappedResult, soft>>
<1> SUFFICES Fixup!Next \/ Stays
  BY DEF Fixup!vars
<1>0. DriverTypeOK /\ PlaceInv /\ OpInv /\ CrInv /\ FlagInv
  BY DEF DriverInv
<1>1. ASSUME ~Answered, ~Answered', Next PROVE Fixup!Next
  BY <1>1, PlainOutsideCalls, PlainStep
<1>2. ASSUME ~Answered, ~Answered', UNCHANGED vars PROVE Stays
  BY <1>2, PlainOutsideCalls DEF Plain, vars
<1>3. CASE watchdog_start \/ watchdog_configure \/ watchdog_update \/ unlock_flash_keys
  <2>1. at # "busy" /\ at' # "busy" /\ UNCHANGED vars
    BY <1>3 DEF watchdog_start, watchdog_configure, watchdog_update, unlock_flash_keys
  <2> QED
    BY <1>2, <2>1 DEF Answered
<1>4. CASE WatchdogUpdates \/ UNCHANGED dvars
  <2>1. UNCHANGED <<at, op, sr>> /\ UNCHANGED vars
    BY <1>4 DEF WatchdogUpdates, dvars, vars
  <2> QED
    BY <2>1 DEF MappedPc, MappedWrite, MappedResult, Failed, Answered, LastDword, status, vars
<1>5. CASE CallFree \/ DriverOs \/ lock_flash
  <2>1. at # "busy" /\ at' # "busy"
    BY <1>0, <1>5 DEF CallFree, is_soft, select_metadata, StartOs, DriverOs, driver,
       OsRequestSoftReboot, OsUpdate, OsErase, OsProgram, lock_flash, write_metadata_return,
       PlaceInv
  <2>2. Next
    BY <1>5 DEF CallFree, DriverOs, lock_flash, Next, Boot
  <2> QED
    BY <1>1, <2>1, <2>2 DEF Answered
<1>6. CASE unlock_flash_check
  <2>1. at = "check" /\ at' = "call"
    BY <1>6 DEF unlock_flash_check
  <2>2. Plain /\ Plain'
    BY <2>1, PlainOutsideCalls DEF Answered
  <2>3. Fixup!unlock_flash
    BY <1>6, <2>2, SameValues
       DEF Plain, unlock_flash_check, FixupFailed, FaultKinds, Fixup!unlock_flash, Fixup!FixupFailed
  <2> QED
    BY <2>3 DEF Fixup!Next, Fixup!Boot
<1>7. CASE erase_page_select \/ write_dwords_begin
  <2>1. /\ at = "call" /\ at' # "busy" /\ op = NoOp /\ pc \in {"erase", "program"}
        /\ UNCHANGED <<flash, metadata, soft>>
        /\ FixupFailed \/ UNCHANGED <<pc, write, fix_result>>
    BY <1>7 DEF erase_page_select, write_dwords_begin, wait
  <2>2. ~Answered /\ ~Answered'
    BY <2>1 DEF Answered
  <2>3. CASE UNCHANGED <<pc, write, fix_result>>
    BY <1>2, <2>1, <2>2, <2>3 DEF vars
  <2>4. CASE FixupFailed
    <3>1. flash' \in Halfway
      BY <2>1, NothingStarted
    <3>2. Plain /\ MappedPc' = "boot" /\ MappedWrite' = NoWrite /\ MappedResult' = "Err"
      BY <2>2, <2>4, PlainOutsideCalls DEF FixupFailed, Plain
    <3> QED
      BY <2>1, <3>1, <3>2, NoEffect, EraseAnswer, DwordAnswer
  <2> QED
    BY <2>1, <2>3, <2>4
<1>8. CASE erase_page_start \/ write_dwords_write
  <2>1. /\ at = "start" /\ at' = "busy" /\ op = NoOp /\ pc \in {"erase", "program"}
        /\ UNCHANGED vars
    BY <1>0, <1>8 DEF erase_page_start, write_dwords_write, OpInv
  <2>2. Plain /\ ~Answered
    BY <2>1, PlainOutsideCalls DEF Answered
  <2>3. CASE op' # NoOp
    BY <1>2, <2>1, <2>2, <2>3 DEF Answered
  <2>4. CASE op' = NoOp
    <3>1. flash' \in Halfway
      BY <2>1, NothingStarted DEF vars
    <3>2. Answered' /\ UNCHANGED <<flash, pc, metadata, write, fix_result, soft>>
      BY <2>1, <2>4 DEF Answered, vars
    <3>3. CASE sr' = sr \cup {"pgserr"}
      <4>1. status' # "Err"
        BY <1>0, <2>1, <3>3 DEF FlagInv, status, StatusFlags
      <4>2. /\ MappedResult' = fix_result
            /\ pc = "erase" => MappedPc' = "program" /\ MappedWrite' = write
            /\ pc = "program" =>
                 IF write.next = Dwords
                 THEN MappedPc' = "lock" /\ MappedWrite' = NoWrite
                 ELSE MappedPc' = "program" /\ MappedWrite' = [write EXCEPT !.next = @ + 1]
        BY <2>1, <3>2, <4>1, MappedAnswer DEF AnswerMapping
      <4> QED
        BY <2>1, <2>2, <3>1, <3>2, <4>2, NoEffect, EraseAnswer, DwordAnswer
    <3>4. CASE /\ pc = "program" /\ flash[write.page][write.next] # Erased
               /\ sr' = sr \cup {"progerr"}
      <4>1. status' = "Err"
        BY <3>4 DEF status, StatusFlags
      <4>2. MappedPc' = "boot" /\ MappedWrite' = NoWrite /\ MappedResult' = "Err"
        BY <2>1, <3>2, <4>1, MappedAnswer DEF AnswerMapping
      <4>3. Fixup!write_dword(write.page, write.next, write.data, "Err")
        BY <3>2, <3>4 DEF Fixup!write_dword
      <4> QED
        BY <2>2, <3>2, <3>4, <4>2, <4>3, DwordAnswer
    <3>5. \/ sr' = sr \cup {"pgserr"}
          \/ /\ pc = "program" /\ flash[write.page][write.next] # Erased
             /\ sr' = sr \cup {"progerr"}
          \/ op'.kind \in {"erase", "program"}
      BY <1>8 DEF erase_page_start, write_dwords_write, Launch
    <3>6. op'.kind = "none"
      BY <2>4 DEF NoOp
    <3> QED
      BY <3>3, <3>4, <3>5, <3>6
  <2> QED
    BY <2>3, <2>4
<1>9. CASE erase_page_result \/ write_dwords_next
  <2>1. /\ Answered /\ pc \in {"erase", "program"} /\ ~Answered'
        /\ UNCHANGED <<flash, metadata, soft>>
    BY <1>9 DEF erase_page_result, write_dwords_next, wait, Answered
  <2>2. /\ MappedPc = pc' /\ MappedWrite = write' /\ MappedResult = fix_result'
    BY <1>9, <2>1, MappedAnswer
       DEF AnswerMapping, erase_page_result, write_dwords_next, FixupFailed, AdvanceLoop
  <2>3. Plain'
    BY <2>1, PlainOutsideCalls
  <2> QED
    BY <2>1, <2>2, <2>3 DEF Plain
<1>10. CASE OperationEnds
  <2>1. /\ op # NoOp /\ op' = NoOp /\ UNCHANGED <<pc, metadata, write, fix_result, soft, at>>
    BY <1>10 DEF OperationEnds
  <2>2. at = "busy" /\ pc \in {"erase", "program"} /\ sr \cap ProgrammingFlags = {}
    BY <1>0, <2>1 DEF OpInv, PlaceInv
  <2>3. Plain /\ Answered'
    BY <2>1, <2>2, PlainOutsideCalls DEF Answered
  <2>4. CASE status' = "Err"
    <3>1. flash' \in Halfway
      BY <1>10, <2>2, <2>4 DEF OperationEnds, status, StatusFlags, ProgrammingFlags
    <3>2. MappedPc' = "boot" /\ MappedWrite' = NoWrite /\ MappedResult' = "Err"
      BY <2>1, <2>2, <2>3, <2>4, MappedAnswer DEF AnswerMapping
    <3> QED
      BY <2>1, <2>2, <2>3, <3>1, <3>2, NoEffect, EraseAnswer, DwordAnswer
  <2>5. CASE status' # "Err"
    <3>1. /\ MappedResult' = fix_result
          /\ pc = "erase" => MappedPc' = "program" /\ MappedWrite' = write
          /\ pc = "program" =>
               IF write.next = Dwords
               THEN MappedPc' = "lock" /\ MappedWrite' = NoWrite
               ELSE MappedPc' = "program" /\ MappedWrite' = [write EXCEPT !.next = @ + 1]
      BY <2>1, <2>2, <2>3, <2>5, MappedAnswer DEF AnswerMapping
    <3>2. /\ pc = "erase" => Fixup!erase_page(write.page, "Ok")
          /\ pc = "program" => Fixup!write_dword(write.page, write.next, write.data, "Ok")
      <4>1. CASE flash' \in Halfway
        BY <4>1, NoEffect
      <4>2. CASE flash' = Complete
        BY <2>1, <4>2, CompleteEffect, SameValues DEF Fixup!erase_page, Fixup!write_dword
      <4> QED
        BY <1>10, <4>1, <4>2 DEF OperationEnds
    <3> QED
      BY <2>1, <2>2, <2>3, <3>1, <3>2, EraseAnswer, DwordAnswer
  <2> QED
    BY <2>4, <2>5
<1>11. CASE DriverReset
  BY <1>11, ResetStep DEF Fixup!Next
<1> QED
  BY <1>3, <1>4, <1>5, <1>6, <1>7, <1>8, <1>9, <1>10, <1>11
     DEF DriverNext, DriverBoot, DriverCalls, Bite, Panic

(* MetadataFixup is right about the results it lets the driver return:     *)
(* whatever the registers and the controller do, the boot behaves as       *)
(* MetadataFixup says when every kind of fault can happen, and whichever   *)
(* of them (Faults) the writes of the OS meet.                             *)
THEOREM DriverImplements == DriverSpec => ImplementsFixup
<1>1. DriverInit => Fixup!Init
  <2> SUFFICES ASSUME DriverInit PROVE Fixup!Init
    OBVIOUS
  <2>1. Plain /\ Init
    BY PlainOutsideCalls DEF DriverInit, Answered
  <2>2. \A page : Fixup!LeftOver(page) <=> LeftOver(page)
    BY SameValues DEF Fixup!LeftOver, LeftOver
  <2> QED
    BY <2>1, <2>2, SameValues DEF Init, Fixup!Init, Plain
<1>2. DriverInv /\ [DriverNext]_dvars => [Fixup!Next]_Fixup!vars
  BY DriverStep
<1> QED
  BY <1>1, <1>2, DriverInvariant, PTL DEF DriverSpec, ImplementsFixup, Fixup!Spec
=============================================================================
