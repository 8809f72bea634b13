--------------------------- MODULE MetadataFixup ---------------------------
(***************************************************************************)
(* The metadata half of a boot: run() up to the point where it has a block *)
(* to boot from, with select_metadata and write_metadata repairing the     *)
(* stale or broken page, the OS overwriting a page later, and resets and   *)
(* power losses anywhere in between.                                       *)
(*                                                                         *)
(* The flash controller is external and is modelled by the results the     *)
(* driver (flash.rs) lets its callers see: an erase or a double word write *)
(* succeeds, reports an error, or reports success without having taken     *)
(* effect ("silent": status() looks at three of the error flags and        *)
(* write_dwords ignores a missing EOP).                                    *)
(***************************************************************************)
EXTENDS MetadataPages

CONSTANTS
  Faults,           \* which flash operations can fail
  OsSparesNewest,   \* the OS never overwrites its only copy of the newest block
  SoftReboots,      \* the OS uses the soft reboot registers
  Bootable          \* payloads that always describe an image that verifies

FaultKinds == {"unlock", "erase", "program", "silent"}
ASSUME FaultsAssumption == Faults \subseteq FaultKinds
ASSUME OsAssumption == OsSparesNewest \in BOOLEAN /\ SoftReboots \in BOOLEAN
ASSUME BootableAssumption == Bootable \subseteq Payload

VARIABLES
  flash,        \* the two metadata pages
  pc,           \* where run(), or the OS it has started, is
  metadata,     \* the block select_metadata settled on
  write,        \* the page write in progress: page, block, next double word
  fix_result,   \* second component of what select_metadata returns
  soft          \* rtc.bkpr: "none", or magic value with a "valid"/"invalid" index

vars == <<flash, pc, metadata, write, fix_result, soft>>

NoWrite == [page |-> NoPage, data |-> NoMeta, next |-> 1]
BootWrites == {"unlock", "erase", "program", "lock"}
OsPhases == {"os", "os_erase", "os_program"}
Writing == {"unlock", "erase", "program", "os_erase", "os_program"}
PcValues == {"reset", "select", "boot", "failsafe"} \cup BootWrites \cup OsPhases
SoftValues == {"none", "valid", "invalid"}

TypeOK ==
  /\ flash \in [Page -> PageImage]
  /\ pc \in PcValues
  /\ metadata \in Metadata \cup {NoMeta}
  /\ write \in IF pc \in Writing THEN [page : Page, data : Metadata, next : Dword]
                                ELSE {NoWrite}
  /\ fix_result \in {"none", "Ok", "Err"}
  /\ soft \in SoftValues

(* A page as an earlier life of the device may have left it: one block,    *)
(* completely or in part.  image-builder writes two complete pages and     *)
(* scripts/test_hardware.sh damages one of them.                           *)
LeftOver(page) ==
  \E m \in Metadata : \A d \in Dword : page[d] \in {m, Erased, Garbled}

Init ==
  /\ flash \in [Page -> {page \in PageImage : LeftOver(page)}]
  /\ pc = "reset"
  /\ metadata = NoMeta
  /\ write = NoWrite
  /\ fix_result = "none"
  /\ soft = "none"

-----------------------------------------------------------------------------
(* The flash controller, seen through the driver.                          *)

(* What an erase that does not complete can leave behind *)
PartlyErased(page) ==
  {q \in PageImage : \A d \in Dword : q[d] \in {page[d], Erased, Garbled}}

(* Mutant: the page number is computed for the wrong page size. *)
erase_page_wrong_page(p, result) ==
  result = "Ok" /\ flash' = [flash EXCEPT ![Other(p)] = ErasedPage]

(* erase_page: the result is what wait() returns at the end *)
erase_page(p, result) ==
  \/ /\ result = "Ok"
     /\ flash' = [flash EXCEPT ![p] = ErasedPage]
  \/ /\ \/ result = "Err" /\ "erase" \in Faults
        \/ result = "Ok" /\ "silent" \in Faults
     /\ \E page \in PartlyErased(flash[p]) : flash' = [flash EXCEPT ![p] = page]

(* What is in a double word after a program operation that does not        *)
(* complete; one that is not erased cannot be programmed at all.           *)
PartlyProgrammed(cell) == IF cell = Erased THEN {Erased, Garbled} ELSE {cell}

(* One turn of the loop of write_dwords.  A double word that has not been  *)
(* erased is refused with PROGERR, one of the flags status() looks at,     *)
(* unless the controller ignores the operation altogether.                 *)
write_dword(p, d, m, result) ==
  \/ /\ flash[p][d] = Erased /\ result = "Ok"
     /\ flash' = [flash EXCEPT ![p][d] = m]
  \/ /\ flash[p][d] # Erased /\ result = "Err"
     /\ UNCHANGED flash
  \/ /\ \/ result = "Err" /\ "program" \in Faults
        \/ result = "Ok" /\ "silent" \in Faults
     /\ \E cell \in PartlyProgrammed(flash[p][d]) : flash' = [flash EXCEPT ![p][d] = cell]

-----------------------------------------------------------------------------
(* run() and what it calls                                                 *)

(* Mutant: the registers survive the soft boot they asked for. *)
is_soft_keeps_magic ==
  /\ pc = "reset"
  /\ soft' = soft
  /\ pc' = IF soft = "valid" THEN "os" ELSE "select"
  /\ UNCHANGED <<flash, metadata, write, fix_result>>

(* is_soft: the registers are cleared whatever the index is; with a valid  *)
(* index run() boots that image and never looks at the metadata.           *)
is_soft ==
  /\ pc = "reset"
  /\ soft' = "none"
  /\ pc' = IF soft = "valid" THEN "os" ELSE "select"
  /\ UNCHANGED <<flash, metadata, write, fix_result>>

(* select_metadata up to the call of write_metadata *)
select_metadata ==
  /\ pc = "select"
  /\ LET selected == Select(flash) IN
       /\ metadata' = selected.meta
       /\ \/ /\ selected.meta = NoMeta
             /\ pc' = "failsafe"
             /\ UNCHANGED <<write, fix_result>>
          \/ /\ selected.meta # NoMeta /\ selected.write_addr = NoPage
             /\ pc' = "boot"
             /\ fix_result' = "Ok"
             /\ UNCHANGED write
          \/ /\ selected.meta # NoMeta /\ selected.write_addr # NoPage
             /\ pc' = "unlock"
             /\ write' = [page |-> selected.write_addr, data |-> selected.meta, next |-> 1]
             /\ UNCHANGED fix_result
  /\ UNCHANGED <<flash, soft>>

(* Mutant: a failed repair is fatal, the panic handler resets. *)
FixupFailed_panics ==
  /\ pc' = "reset"
  /\ fix_result' = "Err"
  /\ write' = NoWrite

(* Mutant: a failed repair is tried again. *)
FixupFailed_retries ==
  /\ pc' = "select"
  /\ fix_result' = "Err"
  /\ write' = NoWrite

(* Leaving write_metadata through a `?`: run() ignores fix_result. *)
FixupFailed ==
  /\ pc' = "boot"
  /\ fix_result' = "Err"
  /\ write' = NoWrite

unlock_flash ==
  /\ pc = "unlock"
  /\ \/ pc' = "erase" /\ UNCHANGED <<write, fix_result>>
     \/ "unlock" \in Faults /\ FixupFailed
  /\ UNCHANGED <<flash, metadata, soft>>

write_metadata_erase ==
  /\ pc = "erase"
  /\ \/ /\ erase_page(write.page, "Ok")
        /\ pc' = "program"
        /\ UNCHANGED <<write, fix_result>>
     \/ erase_page(write.page, "Err") /\ FixupFailed
  /\ UNCHANGED <<metadata, soft>>

(* Mutant: the loop stops one double word early. *)
AdvanceLoop_short(after) ==
  IF write.next + 1 >= Dwords
  THEN pc' = after /\ write' = NoWrite
  ELSE write' = [write EXCEPT !.next = @ + 1] /\ UNCHANGED pc

(* Mutant: the loop runs one double word too far. *)
AdvanceLoop_long(after) ==
  IF write.next > Dwords
  THEN pc' = after /\ write' = NoWrite
  ELSE write' = [write EXCEPT !.next = @ + 1] /\ UNCHANGED pc

(* for dword in array: go on to the next one, or leave the loop *)
AdvanceLoop(after) ==
  IF write.next = Dwords
  THEN pc' = after /\ write' = NoWrite
  ELSE write' = [write EXCEPT !.next = @ + 1] /\ UNCHANGED pc

write_metadata_program ==
  /\ pc = "program"
  /\ \/ /\ write_dword(write.page, write.next, write.data, "Ok")
        /\ AdvanceLoop("lock")
        /\ UNCHANGED fix_result
     \/ write_dword(write.page, write.next, write.data, "Err") /\ FixupFailed
  /\ UNCHANGED <<metadata, soft>>

(* lock_flash; the block is read back but only passed on, never checked *)
write_metadata_return ==
  /\ pc = "lock"
  /\ pc' = "boot"
  /\ fix_result' = "Ok"
  /\ UNCHANGED <<flash, metadata, write, soft>>

(* The rest of run() when select_image finds an image: copy and jump, for  *)
(* this module one step that leaves the metadata pages alone               *)
StartOs ==
  /\ pc = "boot"
  /\ pc' = "os"
  /\ UNCHANGED <<flash, metadata, write, fix_result, soft>>

(* A todo!(): the release panic handler resets. *)
PanicResets ==
  /\ pc' = "reset"
  /\ metadata' = NoMeta
  /\ fix_result' = "none"
  /\ UNCHANGED <<flash, write, soft>>

(* The end of select_image: none of the images verifies.  That is up to    *)
(* the slots, which this module does not have, unless the block is sure to *)
(* describe one that does.                                                 *)
NoImageVerifies == pc = "boot" /\ metadata.payload \notin Bootable
select_image_panics == NoImageVerifies /\ PanicResets

failsafe_boot == pc = "failsafe" /\ PanicResets

-----------------------------------------------------------------------------
(* The running OS, as doc/User-Guide.md describes its duties.              *)

(* is_soft reads this back after the next reset. *)
OsRequestSoftReboot ==
  /\ SoftReboots
  /\ pc = "os"
  /\ soft' \in SoftValues \ {"none"}
  /\ UNCHANGED <<flash, pc, metadata, write, fix_result>>

(* Overwriting page p cannot take the newest block away. *)
Spare(pages, p) == Current([pages EXCEPT ![p] = ErasedPage]) = Current(pages)

(* "It must overwrite one of the metadata slots ... Make sure the version  *)
(* integer is higher than before".                                         *)
OsUpdate(p, m) ==
  /\ pc = "os"
  /\ Current(flash) # NoMeta => m.version > Current(flash).version
  /\ OsSparesNewest => Spare(flash, p)
  /\ pc' = "os_erase"
  /\ write' = [page |-> p, data |-> m, next |-> 1]
  /\ UNCHANGED <<flash, metadata, fix_result, soft>>

OsGivesUp == pc' = "os" /\ write' = NoWrite

OsErase ==
  /\ pc = "os_erase"
  /\ \/ erase_page(write.page, "Ok") /\ pc' = "os_program" /\ UNCHANGED write
     \/ erase_page(write.page, "Err") /\ OsGivesUp
  /\ UNCHANGED <<metadata, fix_result, soft>>

OsProgram ==
  /\ pc = "os_program"
  /\ \/ write_dword(write.page, write.next, write.data, "Ok") /\ AdvanceLoop("os")
     \/ write_dword(write.page, write.next, write.data, "Err") /\ OsGivesUp
  /\ UNCHANGED <<metadata, fix_result, soft>>

-----------------------------------------------------------------------------
(* A reset of any kind: power loss, watchdog, pin, the panic handler or    *)
(* the OS.  An erase or a write that is under way stops halfway; the       *)
(* backup registers keep their value, or lose it with the power.           *)
InterruptedFlash ==
  IF pc \in {"erase", "os_erase"}
  THEN {[flash EXCEPT ![write.page] = page] : page \in PartlyErased(flash[write.page])}
  ELSE IF pc \in {"program", "os_program"}
  THEN {[flash EXCEPT ![write.page][write.next] = cell] :
          cell \in PartlyProgrammed(flash[write.page][write.next])}
  ELSE {flash}

Reset ==
  /\ flash' \in InterruptedFlash
  /\ pc' = "reset"
  /\ metadata' = NoMeta
  /\ write' = NoWrite
  /\ fix_result' = "none"
  /\ soft' \in {soft, "none"}

Boot ==
  \/ is_soft
  \/ select_metadata
  \/ unlock_flash
  \/ write_metadata_erase
  \/ write_metadata_program
  \/ write_metadata_return
  \/ StartOs
  \/ select_image_panics
  \/ failsafe_boot

Next ==
  \/ Boot
  \/ OsRequestSoftReboot
  \/ \E p \in Page, m \in Metadata : OsUpdate(p, m)
  \/ OsErase
  \/ OsProgram
  \/ Reset

Spec == Init /\ [][Next]_vars

(* The processor executes run() and BSY clears: only the boot is fair.     *)
FairSpec == Spec /\ WF_vars(Boot)

-----------------------------------------------------------------------------
(* Properties                                                              *)

(* Why a repair may stop anywhere: it is only started on a page whose      *)
(* counterpart holds the very block this boot works with, and that block   *)
(* stays the newest one throughout (select_metadata, write_metadata).      *)
BootWriteInv ==
  /\ pc \in BootWrites \cup {"boot"} => metadata # NoMeta /\ metadata = Current(flash)
  /\ pc \in {"unlock", "erase", "program"} =>
       write.data = metadata /\ Holds(flash[Other(write.page)], metadata)
  /\ pc \in {"unlock", "erase"} => ~Intact(flash)

(* Why an update may stop anywhere, for an OS that spares its newest       *)
(* block: until the last missing double word arrives the other page        *)
(* decides, from then on the new one does.                                 *)
OsWriteInv ==
  pc \in {"os_erase", "os_program"} =>
    \/ /\ Spare(flash, write.page)
       /\ Current(flash) # NoMeta => write.data.version > Current(flash).version
    \/ /\ pc = "os_program"
       /\ Holds(flash[write.page], write.data)
       /\ Current(flash) = write.data

(* The two pages, their repair and the resets behave like one atomic       *)
(* block: no reset, failed repair or half-finished update ever loses the   *)
(* newest complete block, resurrects an older one, or hands a boot         *)
(* anything else (select_metadata, write_metadata).                        *)
Atomic == INSTANCE AtomicMetadata WITH current <- Current(flash), handed <- metadata
AtomicSpec == Atomic!Spec

(* "This is important to save flash cycles" (metadata.rs): the bootloader  *)
(* erases or programs nothing while both copies are valid and of one       *)
(* version.                                                                *)
NoNeedlessWrite == [][pc \notin OsPhases /\ Intact(flash) => UNCHANGED flash]_vars

(* Every completed update counts: when the OS has written a whole page, the *)
(* next boot reads that block, whatever the other page holds (with          *)
(* AtomicSpec: every later boot reads it or a newer one).                   *)
UpdateTakesEffect ==
  [][pc = "os_program" /\ pc' = "os" /\ Holds(flash'[write.page], write.data)
       => Current(flash') = write.data]_vars

(* "The second tuple element returns whether or not fixing metadata was    *)
(* successful": after Ok both pages carry valid metadata of one version.   *)
FixOkMeansIntact == pc = "boot" /\ fix_result = "Ok" => Intact(flash)

(* Why it holds when the flash never fails silently: the double words      *)
(* written so far are in place, and the other page holds the same block.   *)
FixProgress ==
  /\ pc \in {"unlock", "erase"} => write.next = 1
  /\ pc = "program" =>
       \A d \in Dword : d < write.next => flash[write.page][d] = write.data
  /\ pc = "lock" => Intact(flash)

(* "power loss while writing flash does not result in broken state": a     *)
(* device that has once booted from its metadata never comes up without    *)
(* valid metadata again.                                                   *)
NeverBroken == [](pc = "boot" => [](pc # "failsafe"))

(* Whatever fails in a repair, a device whose newest block describes an    *)
(* image that verifies reaches its OS as soon as the resets from outside   *)
(* stop, where the panics of run() do not count as such: an error leads to *)
(* a boot, never to a loop (select_metadata, write_metadata, run).         *)
ResetsStop == <>[][Reset => pc = "failsafe" \/ NoImageVerifies]_vars
BootsWithMetadata ==
  ResetsStop =>
    ((/\ pc = "reset" /\ Current(flash) # NoMeta
      /\ Current(flash).payload \in Bootable) ~> pc = "os")
=============================================================================
