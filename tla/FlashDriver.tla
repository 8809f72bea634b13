---------------------------- MODULE FlashDriver ----------------------------
(***************************************************************************)
(* bootloader/src/flash.rs and watchdog.rs, register by register, under    *)
(* the boot of MetadataFixup.  The driver's calls are replaced by their    *)
(* steps on FLASH_CR and FLASH_SR, and the flash controller by what the    *)
(* comments of flash.rs quote from its manual: a locked CR ignores writes, *)
(* an operation is refused with PGSERR while error flags are up, a double  *)
(* word that is not erased is refused with PROGERR, BSY is up while an     *)
(* operation runs, and nobody promises that it ever goes down.             *)
(*                                                                         *)
(* The property ImplementsFixup says that MetadataFixup is right about     *)
(* the results it lets the driver return.                                  *)
(***************************************************************************)
EXTENDS MetadataFixup, Layout, Watchdog

CONSTANT OperationErrors   \* flags an operation may fail with

StatusFlags == {"pgaerr", "progerr", "wrperr"}
ProgrammingFlags ==
  StatusFlags \cup {"sizerr", "pgserr", "miserr", "fasterr"}
StatusRegister == ProgrammingFlags \cup {"operr", "eop"}

ASSUME ErrorsAssumption == OperationErrors \subseteq StatusRegister \ {"eop"}

VARIABLES
  at,       \* where in a driver call or in setup_and_start the boot is
  cr,       \* FLASH_CR
  sr,       \* FLASH_SR: the flags that are up
  op,       \* the operation BSY stands for
  wd,       \* the watchdog
  missed,   \* an operation failed in this boot with flags that status() ignores
  chip      \* never changes: the bank mode, and whether 1 or 0 clears a flag

driver == <<at, cr, sr, op, wd, missed>>
dvars == <<flash, pc, metadata, write, fix_result, soft, at, cr, sr, op, wd, missed, chip>>

METADATA_ADDR(p) == IF p = METADATA_1 THEN METADATA_1_ADDR ELSE METADATA_2_ADDR

ResetCr == [lock |-> TRUE, pg |-> FALSE, per |-> FALSE, selection |-> [bker |-> FALSE, pnb |-> 0]]
NoOp == [kind |-> "none"]
Operations ==
  {NoOp}
    \cup [kind : {"erase"}, from : Nat]
    \cup [kind : {"program"}, page : Page, dword : Dword, data : Metadata]

DriverTypeOK ==
  /\ TypeOK
  /\ at \in {"call", "configure", "update", "run", "check", "start", "busy"}
  /\ cr \in [lock : BOOLEAN, pg : BOOLEAN, per : BOOLEAN,
             selection : [bker : BOOLEAN, pnb : 0 .. 255]]
  /\ sr \subseteq StatusRegister
  /\ op \in Operations
  /\ wd \in Watchdogs
  /\ missed \in BOOLEAN
  /\ chip \in [dualbank : BOOLEAN, write_one_clears : BOOLEAN]

DriverInit ==
  /\ Init
  /\ at = "call" /\ cr = ResetCr /\ sr = {} /\ op = NoOp
  /\ wd = AfterReset /\ missed = FALSE
  /\ chip \in [dualbank : BOOLEAN, write_one_clears : BOOLEAN]

-----------------------------------------------------------------------------
(* Register access                                                         *)

(* The loop of wait() ends when BSY is down, and status() follows. *)
wait == op = NoOp
status == IF sr \cap StatusFlags # {} THEN "Err" ELSE "Ok"

(* cr.modify *)
ModifyCr(new) == cr' = IF cr.lock THEN cr ELSE new

(* What is up after the value has been written to SR: the code writes zero *)
(* to the flags it clears, and what it has read to all the others.         *)
WriteSr(value) == IF chip.write_one_clears THEN sr \ value ELSE value
clear_programming_flags == WriteSr(sr \ ProgrammingFlags)
clear_eop == IF "eop" \in sr THEN WriteSr(sr \ {"eop"}) ELSE sr

(* The controller starts an operation, or refuses it. *)
Launch(enabled, operation) ==
  IF cr.lock \/ ~enabled \/ sr \cap ProgrammingFlags # {}
  THEN sr' = sr \cup {"pgserr"} /\ missed' = TRUE /\ UNCHANGED op
  ELSE op' = operation /\ UNCHANGED <<sr, missed>>

-----------------------------------------------------------------------------
(* setup_and_start                                                         *)

watchdog_start ==
  /\ pc = "reset" /\ at = "call"
  /\ wd' = key_start(wd)
  /\ at' = "configure"
  /\ UNCHANGED <<cr, sr, op, missed, chip>> /\ UNCHANGED vars

(* Mutant: started last, so that the key closes the access to PR and RLR. *)
watchdog_configure_restarts ==
  /\ pc = "reset" /\ at = "configure"
  /\ wd' = write_rlr(write_pr(key_start(key_enable(wd))))
  /\ at' = "update"
  /\ UNCHANGED <<cr, sr, op, missed, chip>> /\ UNCHANGED vars

watchdog_configure ==
  /\ pc = "reset" /\ at = "configure"
  /\ wd' = write_rlr(write_pr(key_enable(wd)))
  /\ at' = "update"
  /\ UNCHANGED <<cr, sr, op, missed, chip>> /\ UNCHANGED vars

(* The loop that waits for PVU and RVU (WVU is never set), and the feed *)
watchdog_update ==
  /\ pc = "reset" /\ at = "update"
  /\ wd.updating = {}
  /\ wd' = feed(wd)
  /\ at' = "run"
  /\ UNCHANGED <<cr, sr, op, missed, chip>> /\ UNCHANGED vars

-----------------------------------------------------------------------------
(* The steps of run() and select_metadata that do not call the driver *)
CallFree ==
  /\ \/ at = "run" /\ is_soft
     \/ select_metadata
     \/ StartOs
  /\ at' = "call"
  /\ UNCHANGED <<cr, sr, op, wd, missed, chip>>

(* unlock_flash: the two keys, which may fail to open CR ... *)
unlock_flash_keys ==
  /\ pc = "unlock" /\ at = "call"
  /\ \E lock \in BOOLEAN : cr' = [cr EXCEPT !.lock = lock]
  /\ at' = "check"
  /\ UNCHANGED <<sr, op, wd, missed, chip>> /\ UNCHANGED vars

(* Mutant: LOCK is not read back. *)
unlock_flash_unchecked ==
  /\ pc = "unlock" /\ at = "check"
  /\ pc' = "erase" /\ UNCHANGED <<write, fix_result>>
  /\ at' = "call"
  /\ UNCHANGED <<flash, metadata, soft, cr, sr, op, wd, missed, chip>>

(* ... and LOCK, read back *)
unlock_flash_check ==
  /\ pc = "unlock" /\ at = "check"
  /\ IF cr.lock THEN FixupFailed ELSE pc' = "erase" /\ UNCHANGED <<write, fix_result>>
  /\ at' = "call"
  /\ UNCHANGED <<flash, metadata, soft, cr, sr, op, wd, missed, chip>>

(* erase_page up to the selection of the page *)
erase_page_select ==
  /\ pc = "erase" /\ at = "call" /\ wait
  /\ LET page_number == address_to_page_number(METADATA_ADDR(write.page), chip.dualbank) IN
       IF status = "Err"
       THEN FixupFailed /\ at' = "call" /\ UNCHANGED <<cr, sr>>
       ELSE /\ sr' = clear_programming_flags
            /\ IF page_number >= PagesOfFlash(chip.dualbank)
               THEN FixupFailed /\ at' = "call" /\ UNCHANGED cr
               ELSE /\ ModifyCr([cr EXCEPT !.per = TRUE,
                                   !.selection = Selection(page_number, chip.dualbank)])
                    /\ at' = "start"
                    /\ UNCHANGED <<pc, write, fix_result>>
  /\ UNCHANGED <<flash, metadata, soft, op, wd, missed, chip>>

erase_page_start ==
  /\ pc = "erase" /\ at = "start"
  /\ Launch(cr.per, [kind |-> "erase", from |-> ErasedFrom(cr.selection, chip.dualbank)])
  /\ at' = "busy"
  /\ UNCHANGED <<cr, wd, chip>> /\ UNCHANGED vars

erase_page_result ==
  /\ pc = "erase" /\ at = "busy" /\ wait
  /\ ModifyCr([cr EXCEPT !.per = FALSE])
  /\ IF status = "Err" THEN FixupFailed ELSE pc' = "program" /\ UNCHANGED <<write, fix_result>>
  /\ at' = "call"
  /\ UNCHANGED <<flash, metadata, soft, sr, op, wd, missed, chip>>

(* write_dwords up to its loop *)
write_dwords_begin ==
  /\ pc = "program" /\ at = "call" /\ wait
  /\ IF status = "Err"
     THEN FixupFailed /\ at' = "call" /\ UNCHANGED <<cr, sr>>
     ELSE /\ sr' = clear_programming_flags
          /\ ModifyCr([cr EXCEPT !.pg = TRUE])
          /\ at' = "start"
          /\ UNCHANGED <<pc, write, fix_result>>
  /\ UNCHANGED <<flash, metadata, soft, op, wd, missed, chip>>

(* Two words, of which the second one starts the operation *)
write_dwords_write ==
  /\ pc = "program" /\ at = "start"
  /\ IF flash[write.page][write.next] # Erased /\ cr.pg /\ sr \cap ProgrammingFlags = {}
     THEN sr' = sr \cup {"progerr"} /\ UNCHANGED <<op, missed>>
     ELSE Launch(cr.pg, [kind |-> "program", page |-> write.page, dword |-> write.next,
                         data |-> write.data])
  /\ at' = "busy"
  /\ UNCHANGED <<cr, wd, chip>> /\ UNCHANGED vars

(* Mutant: the result is taken before BSY has cleared. *)
write_dwords_next_no_wait ==
  /\ pc = "program" /\ at = "busy"
  /\ sr' = clear_eop
  /\ AdvanceLoop("lock")
  /\ at' = IF pc' = "lock" THEN "call" ELSE "start"
  /\ UNCHANGED fix_result
  /\ ModifyCr([cr EXCEPT !.pg = pc' # "lock"])
  /\ UNCHANGED <<flash, metadata, soft, op, wd, missed, chip>>

(* The rest of one turn; an error leaves PG and LOCK as they are. *)
write_dwords_next ==
  /\ pc = "program" /\ at = "busy" /\ wait
  /\ IF status = "Err"
     THEN FixupFailed /\ at' = "call" /\ UNCHANGED <<cr, sr>>
     ELSE /\ sr' = clear_eop
          /\ AdvanceLoop("lock")
          /\ at' = IF pc' = "lock" THEN "call" ELSE "start"
          /\ UNCHANGED fix_result
          /\ ModifyCr([cr EXCEPT !.pg = pc' # "lock"])
  /\ UNCHANGED <<flash, metadata, soft, op, wd, missed, chip>>

(* lock_flash writes 0 to a bit that only setting would change. *)
lock_flash ==
  /\ write_metadata_return
  /\ ModifyCr([cr EXCEPT !.lock = FALSE])
  /\ at' = "call"
  /\ UNCHANGED <<sr, op, wd, missed, chip>>

-----------------------------------------------------------------------------
(* The flash controller and the watchdog                                   *)

ErasedPages ==
  {p \in Page : /\ op.from <= METADATA_ADDR(p)
                /\ METADATA_ADDR(p) < op.from + page_size(chip.dualbank)}

(* What the operation can leave when it does not complete *)
Halfway ==
  IF op.kind = "erase" THEN
    {flash} \cup UNION {{[flash EXCEPT ![p] = q] : q \in PartlyErased(flash[p])} :
                          p \in ErasedPages}
  ELSE IF op.kind = "program" THEN
    {[flash EXCEPT ![op.page][op.dword] = cell] :
       cell \in PartlyProgrammed(flash[op.page][op.dword])}
  ELSE {flash}

Complete ==
  IF op.kind = "erase"
  THEN [p \in Page |-> IF p \in ErasedPages THEN ErasedPage ELSE flash[p]]
  ELSE [flash EXCEPT ![op.page][op.dword] = op.data]

(* BSY clears; EOP is not up after every success. *)
OperationEnds ==
  /\ op # NoOp
  /\ op' = NoOp
  /\ \/ /\ flash' = Complete
        /\ sr' \in {sr, sr \cup {"eop"}}
        /\ UNCHANGED missed
     \/ /\ flash' \in Halfway
        /\ \E error \in OperationErrors :
             /\ sr' = sr \cup {error}
             /\ missed' = (missed \/ error \notin StatusFlags)
  /\ UNCHANGED <<pc, metadata, write, fix_result, soft, at, cr, wd, chip>>

WatchdogUpdates ==
  /\ \E flag \in wd.updating : wd' = Updated(wd, flag)
  /\ UNCHANGED <<at, cr, sr, op, missed, chip>> /\ UNCHANGED vars

(* A reset of any kind, also as the end of a panic *)
DriverReset ==
  /\ flash' \in IF pc \in {"os_erase", "os_program"} THEN InterruptedFlash ELSE Halfway
  /\ pc' = "reset" /\ metadata' = NoMeta /\ write' = NoWrite /\ fix_result' = "none"
  /\ soft' \in {soft, "none"}
  /\ at' = "call" /\ cr' = ResetCr /\ sr' = {} /\ op' = NoOp
  /\ wd' = AfterReset /\ missed' = FALSE
  /\ UNCHANGED chip

Bite == wd.running /\ pc # "os" /\ DriverReset

(* failsafe_boot, and select_image when no image verifies *)
Panic == (pc = "failsafe" \/ NoImageVerifies) /\ DriverReset

(* The OS has a driver of its own. *)
DriverOs ==
  /\ \/ OsRequestSoftReboot
     \/ \E p \in Page, m \in Metadata : OsUpdate(p, m)
     \/ OsErase
     \/ OsProgram
  /\ UNCHANGED driver /\ UNCHANGED chip

(* Mutant: setup_and_start gives the start key last. *)
setup_waits_first ==
  /\ pc = "reset"
  /\ \/ /\ at = "call" /\ at' = "update"
        /\ wd' = write_rlr(write_pr(key_enable(wd)))
     \/ /\ at = "update" /\ wd.updating = {} /\ at' = "run"
        /\ wd' = key_start(feed(wd))
  /\ UNCHANGED <<cr, sr, op, missed, chip>> /\ UNCHANGED vars

DriverCalls_watchdog_last ==
  \/ setup_waits_first
  \/ unlock_flash_keys
  \/ unlock_flash_check
  \/ erase_page_select
  \/ erase_page_start
  \/ erase_page_result
  \/ write_dwords_begin
  \/ write_dwords_write
  \/ write_dwords_next
  \/ lock_flash

(* What the boot does in watchdog.rs and flash.rs *)
DriverCalls ==
  \/ watchdog_start
  \/ watchdog_configure
  \/ watchdog_update
  \/ unlock_flash_keys
  \/ unlock_flash_check
  \/ erase_page_select
  \/ erase_page_start
  \/ erase_page_result
  \/ write_dwords_begin
  \/ write_dwords_write
  \/ write_dwords_next
  \/ lock_flash

DriverBoot == DriverCalls \/ CallFree \/ Panic

DriverNext ==
  \/ DriverBoot
  \/ OperationEnds
  \/ WatchdogUpdates
  \/ Bite
  \/ DriverOs
  \/ DriverReset

DriverSpec == DriverInit /\ [][DriverNext]_dvars

-----------------------------------------------------------------------------
(* Properties                                                              *)

(* The driver implements what MetadataFixup takes its calls to be.  The    *)
(* mapping looks ahead: a call has its result as soon as BSY is down.      *)
(* The controller may fail in every way, whatever Faults leaves to the OS. *)
Answered == at = "busy" /\ op = NoOp
Failed == Answered /\ status = "Err"
LastDword == pc = "program" /\ write.next = Dwords

MappedPc ==
  IF Failed THEN "boot"
  ELSE IF Answered THEN (IF LastDword THEN "lock" ELSE "program")
  ELSE pc
MappedWrite ==
  IF Failed \/ (Answered /\ LastDword) THEN NoWrite
  ELSE IF Answered /\ pc = "program" THEN [write EXCEPT !.next = @ + 1]
  ELSE write
MappedResult == IF Failed THEN "Err" ELSE fix_result

Fixup == INSTANCE MetadataFixup
           WITH pc <- MappedPc, write <- MappedWrite, fix_result <- MappedResult,
                Faults <- FaultKinds
ImplementsFixup == Fixup!Spec

(* "TODO: Check that the correct page is erased" (metadata.rs): in both    *)
(* bank modes an erase covers the block being replaced and stays within    *)
(* the space kept for it.                                                  *)
EraseHitsTarget ==
  op.kind = "erase" =>
    /\ op.from <= METADATA_ADDR(write.page)
    /\ METADATA_ADDR(write.page) + METADATA_SIZE <= op.from + page_size(chip.dualbank)
    /\ METADATA_ADDR(write.page) <= op.from
    /\ op.from + page_size(chip.dualbank) <= METADATA_ADDR(write.page) + MAX_PAGE_SIZE

(* "Check and clear all error programming flags due to a previous          *)
(* programming. If not, PGSERR is set" (flash.rs): the driver only starts  *)
(* what the controller accepts, unless an earlier failure went unnoticed.  *)
OperationsAccepted ==
  at = "start" =>
    /\ ~cr.lock /\ op = NoOp
    /\ IF pc = "erase" THEN cr.per ELSE cr.pg /\ ~cr.per
    /\ missed \/ sr \cap ProgrammingFlags = {}

(* A repair is only reported as done and is not when the controller raised *)
(* a flag that status() does not look at (FixOkMeansIntact without the     *)
(* exclusion fails): missing EOPs, refused double words and failed erases  *)
(* are caught by other means.                                              *)
OkUnlessMissed == pc = "boot" /\ fix_result = "Ok" /\ ~missed => Intact(flash)

(* "Configuring the IWDG": once run() goes on, the watchdog is running     *)
(* with the long period and protected, whatever hardware took its time.    *)
WatchdogArmed == pc # "reset" \/ at = "run" => Armed(wd)
=============================================================================
