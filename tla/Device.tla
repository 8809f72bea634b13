------------------------------- MODULE Device -------------------------------
(***************************************************************************)
(* The whole device: run() of Moveloader on the steps that flash.rs and    *)
(* watchdog.rs take on their registers (FlashDriver), with the slots, the  *)
(* operating systems in them, and resets between any two register          *)
(* accesses.  The driver never touches a slot, and the image half of a     *)
(* boot never touches a register of the flash controller.                  *)
(***************************************************************************)
EXTENDS FlashDriver, Moveloader

registers == <<cr, sr, op, wd, missed, chip>>
devicevars ==
  <<flash, pc, metadata, write, fix_result, soft, at, cr, sr, op, wd, missed, chip,
    slots, bkpr1, index, running>>

DeviceInit == MInit /\ DriverInit

(* The steps of run() that do not call the driver *)
RunSteps ==
  /\ \/ at = "run" /\ m_is_soft
     \/ select_metadata /\ UNCHANGED images
     \/ m_select_image
     \/ copy_and_jump
  /\ at' = "call"
  /\ UNCHANGED registers

DeviceReset == DriverReset /\ ImagesReset

DeviceBoot ==
  \/ DriverCalls /\ UNCHANGED images
  \/ RunSteps
  \/ NothingToBoot /\ DeviceReset

Hardware == (OperationEnds \/ WatchdogUpdates) /\ UNCHANGED images

(* Only a running OS feeds the watchdog once run() has started it.          *)
DeviceBite == wd.running /\ ~OsRuns /\ DeviceReset

DeviceOs == MOs /\ UNCHANGED driver /\ UNCHANGED chip

DeviceNext ==
  \/ DeviceBoot
  \/ Hardware
  \/ DeviceBite
  \/ DeviceOs
  \/ DeviceReset

DeviceSpec == DeviceInit /\ [][DeviceNext]_devicevars

(* The processor runs and the watchdog counts; the controller need not     *)
(* ever answer.                                                            *)
DeviceFairSpec ==
  DeviceSpec /\ WF_devicevars(DeviceBoot) /\ WF_devicevars(DeviceBite)

-----------------------------------------------------------------------------
(* Properties                                                              *)

(* Moveloader is right about the whole: with the mapping of FlashDriver,   *)
(* every register access under every failure is one of its steps or none   *)
(* (run, write_metadata, copy_image_to_ram).                               *)
Whole == INSTANCE Moveloader
           WITH pc <- MappedPc, write <- MappedWrite, fix_result <- MappedResult,
                Faults <- FaultKinds
ImplementsWhole == Whole!MSpec

(* Every step of run() and of the driver brings the boot closer to its    *)
(* end, when a repair or a copy fails too: nothing but a reset starts it   *)
(* over, and it only waits where the hardware has to answer (run,          *)
(* select_metadata, write_metadata, flash.rs).                             *)
BootStepsLeft ==
  CASE pc = "reset"   -> 2 * Dwords + (CASE at = "call" -> 15 [] at = "configure" -> 14
                                         [] at = "update" -> 13 [] OTHER -> 12)
    [] pc = "select"  -> 2 * Dwords + 11
    [] pc = "unlock"  -> 2 * Dwords + (IF at = "call" THEN 10 ELSE 9)
    [] pc = "erase"   -> 2 * Dwords + (CASE at = "call" -> 8 [] at = "start" -> 7 [] OTHER -> 6)
    [] pc = "program" -> 2 * (Dwords - write.next)
                           + (CASE at = "call" -> 7 [] at = "start" -> 6 [] OTHER -> 5)
    [] pc = "lock"    -> 4
    [] pc = "boot"    -> IF index = NoSlot THEN 3 ELSE 2
    [] OTHER          -> IF running = NoImage THEN 1 ELSE 0
BootAdvances ==
  [][DeviceBoot /\ ~DeviceReset => BootStepsLeft' < BootStepsLeft /\ BootStepsLeft' >= 0]_devicevars

(* "if those happen to run infinitely, we will not get reset by the        *)
(* watchdog, which would be very bad" (watchdog.rs): whatever the flash    *)
(* controller or the watchdog never answers, and whatever it is that has   *)
(* been started, a boot ends in a running OS or in another reset.          *)
NeverHangs == []<>(OsRuns \/ (pc = "reset" /\ at = "call"))
=============================================================================
