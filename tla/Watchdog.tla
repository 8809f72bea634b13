------------------------------ MODULE Watchdog ------------------------------
(***************************************************************************)
(* The independent watchdog as bootloader/src/watchdog.rs writes to it: a  *)
(* record of what its registers have been told.  PR and RLR can only be    *)
(* written after the key 0x5555 and until any other key, and a write takes *)
(* effect when the hardware clears PVU or RVU, if ever.                    *)
(***************************************************************************)

AfterReset ==
  [running |-> FALSE, access |-> FALSE, divide_by256 |-> FALSE, updating |-> {}]

Watchdogs ==
  [running : BOOLEAN, access : BOOLEAN, divide_by256 : BOOLEAN,
   updating : SUBSET {"pvu", "rvu"}]

(* KR: 0xCCCC, 0x5555 and 0xAAAA.  The last one is feed(); how far the     *)
(* counter is down does not matter here, it may bite whenever it runs.     *)
key_start(wd) == [wd EXCEPT !.running = TRUE, !.access = FALSE]
key_enable(wd) == [wd EXCEPT !.access = TRUE]
feed(wd) == [wd EXCEPT !.access = FALSE]

(* PR, then RLR, which gets the value it has after a reset *)
write_pr(wd) ==
  IF wd.access THEN [wd EXCEPT !.divide_by256 = TRUE, !.updating = @ \cup {"pvu"}] ELSE wd
write_rlr(wd) ==
  IF wd.access THEN [wd EXCEPT !.updating = @ \cup {"rvu"}] ELSE wd

(* The hardware has taken over one of the two registers. *)
Updated(wd, flag) == [wd EXCEPT !.updating = @ \ {flag}]

(* What setup_and_start is for: it runs, slowly, and is protected again. *)
Armed(wd) == wd = [running |-> TRUE, access |-> FALSE, divide_by256 |-> TRUE, updating |-> {}]
=============================================================================
