# A verification project for Moveloader

Moveloader is a bootloader for the STM32L4R5. It keeps two copies of a metadata
block in flash, repairs the older or broken one at boot, verifies one of three
OS images by its CRC, copies it to RAM and jumps to it. `image-builder` makes
and checks the flash images it starts from. This directory holds TLA+ models of
that code, the TLC configurations that check them on small instances, and
proofs, checked by TLAPS, of every safety property the passing runs check (one,
about the values of known CRCs, can only be run), of every refinement among the
modules, and that every step of a boot lowers a measure that bounds its length, for
every instance.

## Inventory

| Part | State | Operations | Interacts with |
| --- | --- | --- | --- |
| metadata (`bootloader/src/metadata.rs`) | the two metadata pages | `select_metadata`, `internal_select`, `write_metadata`, `select_image`, `verify_image` | flash driver (calls), run (result), OS (shared pages) |
| boot sequence (`bootloader/src/main.rs`) | program position, RAM, `rtc.bkpr` | `run`, `is_soft`, `copy_image_to_ram`, `jump_to_image`, `failsafe_boot`, `panic` | all of the bootloader; OS through RAM and `rtc.bkpr` |
| flash driver (`bootloader/src/flash.rs`) | FLASH_CR, FLASH_SR | `unlock_flash`, `lock_flash`, `erase_page`, `write_dwords`, `wait`, `status`, page numbers for both bank modes | the flash controller |
| pages (`bootloader/src/pages.rs`) | none | `page_span` | copy_image_to_ram |
| watchdog (`bootloader/src/watchdog.rs`) | a hardware counter | `setup_and_start`, `feed` | run, copy_image_to_ram; resets the chip |
| layout and structs (`interface/src/lib.rs`) | none | addresses, `Metadata::is_valid`, `set_crc` | bootloader and image-builder |
| CRC (`interface/src/crc.rs`) | a register | `calc_crc32` | both |
| image-builder write (`generate.rs`, `write.rs`, `byte_utils.rs`) | buffer, output file | `generate_buffer`, `set_buf_from_to`, `write` | file system |
| image-builder read (`read.rs`, `verification.rs`) | collected errors | `read`, plausibility checks | file system, objdump |
| operating system (external) | | updates one metadata page, requests soft reboots, resets | metadata pages, `rtc.bkpr` |
| build, scripts, command line | | | not modelled |

What is hard here is not concurrency between threads, there is none, but the
processor against the power supply, the watchdog and a flash that fails:

* A reset may come between any two flash operations or in the middle of one, and
  whatever is then in flash is the input of the next boot, again and again.
* A boot repairs flash while the flash fails: with an error, or without one.
* Two programs write the same two pages, at different times: the bootloader when
  it repairs, the OS when it updates. Each relies on what the other left.
* The flash controller reports in seven flags, of which the driver looks at three,
  and may not answer at all; only the watchdog ends a wait.
* An OS writes an image and its metadata one after the other: between the two, the
  CRCs are about something that is no longer there.
* Copies to RAM go wrong and are retried a bounded number of times, under a
  watchdog that counts while CRCs are computed.
* Every error that is neither repaired nor ignored ends in a panic, and a panic
  is a reset: whatever is wrong with the flash is met again.

What makes each part correct:

* **metadata**: no interruption and no fault loses the newest complete block,
  brings back an older one, or boots from anything else; a complete update takes
  effect; intact pages are not rewritten; a success that is reported is one.
* **image boot**: what is started is what `select_image` owes, exactly as the
  metadata describes it; a soft reboot happens once; a valid image is reached
  in spite of the watchdog.
* **flash driver**: it erases the page meant, in both bank modes; it only starts what
  the controller accepts; what it reports as done is done; nothing hangs the device.
* **the whole**: the next boot starts what the last completed update put on offer, or
  what was on offer before, never a mixture, and a failed trial does not change it.
* **layout**: no two regions share a page that is erased.
* **CRC**: damage to a block, or to the CRC behind it, is noticed.
* **image-builder**: the file has the layout the bootloader expects, and a file
  that `read` accepts boots.

The hazards, one by one and with their lines, are in `PROJECT.json`.

## Modules

| Module | Models | Checked by | Proved in |
| --- | --- | --- | --- |
| `MetadataPages` | page contents, validity, `internal_select` | (used by `MetadataFixup`) | `MetadataPagesProofs` |
| `AtomicMetadata` | the promise: one block, replaced in one step by a newer one | (refined by `MetadataFixup`) | |
| `MetadataFixup` | `is_soft`, `select_metadata`, `write_metadata` and the driver it calls, the OS update, resets | `fixup_*` | `MetadataFixupProofs` |
| `Layout` | addresses in bytes, page numbers in both bank modes | (used by `FlashDriver`) | `FlashDriverProofs` |
| `Watchdog` | the watchdog's registers and keys | (used by `FlashDriver`) | |
| `FlashDriver` | `flash.rs` and `watchdog.rs` on their registers, with the boot of `MetadataFixup` around them | `device` | `FlashDriverProofs` |
| `ImageBoot` | `is_soft`, `select_image`, `copy_image_to_ram`, `jump_to_image`, `panic`, the watchdog | `image_boot_*` | `ImageBootProofs` |
| `ImageChoice` | which slot a boot starts: the one asked for, the preferred one, or the first that verifies | (refined by `ImageBoot` and `Moveloader`) | |
| `BootPromise` | the promise to an OS: one image on offer, one image on trial | (refined by `Moveloader`) | |
| `Moveloader` (`MCMoveloader`) | all of `run()`: `MetadataFixup` with image slots, an OS that updates both | `moveloader` | `MoveloaderProofs` |
| `Device` (`MCDevice`) | all of `run()` on the registers: `FlashDriver` and `Moveloader` together | `device` | `DeviceProofs` |
| `Crc` (`MCCrc`) | `calc_crc32` bit by bit, `set_crc`, `is_valid` | `crc32` | `CrcProofs` |
| `ImageBuilder` (`MCImageBuilder`) | image-builder `write` and `read`, the file in between | `image_builder` | `ImageBuilderProofs` |

How they fit: `FlashDriver` and `Moveloader` both extend `MetadataFixup`, one
downwards and one upwards. `FlashDriver` replaces each driver call by its steps and
is shown to implement the results that `MetadataFixup` lets those calls have.
`Moveloader` adds slots and images, takes over every metadata action as it is (so that
each of its behaviours is one of `MetadataFixup`, theorem `MetadataHalf`), and replaces
the image half by what `ImageBoot` shows of it: both are shown to implement `ImageChoice`, so
they agree on the slot that is started. `Device` puts the two together, run() with slots
and images on the driver's own register accesses, and is shown to implement `Moveloader`. What the other modules assume of a CRC
is the subject of `Crc`.

### MetadataPages and MetadataFixup

A page is a function from the double words of `struct Metadata` to cells: erased,
garbled, or the double word of some block. That is all the CRC has to tell
apart: it is taken as injective, so a page is valid when all its cells come from
one block. `Crc` shows which damage that is certain for; collisions beyond are
outside the models.

The actions follow the code call by call: `select_metadata` up to the call of
`write_metadata`; `unlock_flash`; the erase; one action per double word of
`write_dwords`; `lock_flash` with the return. A `?` is `FixupFailed`, after which
`run` goes on and boots, since it ignores `fix_result`. The variable `metadata`
is the copy in the processor's memory, which is why a boot survives a repair that
fails.

The flash controller is external and appears through the results that the driver
lets its callers see. `Faults` says which may go wrong: `unlock`, `erase` and
`program` with an error, and `silent` for operations that end without effect
and without a flag that `status()` looks at. An interrupted or failed erase leaves
each double word as it was, erased or garbled; a double word that is not erased
is refused (PROGERR). `Reset` may happen anywhere and also interrupts an
operation that is under way. It stands for power loss (which also clears
`rtc.bkpr`), watchdog, pin and the OS resetting itself. A panic is a step of the boot:
`failsafe_boot` when there is no valid metadata, and `select_image_panics`, the `todo!()` at
the end of `select_image`, when none of the images verifies. Whether one does is up to
the slots, which this module does not have. `Bootable` is the set of payloads that are
sure to describe an image that verifies; any other may end either way. `Moveloader`
and `Device`, which have the slots, decide it by them and set `Bootable` to {}.

The OS does what `doc/User-Guide.md` asks: it overwrites *one* of the pages with a
higher version. The guide does not say which. `OsSparesNewest` is the difference:
with TRUE the OS never overwrites the only page that holds the newest block, with
FALSE it follows the letter of the guide.

`Init` has every content one block may have left in each page, complete, partial
or damaged: what image-builder writes and what `scripts/test_hardware.sh` damages.

### Layout, Watchdog and FlashDriver

`FlashDriver` keeps FLASH_CR (LOCK, PG, PER, the page selection) and FLASH_SR (the set
of flags that are up). Each driver function is two or three actions, cut where it
waits for BSY or where a register write starts an operation; the operation itself is
`op`, and `OperationEnds` is the controller's: it completes, with or without EOP, or
leaves the flash halfway and raises one of `OperationErrors`. Nothing makes it happen.
What the controller refuses (PGSERR, PROGERR, a locked CR) is what the comments of
`flash.rs` quote from its manual. On this chip flags are cleared by writing one; the
code writes zero. Both are in the model (`chip.write_one_clears`), and all that is
checked holds for both: after an error the driver gives up for this boot, and without one
only EOP is up, which nobody looks at a second time.

`missed` is history: an operation of this boot failed with flags `status()` ignores.

`Watchdog` has the keys of `setup_and_start` and the two registers, which the hardware
updates when it likes (`WatchdogUpdates`). `Bite` is the watchdog once it runs.

`Layout` has the constants of `interface/src/lib.rs` with their values. Its users are
the page number and the selection that `erase_page` computes, and the page the
controller erases for it.

### Moveloader and BootPromise

A slot holds a complete image or remains (`Torn`), and the CRC in a metadata block is the
image it was computed from, so that `verify_image` is equality. `m_select_image` settles
on a slot; `copy_and_jump` starts its content, verified or, after a soft reboot, not. The
OS may erase and write slots and one metadata page, in the order the guide asks for: the
image before the metadata, and never the only image that could still be started
(`OsEraseSlot`). A torn image that is started does nothing but wait for the watchdog.

`BootPromise` has no flash: an offer, which only a running OS replaces, and a trial.
`offer <- Offer` is what `select_metadata` and `select_image` would come to from the
flash as it is now. The step that completes a metadata update is `Replace`. Whatever a
boot repairs, and whatever is interrupted, must leave `Offer` alone.

`ImageChoice` has no flash either: the slot that the durable metadata prefers, the slots that
agree with it, and the slot a trial has been asked for. `Moveloader` maps it to the flash
as it is (`DurablePreferred`, `DurableVerified`), not to what this boot has read, so that a repair
or an interruption that changed the choice would be a step `ImageChoice` does not have.

### Device

`Device` takes the driver's actions from `FlashDriver` (`DriverCalls`), the steps of run() that
call no driver from `Moveloader` (`RunSteps`), and one reset for both: the flash stops
halfway through the operation the controller is at, and the slots stay. Only a running OS feeds the
watchdog, so that a torn image that was started, and every wait for the hardware, ends in
`DeviceBite`. `Whole` is `Moveloader` with the mapping that `FlashDriver` has: a call has
its result as soon as BSY is down.

### ImageBoot

Begins where a boot has its metadata. Memory is counted in units, a few per page;
a CRC is the tuple of the units it covers. A copy of a page may go wrong
(`RamFaults` times in one boot) and then garbles one unit. `unfed` counts CRC
calculations since `watchdog::feed`; with more than `budget` of them (one of
`WatchdogBudgets`, chosen once) the chip resets, and nothing else can happen. `Restart` keeps only `rtc.bkpr`, or not
even that. The bound 3 of `copy_image_to_ram` is the code's own. `requested` is history: the slot the OS
has asked for in the registers, however many resets lie between, until one of them (power
loss) clears the registers.

A reset makes RAM stale in the model. That loses nothing: a boot either overwrites
the whole of what it compares, or (`image_boot_empty`) compares nothing.

### Crc

A `u32` is the set of its bits that are one; memory is a set of bits as well. One
action per byte and per turn of the inner loop. The call in `set_crc`, on the block as it
was, and the call in `is_valid`, on the block with some bits flipped, run side by
side: that relates two executions of the function in one invariant. `Cases` are the
blocks and the flipped bits. A null pointer returns early.

### ImageBuilder

Files are sequences of four-byte words; a metadata block takes one of them. Each
`?` and each check of `generate_buffer` is a way to fail. The medium may change
one word behind `write`'s back, or fail halfway. Between the commands the file may
be damaged, cut off, or given other metadata (`Edit`, at most `MaxEdits` times).
Zeroed and erased words decode to what zeroed and erased metadata decode to. The
plausibility checks reject what begins like an ELF file (`ElfMagic`) and keep their two
thresholds, on words instead of instructions. objdump, and the temporary file it
is given, may fail each time (`objdump_runs`), and so may reading the file. `hindered` is
history: that has happened to `read`, so that its rejection says nothing of the file.

## Runs

| Run | What it asks | Result |
| --- | --- | --- |
| `fixup_durable` | every fault, soft reboots, an OS that spares its newest block: are the pages one atomic block; is every boot and every update safe; does a device whose newest block describes an image that verifies reach its OS? | holds |
| `moveloader` | metadata and images together, faults that are reported, trials: is the promise kept, is every update old or new, is the slot that is started the one `ImageChoice` has, does the device come back; does Ok(()) mean two good pages? | holds |
| `device` | run() register by register, both bank modes, operations that fail under any kind of flag or never end: does the device implement `Moveloader`; are the erases on target, the operations accepted; does every step bring a boot closer to its end, and does nothing hang? | holds |
| `image_boot_retry` | is what starts exact after two bad copies, and the slot the one `ImageChoice` has; does every step bring the boot closer to its end; does a soft reboot start the slot the OS asked for, once; does a watchdog that allows the longest search never bite, and does the preferred image boot with any other? | holds |
| `crc32` | the values of the tests; is every flipped bit and word noticed? | holds |
| `image_builder` | layout, reread, does an accepted file boot, and is a generated one only rejected when it could not be read or objdump not be run? | holds |
| `fixup_ignored_error` | is the rule of the guide (overwrite either page) enough when an erase can fail? | **violated**: main.rs:147 |
| `fixup_soft_skips_repair` | ... and when the OS uses soft reboots? | **violated**: main.rs:135 |
| `fixup_silent_failure` | does Ok(()) mean two good pages on flash that fails silently? | **violated**: metadata.rs:59 |
| `image_boot_copy_error` | is an image only started when it verified, after three bad copies? | **violated**: main.rs:158 |
| `image_boot_soft` | ... and after a soft reboot? | **violated**: main.rs:136 |
| `image_boot_empty` | does what is started come from flash? | **violated**: metadata.rs:71 |

The violations are disagreements of the code with its documents; `PROJECT.json`
quotes the line each time ("findings"). In words:

* The guide lets the OS overwrite either page. That is safe because every boot
  repairs the other page first (proved, `GuidePolicySuffices`), and two things break it: a
  repair that fails is ignored, and a soft reboot skips it. An OS can protect itself by
  overwriting only a page that does not hold the only newest block
  (`OsSparesNewest`), and for such an OS it is proved under every fault.
* `lock_flash` clears LOCK. The bit can only be set, so the flash stays open. No run
  asks for it: theorem `OnlyResetLocks` has it, that nothing but a reset sets LOCK again.
* A double word that fails without a flag `status()` looks at is not noticed.
* `copy_image_to_ram` reports a copy that never matched, and `run` starts it.
* A slot with default metadata verifies. If it is chosen, RAM is started as it is.
* A soft reboot copies and starts a slot that nobody has verified, though the guide says
  that only verified images are booted. `BootPromise` has that as a trial, about
  which nothing is promised but that it happens once, and with the slot asked for.

### Bounds

* `fixup_*`: `MaxVersion` 3 and two payloads: one version below and one above the
  current one, and blocks that differ only in their payload. Each update raises the
  version, so at most two updates happen after the first block; two are enough for
  an update to meet the remains of an interrupted one. `Dwords` 2: a first and a last
  double word. `Bootable` is one of the payloads, so that with the other a boot may panic
  forever. The proofs have no bound.
* `moveloader`: two slots, two images, four payloads (either slot preferred, the images
  either way round) and `MaxVersion` 2: one update after the block image-builder
  writes, started, interrupted and started again, with the other slot in any state.
  `MInit` has every combination of damaged slots and pages. A preferred_image out of
  range is in `image_boot_*` only.
* `device`: two slots and one image, which is in both of them, in one or in none, `MaxVersion` 2, both bank modes, both ways to clear
  flags, and one error flag of each sort: one that `status()` sees, one that it
  ignores and the controller refuses to go on with, and one that both ignore.
* `NUMBER_OF_IMAGES` is the code's 3 in `image_boot_*`. Slots have two pages of two units,
  and images end in the middle of the second page, which is what `page_span` must get
  right; `image_boot_empty` adds length 0. `ImageBootProofs` has every length.
* `RamFaults` 2 is what three attempts can repair, 3 what they cannot.
* `WatchdogBudgets` {2, 5}: 5 is the longest path without a feed: the preferred image,
  three images in the search, and the CRC before the copy. 2 is the shortest one, with
  which a search does not end in time: there the watchdog bites in the model, and
  `BootsWhenPossible` only holds when the preferred image verifies. Which of the two a
  device has depends on its clock and on image sizes: the code counts on 32 seconds
  (watchdog.rs:49).
* `crc32`: the buffers of the tests up to eight bytes and the 60-byte blocks; every
  single bit, every whole word and its two ends in the short ones. The test of 387
  bytes is left out for time. CHECK_DEADLOCK is off: the function returns.
* `image_builder`: pages of two words, slots of three, two words behind the slots,
  four bootloaders, six images, two edits: enough to change both metadata
  blocks alike. CHECK_DEADLOCK is off for this run: the commands end.

### Fairness

`FairSpec` of `MetadataFixup` has weak fairness on the boot's own steps: the
processor executes code, and BSY clears after an operation. There is none on the
OS, on faults or on `Reset`. Liveness is claimed when the resets stop
(`ResetsStop`), except for those the bootloader causes itself: panics and the
watchdog are not excused. In `MetadataFixup` that is the reset in `failsafe` and the one in
`select_image` with a payload outside `Bootable`: both may go on forever, and
`BootsWithMetadata` says that a device whose newest block has a payload in `Bootable`
comes to its OS nevertheless. `FairSpec` of `ImageBoot` and `MFairSpec` of `Moveloader` add
the watchdog, which counts on its own clock and resets whatever does not feed it (in
`Moveloader`: a torn image). `DeviceFairSpec` has the processor and the watchdog, and
nothing of the flash controller: `NeverHangs` (a boot ends in a running OS or in a reset, always)
must hold when BSY never clears and when PVU and RVU never do.

## Proofs

Everything in the eight proof modules holds for all values of the constants that
satisfy the named assumptions (`...Assumption` in the modules) and those stated with
a theorem: any number of double words, any versions and payloads, any subset of the
faults; any number of images, any page size that divides a slot, any image lengths; any
error flags; any files and any layout that passes the static assertions; any block.

Metadata (`MetadataPagesProofs`, `MetadataFixupProofs`):

1. `SelectNewest` (with its lemmas): what `internal_select` returns, for all pages.
   `CurrentIsNewer`, `CurrentAfterWrite`: what happens to the selected block when
   one page changes.
2. `TypeCorrect`: `TypeOK` is inductive; the shape of `write` depends on `pc`.
3. `RepairSafe`: `BootWriteInv` is inductive together with `TypeOK`. It says that a
   repair only ever touches a page whose counterpart holds the very block this
   boot works with. That is the whole reason why a repair may be interrupted
   anywhere or fail in any way: whatever becomes of the page written, `internal_select`
   finds the other one, and a page that became valid holds the same block.
4. `UpdateSafe` (assuming `OsSparesNewest`): the same for an update. Until its
   last missing double word arrives the page written is not the one that decides, from
   then on it is complete and newer.
5. `Refinement` (assuming `OsSparesNewest`): every step of `MetadataFixup` is a step
   or a stutter of `AtomicMetadata` under `current <- Current(flash)`,
   `handed <- metadata`, from 3 and 4. The step that completes an update is
   `Publish`; all others that touch flash are stutters.
   It does need the assumption: an OS that updates twice in one run by the letter of the
   guide may overwrite the page with its newest block, and the block of the other page is
   then an older one again until the update is complete.
6. `RepairKeepsCurrent`: without that assumption, what `BootWriteInv` gives for the boot.
   `BootKeepsCurrent` says that no step outside the page writes of the OS changes
   `Current(flash)`: no repair, no error, no interruption of a repair, under every fault
   and whatever the OS before has left in the pages. So it is the OS alone that can lose
   its newest block, and 5 only asks something of it.
7. `UpdateEffective`: for every OS. `NewerThanOther` is inductive: the version of
   an update is higher than that of the block it was begun with, hence than what the other
   page holds, which nobody writes meanwhile (`CurrentBoth`). So a page that has
   been written completely decides, also for an OS that has given up its newest block.
8. `FlashCyclesSaved` and `FixReported` (assuming no silent failure) follow from the same
   invariants; the second needs `FixProgress`, which says how far a repair has come
   (`FixGoesOn`).
9. `SparingNeverBreaks` (assuming `OsSparesNewest`): by 3 and 4 no step takes the current
   block away without leaving another, and only a boot without one gets to `failsafe`.
10. `GuidePolicySuffices`: the same without `OsSparesNewest`, when no flash operation fails
   and there are no soft reboots. The invariant: the OS only runs when both pages are
   valid, and a page is programmed from front to back, so that at every moment one of
   them is whole.

The whole (`MoveloaderProofs`): `MetadataHalf` carries every theorem above over. The rest is
about `Offer`: an OS only erases a slot that is not on offer or has a replacement, and a
change of the current block happens in one step (`UpdateSafe`), to one whose preferred
image was verified when the update began and is still there. `PromiseIsKept` is the
refinement of `BootPromise`, `OldOrNewImage` the action property. `MChoiceRefined` is the
refinement of `ImageChoice`: what the boot has read is what is durable (`RepairSafe`), and the
first of the verified slots exists (`FirstExists`). These three assume `OsSparesNewest`.
`OfferOutlivesBoots` does not: `BootKeepsOffer` says that `Offer` only changes while a complete
image runs. It follows from `RepairKeepsCurrent`, as no boot writes a slot and pages are
only written by an OS that runs (`OnlyOsWrites`).

Flash driver (`FlashDriverProofs`):

1. `EveryAddressErasable`, `RegionsApart`, `EraseStaysInRegion`: arithmetic on the
   real addresses, for every address and both page sizes.
2. `DriverInv` says what CR, SR and `op` hold at each place of the driver. From it
   `DriverTypeCorrect`, `EraseOnTarget` (with 1), `AlwaysAccepted`, `AlwaysArmed`.
3. `DriverImplements`: `Fixup` is `MetadataFixup` with all faults, since the controller may
   fail in every way; `Faults` only limits what the writes of the OS meet, and any value of
   it is covered (`SameErase`, `SameDword`). The mapping looks ahead,
   because a call has its result as soon as BSY is down; `OperationEnds` is the step
   that maps to `write_metadata_erase` or `write_metadata_program`, and the steps before
   and after are stutters.
4. `OkMeansDone`: `RepairInv` says which double words are in place, and that an operation
   which failed is either in `missed`, or in a flag `status()` sees.
5. `OnlyResetLocks`: once LOCK is clear it stays so until the next reset, since `lock_flash`
   writes zero to a bit that only a one would set. `LockInv` is what is needed for the steps
   before `unlock_flash`: there CR is as the reset left it.

`OperationsAccepted` and `AlwaysAccepted` end with the first failure that `status()` misses
(`missed`): what the driver starts after one may be refused, and is then refused without
an error. That case is in `DriverImplements` and `DeviceImplements`, which have it as a
silent fault of `MetadataFixup`.

Device (`DeviceProofs`):

1. `DriverHalf`: a step of the device is one of `FlashDriver` or leaves it alone, because the
   steps of `Moveloader` that are new happen between two calls (`PlaceInv`). So `DriverInv`
   and the theorems about the driver hold.
2. `DeviceImplements`, again for any `Faults`: `DriverStep` of `FlashDriverProofs` gives a step of
   `MetadataFixup`, and `CallsStep` says which one: the driver and the controller only take
   steps of `write_metadata`. A step of run() or of the OS is the step of the same name
   (`RunStep`, `OsStep`), since the mapping is the identity outside the driver
   (`PlainOutsideCalls`); a reset is one in both, also in the middle of a call that
   already has its result (`ResetStep`).
3. `DevicePromise`, `DeviceOldOrNew`, `DeviceChoice`, `DeviceAtomic`, `DeviceNeverBreaks`,
   `DeviceSavesCycles`, `DeviceUpdate`, `DeviceKeepsOffer`: `W` is an instance of `MoveloaderProofs` under the mapping, so that
   its theorems, and those of `MetadataFixupProofs`, are facts about the mapped variables of the
   device. What is proved here is that each property means the same for the variables
   themselves. The first five assume `OsSparesNewest`, as the theorems do that they
   come from; the last three hold for every OS.
4. `DeviceBootEnds`: `BootStepsLeft` goes down with every step of run() and of the driver that is not
   a reset. `AlwaysWatched`: whenever no OS runs, the watchdog does, from the first
   access on. Together they are the safety half of `NeverHangs`: a boot can neither go in
   circles nor stop where nothing ends it.

Image boot (`ImageBootProofs`):

1. `PageSpan`: the pages of an image cover it and stay within its memory. The Kani
   harnesses `verify_page_span_*` (pages.rs:46) check this for two page sizes. The
   theorem is about unbounded numbers; `length + page_size - 1` does not overflow a
   `u32` for lengths up to `FLASH_SIZE`.
2. `TypeCorrect`: by `PageSpan` the page loop never leaves the slot. That a slot is a whole
   number of pages (`UnitsAssumption`) is `RegionIsWholePages` of `FlashDriverProofs`, for the
   real addresses and both page sizes.
3. `SoftRequestConsumed`: inductive as it stands.
4. `WatchdogIsFed` (for a watchdog that allows `NUMBER_OF_IMAGES + 2` CRCs, and no image of
   length 0): the invariant `FedInTime` bounds the CRCs since the last feed at every
   place of `run`. A length of 0 would skip the page loop, the only place that feeds,
   which is why it must be excluded.
5. `ThreeFailuresNeeded`: for any number of bad copies, a boot jumps to the right image, and
   to an exact copy of it unless three copies went wrong in this very boot. `Selected` says
   that the loop has passed over images that do not verify, only; `CopiedSoFar` counts
   faults against attempts: every earlier attempt was lost to a fault of its own,
   so either the current attempt has had none and all units before the current page
   are exact, or as many faults as attempts have happened. At the third attempt
   two faults are not enough. `ChosenImageBoots` and `SoftBootExact` are what the
   runs check, for `RamFaults <= 2`. For the second, `AskedFor` relates the registers, the slot
   being copied and `requested`.
6. `PreferredIsQuick`: a second CRC of the search is only computed when the preferred image
   does not verify.
7. `ChoiceRefined` (assuming `RamFaults <= 2`): the refinement of `ImageChoice`, from 5. A step of the
   search, of a copy or of the watchdog is a stutter, or `Restart`.
8. `EveryBootEnds`: `StepsLeft` counts what the search, the attempts and the pages have left;
   every step of the boot but a reset makes it smaller.

CRC (`CrcProofs`): `BurstsAreDetected` follows one set of bits, where the two registers
differ together with the damage they have not read yet, counted from the bit that is
shifted out next. Reading a byte leaves it alone; a turn of the inner loop divides it,
because division is linear (`DivisionIsLinear`). Until damage is reached it is the damage,
from then on it is a word, and as bit 31 of the polynomial is set no division makes
a word zero that was not (`DivisionKeepsDifference`).

image-builder (`ImageBuilderProofs`): `WriteInv` follows the buffer: what `set_buf_from_to` has
filled is the input followed by zeros, and the rest is untouched. `OriginInv` relates the
file on disk to that buffer, and `ReadInv` says that `read` finds no error in it as long as
nothing has hindered it, which is `WrittenAccepted`: what was generated has passed every
check `read` makes, because `write` made the same ones with objdump running. `CheckInv` says what every image `read` has passed without an error is
like, whoever wrote the file; after six turns (`TurnsCover`) that is `AcceptedBoots`, for any
number of edits.

Only model-checked: liveness (`BootsWithMetadata`, `ComesBack`, `NeverHangs`,
`BootsWhenPossible`; the prover does not reach fairness), and `TestsPass`, which is about
the values of known CRCs. What a recursive definition computes is not needed anywhere: the
models have their loops as steps.

## Not modelled

* Collisions of the CRC beyond what `Crc` shows: a block half overwritten is taken as
  invalid, which is certain for damage within 32 bits and very likely otherwise.
* What follows the last version: `MaxVersion` stands for the end, after which the OS
  makes no update. In the code the number wraps.
* Lengths beyond a slot. Nothing in the bootloader compares the length with anything, but
  a block with a valid CRC and such a length needs an OS that breaks its duties.
* The stack of the OS, which starts inside the RAM an image of more than 320 KB is
  copied to. It is used only after `jump_to_image`.
* `objdump` and the matching of its lines (`verification.rs`): external, except
  that it may fail to run. The ELF magic, the two thresholds and the entry point are in `ImageBuilder`, on words instead of
  instructions. That `read` looks for the entry point of an image shorter than eight bytes
  is a step to `panicked`.
* Command lines, wording of errors and tables, build files and scripts.
* Exceptions: the handlers are the endless loops of cortex-m-rt, which the watchdog
  ends; `Reset` covers that.
* Two blocks of one version with different contents: they are in the initial states,
  but no update creates them.

## Plan

Done in this order, the most important behaviour first: `MetadataPages`,
`AtomicMetadata`, `MetadataFixup`, `ImageBoot`, `ImageBuilder`, `Moveloader`, `Layout`,
`FlashDriver`, `Crc`, each followed by its proofs; then `ImageChoice` and `Device`, which
join what was separate.

What is left: nothing of the original plan. Liveness could be carried further by hand from
`DeviceBootEnds`, `EveryBootEnds` and `AlwaysWatched`, which are its safety half, in a prover
that reaches fairness.
