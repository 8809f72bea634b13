-------------------------- MODULE ImageBootProofs --------------------------
(***************************************************************************)
(* Theorems about ImageBoot, for any number of images, any slot and page   *)
(* size, any lengths and any number of faults the statement allows.        *)
(***************************************************************************)
EXTENDS ImageBoot, TLAPS

-----------------------------------------------------------------------------
(* page_span                                                               *)

LEMMA Division ==
  ASSUME NEW n \in Nat, NEW p \in Nat, p > 0
  PROVE  /\ n \div p \in Nat
         /\ p * (n \div p) <= n
         /\ n < p * (n \div p) + p
  BY SMT

(* The pages cover the length, and one page less would not. *)
LEMMA SpanCovers ==
  ASSUME NEW n \in Nat, NEW p \in Nat, p > 0
  PROVE  /\ page_span(n, p) \in Nat
         /\ n <= p * page_span(n, p)
         /\ p * page_span(n, p) < n + p
<1>1. n + p - 1 \in Nat
  OBVIOUS
<1>2. /\ (n + p - 1) \div p \in Nat
      /\ p * ((n + p - 1) \div p) <= n + p - 1
      /\ n + p - 1 < p * ((n + p - 1) \div p) + p
  BY <1>1, Division
<1>3. QED
  BY <1>2 DEF page_span

LEMMA MultiplyLess ==
  ASSUME NEW p \in Nat, p > 0, NEW a \in Nat, NEW b \in Nat, p * a < p * b
  PROVE  a < b
<1>1. SUFFICES ASSUME a >= b PROVE FALSE
  OBVIOUS
<1>2. a = b + (a - b) /\ a - b \in Nat
  BY <1>1
<1>3. p * a = p * b + p * (a - b)
  BY <1>2
<1>4. p * (a - b) >= 0
  BY <1>2
<1>5. QED
  BY <1>3, <1>4

(* What the harnesses verify_page_span_min and verify_page_span_max of     *)
(* pages.rs check for two page sizes: for every page size that divides the *)
(* memory, the pages of an image cover it and lie within the memory.       *)
THEOREM PageSpan ==
  ASSUME NEW n \in Nat, NEW capacity \in Nat, NEW p \in Nat,
         p > 0, n <= capacity, capacity % p = 0
  PROVE  /\ page_span(n, p) \in 0 .. capacity \div p
         /\ n <= p * page_span(n, p)
         /\ n > 0 => page_span(n, p) > 0
<1>1. /\ page_span(n, p) \in Nat
      /\ n <= p * page_span(n, p)
      /\ p * page_span(n, p) < n + p
  BY SpanCovers
<1>2. /\ capacity \div p \in Nat
      /\ capacity = p * (capacity \div p)
  BY SMT
<1>3. p * page_span(n, p) < p * (capacity \div p) + p
  BY <1>1, <1>2
<1>4. p * (capacity \div p) + p = p * (capacity \div p + 1)
  BY <1>2
<1>5. page_span(n, p) < capacity \div p + 1
  BY <1>1, <1>2, <1>3, <1>4, MultiplyLess
<1>6. ASSUME n > 0, page_span(n, p) = 0 PROVE FALSE
  BY <1>1, <1>6
<1>7. QED
  BY <1>1, <1>2, <1>5, <1>6

-----------------------------------------------------------------------------
(* Types                                                                   *)

LEMMA MetadataShape ==
  ASSUME NEW md \in Metadata
  PROVE  /\ md.preferred_image \in Image \cup {NUMBER_OF_IMAGES}
         /\ \A i \in Image : md.images[i].length \in Lengths
  BY SMT DEF Metadata, ImageMetadata

LEMMA Units ==
  /\ NUMBER_OF_IMAGES \in Nat /\ NUMBER_OF_IMAGES > 0
  /\ PageUnits \in Nat /\ PageUnits > 0 /\ SlotUnits \in Nat /\ SlotUnits > 0
  /\ SlotUnits % PageUnits = 0
  /\ \A n \in Lengths \cup {0, SlotUnits} : n \in Nat /\ n <= SlotUnits
  /\ 0 \in Image
  BY ImagesAssumption, UnitsAssumption DEF Image

LEMMA SpanInSlot ==
  ASSUME NEW n \in Lengths \cup {0, SlotUnits}
  PROVE  /\ page_span(n, PageUnits) \in 0 .. SlotPages
         /\ n <= PageUnits * page_span(n, PageUnits)
         /\ n > 0 => page_span(n, PageUnits) > 0
  BY Units, PageSpan DEF SlotPages

LEMMA SlotPagesType == SlotPages \in Nat
  BY Units, Division DEF SlotPages

(* The values every reset gives to the loop counters. *)
LEMMA Zeroes ==
  /\ 0 \in 0 .. NUMBER_OF_IMAGES
  /\ 0 \in 0 .. SlotPages
  /\ 0 \in 0 .. RamFaults
  /\ \A b \in WatchdogBudgets : 0 \in 0 .. b + 1
  /\ 1 \in 1 .. 3
  BY Units, SlotPagesType, BoundsAssumption

LEMMA Cleared == ClearedRegisters \in Registers
<1>1. 0 \in Image \cup {NUMBER_OF_IMAGES}
  BY Units
<1>2. QED
  BY <1>1 DEF ClearedRegisters, Registers

LEMMA RestartType ==
  ASSUME TypeOK, Restart, UNCHANGED budget
  PROVE  TypeOK'
<1>1. bkpr' \in Registers /\ requested' \in Image \cup {NUMBER_OF_IMAGES}
  BY Cleared DEF TypeOK, Restart
<1>2. ram' \in RamContents
  BY DEF Restart, StaleRam, RamContents
<1>3. /\ pc' = "reset" /\ soft' = FALSE /\ metadata' = metadata
      /\ scan' = 0 /\ index' = 0 /\ length' = 0 /\ attempt' = 1 /\ page' = 0
      /\ ram_faults' = 0 /\ unfed' = 0 /\ budget' \in WatchdogBudgets
  BY DEF Restart, TypeOK
<1>4. QED
  BY <1>1, <1>2, <1>3, Units, Zeroes DEF TypeOK, PcValues

LEMMA TypeInit == Init => TypeOK
<1>1. SUFFICES ASSUME Init PROVE TypeOK
  OBVIOUS
<1>2. bkpr \in Registers /\ requested \in Image \cup {NUMBER_OF_IMAGES}
  BY <1>1, Cleared DEF Init
<1>3. ram \in RamContents
  BY <1>1 DEF Init, StaleRam, RamContents
<1>4. /\ pc = "reset" /\ soft = FALSE /\ metadata \in Metadata
      /\ scan = 0 /\ index = 0 /\ length = 0 /\ attempt = 1 /\ page = 0
      /\ ram_faults = 0 /\ unfed = 0 /\ budget \in WatchdogBudgets
  BY <1>1 DEF Init
<1>5. QED
  BY <1>2, <1>3, <1>4, Units, Zeroes DEF TypeOK, PcValues

LEMMA TypeStep ==
  ASSUME TypeOK, Next
  PROVE  TypeOK'
<1> USE DEF PcValues
<1>1. ASSUME is_soft, unfed <= budget, UNCHANGED <<budget, requested>> PROVE TypeOK'
  <2>1. bkpr' \in Registers
    BY <1>1, Cleared DEF is_soft, TypeOK
  <2>2. QED
    BY <1>1, <2>1 DEF is_soft, TypeOK, CopyImage, copying
<1>2. ASSUME select_image_preferred, unfed <= budget, UNCHANGED <<budget, requested>> PROVE TypeOK'
  BY <1>2, MetadataShape, Units, BoundsAssumption
    DEF select_image_preferred, TypeOK, CopyImage, copying
<1>3. ASSUME select_image_scan, unfed <= budget, UNCHANGED <<budget, requested>> PROVE TypeOK'
  <2>1. \A i \in Image : i + 1 \in 0 .. NUMBER_OF_IMAGES
    BY Units DEF Image
  <2>2. QED
    BY <1>3, <2>1, MetadataShape, Units, BoundsAssumption
      DEF select_image_scan, TypeOK, CopyImage, copying
<1>4. ASSUME crc_before, unfed <= budget, UNCHANGED <<budget, requested>> PROVE TypeOK'
  <2>1. 0 \in 0 .. SlotPages
    BY Zeroes
  <2>2. QED
    BY <1>4, <2>1, BoundsAssumption DEF crc_before, TypeOK, choice
<1>5. ASSUME copy_page, unfed <= budget, UNCHANGED <<budget, requested>> PROVE TypeOK'
  <2>1. page' \in 0 .. SlotPages
    <3>1. page_span(length, PageUnits) \in 0 .. SlotPages
      BY SpanInSlot DEF TypeOK
    <3>2. page \in Nat /\ page < page_span(length, PageUnits) /\ page' = page + 1
      BY <1>5 DEF copy_page, CopyOnePage, TypeOK
    <3>3. QED
      BY <3>1, <3>2, SlotPagesType
  <2>2. ram' \in RamContents
    BY <1>5 DEF copy_page, CopyOnePage, TypeOK, RamContents
  <2>3. ram_faults' \in 0 .. RamFaults
    BY <1>5, BoundsAssumption DEF copy_page, CopyOnePage, TypeOK
  <2>4. QED
    BY <1>5, <2>1, <2>2, <2>3, BoundsAssumption DEF copy_page, CopyOnePage, TypeOK, choice
<1>6. ASSUME copy_done, unfed <= budget, UNCHANGED <<budget, requested>> PROVE TypeOK'
  BY <1>6 DEF copy_done, TypeOK, choice, copying
<1>7. ASSUME readback, unfed <= budget, UNCHANGED <<budget, requested>> PROVE TypeOK'
  <2>1. 0 \in 0 .. SlotPages
    BY Zeroes
  <2>2. QED
    BY <1>7, <2>1, BoundsAssumption DEF readback, ReadBack, TypeOK, choice
<1>8. ASSUME jump_to_image, UNCHANGED <<budget, requested>> PROVE TypeOK'
  BY <1>8 DEF jump_to_image, TypeOK, choice, copying
<1>9. ASSUME Restart, UNCHANGED budget PROVE TypeOK'
  BY <1>9, RestartType
<1>10. ASSUME OsUpdate PROVE TypeOK'
  BY <1>10 DEF OsUpdate, TypeOK, choice, copying
<1>11. ASSUME OsRequestSoftReboot PROVE TypeOK'
  BY <1>11 DEF OsRequestSoftReboot, Registers, TypeOK, choice, copying
<1>12. QED
  BY <1>1, <1>2, <1>3, <1>4, <1>5, <1>6, <1>7, <1>8, <1>9, <1>10, <1>11
    DEF Next, Boot, WatchdogReset, panic, Reset

LEMMA TypeStutter ==
  ASSUME TypeOK, UNCHANGED vars
  PROVE  TypeOK'
  BY DEF TypeOK, vars

(* Types: among them that no loop counter leaves its range, for every page *)
(* and slot size (copy_image_to_ram, select_image).                        *)
THEOREM TypeCorrect == Spec => []TypeOK
<1>1. Init => TypeOK
  BY TypeInit
<1>2. TypeOK /\ [Next]_vars => TypeOK'
  BY TypeStep, TypeStutter
<1>3. QED
  BY <1>1, <1>2, PTL DEF Spec

-----------------------------------------------------------------------------
(* The soft reboot registers                                               *)

(* A soft reboot is asked for once: is_soft clears the registers before    *)
(* anything can fail, so a reset of any kind in the boot they asked for    *)
(* returns to the metadata.                                                *)
THEOREM SoftRequestConsumed == Spec => []SoftRequestIsConsumed
<1>1. Init => SoftRequestIsConsumed
  BY DEF Init, SoftRequestIsConsumed
<1>2. ASSUME SoftRequestIsConsumed, [Next]_vars PROVE SoftRequestIsConsumed'
  <2>1. CASE is_soft
    BY <2>1 DEF is_soft, SoftRequestIsConsumed, ClearedRegisters
  <2>2. CASE select_image_preferred
    BY <1>2, <2>2 DEF select_image_preferred, SoftRequestIsConsumed
  <2>3. CASE select_image_scan
    BY <1>2, <2>3 DEF select_image_scan, SoftRequestIsConsumed
  <2>4. CASE crc_before
    BY <1>2, <2>4 DEF crc_before, SoftRequestIsConsumed
  <2>5. CASE copy_page
    BY <1>2, <2>5 DEF copy_page, CopyOnePage, SoftRequestIsConsumed
  <2>6. CASE copy_done
    BY <1>2, <2>6 DEF copy_done, SoftRequestIsConsumed
  <2>7. CASE readback
    BY <1>2, <2>7 DEF readback, ReadBack, SoftRequestIsConsumed
  <2>8. CASE jump_to_image
    BY <2>8 DEF jump_to_image, SoftRequestIsConsumed
  <2>9. CASE Restart
    BY <2>9 DEF Restart, SoftRequestIsConsumed
  <2>10. CASE OsUpdate \/ OsRequestSoftReboot
    BY <2>10 DEF OsUpdate, OsRequestSoftReboot, SoftRequestIsConsumed
  <2>11. CASE UNCHANGED vars
    BY <1>2, <2>11 DEF vars, SoftRequestIsConsumed
  <2>12. QED
    BY <1>2, <2>1, <2>2, <2>3, <2>4, <2>5, <2>6, <2>7, <2>8, <2>9, <2>10, <2>11
      DEF Next, Boot, WatchdogReset, panic, Reset
<1>3. QED
  BY <1>1, <1>2, PTL DEF Spec

-----------------------------------------------------------------------------
(* The watchdog                                                            *)

(* CRC calculations since the last feed, along run(): the preferred image, *)
(* every image of the loop and the CRC before the copy in one go, then     *)
(* none until the copy that the last page of an attempt has fed before.    *)
FedInTime ==
  /\ pc \in {"reset", "preferred"} => unfed = 0
  /\ pc = "scan" => unfed <= scan + 1
  /\ pc \in {"crc_before", "panic"} => unfed <= NUMBER_OF_IMAGES + 1
  /\ pc = "copy" => unfed <= IF page = 0 THEN NUMBER_OF_IMAGES + 2 ELSE 0
  /\ pc = "readback" => unfed = 0
  /\ pc = "jump" => unfed <= 1
  /\ pc \in {"crc_before", "copy", "readback"} => length > 0

LEMMA FedInit == Init => FedInTime
  BY DEF Init, FedInTime

LEMMA FedStep ==
  ASSUME 0 \notin Lengths, TypeOK, FedInTime, [Next]_vars
  PROVE  FedInTime'
<1>1. CASE is_soft
  BY <1>1, Units DEF is_soft, CopyImage, FedInTime
<1>2. CASE select_image_preferred
  <2>1. metadata.preferred_image \in Image =>
          metadata.images[metadata.preferred_image].length > 0
    BY MetadataShape, Units DEF TypeOK
  <2>2. QED
    BY <1>2, <2>1, Units DEF select_image_preferred, CopyImage, FedInTime
<1>3. CASE select_image_scan
  <2>1. scan \in Image => metadata.images[scan].length > 0 /\ scan < NUMBER_OF_IMAGES
    BY MetadataShape, Units DEF TypeOK, Image
  <2>2. scan \in Nat /\ scan <= NUMBER_OF_IMAGES /\ unfed \in Nat
    BY Units, BoundsAssumption DEF TypeOK
  <2>3. QED
    BY <1>3, <2>1, <2>2, Units DEF select_image_scan, CopyImage, FedInTime
<1>4. CASE crc_before
  BY <1>4, Units, BoundsAssumption DEF crc_before, choice, TypeOK, FedInTime
<1>5. CASE copy_page
  <2>1. page \in Nat
    BY SlotPagesType DEF TypeOK
  <2>2. QED
    BY <1>5, <2>1 DEF copy_page, CopyOnePage, choice, FedInTime
<1>6. CASE copy_done
  <2>1. page > 0
    BY <1>6, SpanInSlot DEF copy_done, TypeOK, FedInTime
  <2>2. unfed \in Nat
    BY BoundsAssumption DEF TypeOK
  <2>3. QED
    BY <1>6, <2>1, <2>2 DEF copy_done, choice, copying, FedInTime
<1>7. CASE readback
  BY <1>7, Units DEF readback, ReadBack, choice, FedInTime
<1>8. CASE jump_to_image
  BY <1>8 DEF jump_to_image, FedInTime
<1>9. CASE Restart
  BY <1>9 DEF Restart, FedInTime
<1>10. CASE OsUpdate \/ OsRequestSoftReboot
  BY <1>10 DEF OsUpdate, OsRequestSoftReboot, FedInTime
<1>11. CASE UNCHANGED vars
  BY <1>11 DEF vars, FedInTime
<1>12. QED
  BY <1>1, <1>2, <1>3, <1>4, <1>5, <1>6, <1>7, <1>8, <1>9, <1>10, <1>11
    DEF Next, Boot, WatchdogReset, panic, Reset

(* A watchdog that allows two CRCs more than there are images never bites  *)
(* before the OS runs, whatever is in the slots, however many copies go    *)
(* wrong, for every slot and page size (select_image feeds it nowhere,     *)
(* copy_image_to_ram once per page).                                       *)
THEOREM WatchdogIsFed ==
  ASSUME 0 \notin Lengths
  PROVE  Spec => []WatchdogKeepsQuiet
<1>1. Init => TypeOK /\ FedInTime
  BY TypeInit, FedInit
<1>2. TypeOK /\ FedInTime /\ [Next]_vars => (TypeOK /\ FedInTime)'
  BY TypeStep, TypeStutter, FedStep
<1>3. TypeOK /\ FedInTime => WatchdogKeepsQuiet
  <2>1. SUFFICES ASSUME TypeOK, FedInTime PROVE WatchdogKeepsQuiet
    OBVIOUS
  <2>2. /\ unfed \in Nat /\ budget \in Nat /\ NUMBER_OF_IMAGES \in Nat
        /\ scan <= NUMBER_OF_IMAGES /\ scan \in Nat
    BY <2>1, Units, BoundsAssumption DEF TypeOK
  <2>3. QED
    BY <2>1, <2>2 DEF TypeOK, PcValues, FedInTime, WatchdogKeepsQuiet, LongestSearch
<1>4. QED
  BY <1>1, <1>2, <1>3, PTL DEF Spec

-----------------------------------------------------------------------------
(* The image that is started                                               *)

FromFlash(u) == ram[u] = Slot(index)[u]
CopyStages == {"crc_before", "copy", "readback", "jump"}

(* What the search has found out, and what is copied because of it.        *)
Selected ==
  /\ pc \in {"reset", "preferred", "scan", "panic"} => ~soft
  /\ pc = "scan" => Preferred = {} /\ \A i \in Image : i < scan => ~Verifies(i)
  /\ pc \in CopyStages /\ soft => length = SlotUnits
  /\ pc \in CopyStages /\ ~soft =>
       /\ index \in Candidates /\ \A i \in Candidates : index <= i
       /\ length = metadata.images[index].length

(* Every attempt but the last was lost to a bad copy; an attempt without   *)
(* one has copied the pages before the current one exactly.  So it takes   *)
(* three bad copies in one boot to start anything else.                    *)
CopiedSoFar ==
  /\ pc \in {"reset", "preferred", "scan", "crc_before"} => ram_faults = 0
  /\ pc \in {"copy", "readback"} =>
       /\ attempt <= ram_faults + 1
       /\ ram_faults < attempt =>
            \A u \in Unit : u <= PageUnits * page => FromFlash(u)
  /\ pc = "readback" => page = page_span(length, PageUnits)
  /\ pc = "jump" /\ ram_faults <= 2 => \A u \in 1 .. length : FromFlash(u)

LEMMA SelectedInit == Init => Selected
  BY DEF Init, Selected, CopyStages

LEMMA PreferredVerifies ==
  ASSUME metadata.preferred_image \in Image, Verifies(metadata.preferred_image)
  PROVE  Preferred = {metadata.preferred_image} /\ Candidates = {metadata.preferred_image}
<1>1. Preferred = {metadata.preferred_image}
  BY DEF Preferred
<1>2. QED
  BY <1>1 DEF Candidates

LEMMA PreferredFails ==
  ASSUME ~(metadata.preferred_image \in Image /\ Verifies(metadata.preferred_image))
  PROVE  Preferred = {}
  BY DEF Preferred

LEMMA ImageType == Image \subseteq Nat /\ \A i \in Image : i <= i
  BY Units DEF Image

LEMMA SelectedStep ==
  ASSUME TypeOK, Selected, [Next]_vars
  PROVE  Selected'
<1> DEFINE p == metadata.preferred_image
<1>1. ASSUME metadata' = metadata
      PROVE  /\ Preferred' = Preferred /\ Candidates' = Candidates
             /\ \A i \in Image : Verifies(i)' <=> Verifies(i)
  BY <1>1 DEF Candidates, Preferred, Verifies
<1>2. CASE is_soft
  <2>1. /\ pc' \in {"crc_before", "preferred"}
        /\ pc' = "crc_before" => soft' = TRUE /\ length' = SlotUnits
        /\ pc' = "preferred" => soft' = soft
        /\ soft = FALSE
    BY <1>2 DEF is_soft, CopyImage, Selected, TypeOK
  <2>2. QED
    BY <2>1 DEF Selected, CopyStages
<1>3. CASE select_image_preferred
  <2>1. soft = FALSE /\ soft' = FALSE /\ metadata' = metadata
    BY <1>3 DEF select_image_preferred, Selected, TypeOK
  <2>2. CASE p \in Image /\ Verifies(p)
    <3>1. pc' = "crc_before" /\ index' = p /\ length' = metadata.images[p].length
      BY <1>3, <2>2 DEF select_image_preferred, CopyImage
    <3>2. Candidates' = Candidates /\ Candidates = {p}
      BY <1>1, <2>1, <2>2, PreferredVerifies
    <3>3. p <= p
      BY <2>2, ImageType
    <3>4. index' \in Candidates' /\ \A i \in Candidates' : index' <= i
      BY <3>1, <3>2, <3>3
    <3>5. length' = metadata'.images[index'].length
      BY <2>1, <3>1
    <3>6. QED
      BY <2>1, <3>1, <3>4, <3>5 DEF Selected, CopyStages
  <2>3. CASE ~(p \in Image /\ Verifies(p))
    <3>1. pc' = "scan" /\ scan' = 0
      BY <1>3, <2>3 DEF select_image_preferred
    <3>2. Preferred' = {}
      BY <1>1, <2>1, <2>3, PreferredFails
    <3>3. \A i \in Image : ~(i < 0)
      BY ImageType
    <3>4. QED
      BY <2>1, <3>1, <3>2, <3>3 DEF Selected, CopyStages
  <2>4. QED
    BY <2>2, <2>3
<1>4. CASE select_image_scan
  <2>1. soft = FALSE /\ soft' = FALSE /\ metadata' = metadata
    BY <1>4 DEF select_image_scan, Selected, TypeOK
  <2>2. Preferred = {} /\ \A i \in Image : i < scan => ~Verifies(i)
    BY <1>4 DEF select_image_scan, Selected
  <2>3. Candidates = {i \in Image : Verifies(i)}
    BY <2>2 DEF Candidates
  <2>4. scan \in Nat
    BY Units DEF TypeOK
  <2>5. CASE scan \in Image /\ Verifies(scan)
    <3>1. pc' = "crc_before" /\ index' = scan /\ length' = metadata.images[scan].length
      BY <1>4, <2>5, Units DEF select_image_scan, CopyImage, Image
    <3>2. scan \in Candidates /\ \A i \in Candidates : scan <= i
      BY <2>2, <2>3, <2>4, <2>5, ImageType
    <3>3. QED
      BY <1>1, <2>1, <3>1, <3>2 DEF Selected, CopyStages
  <2>6. CASE scan \in Image /\ ~Verifies(scan)
    <3>1. pc = "scan" /\ pc' = pc /\ scan' = scan + 1
      <4>1. scan # NUMBER_OF_IMAGES
        BY <2>6, Units DEF Image
      <4>2. QED
        BY <1>4, <2>6, <4>1 DEF select_image_scan
    <3>2. \A i \in Image : i < scan + 1 => ~Verifies(i)
      BY <2>2, <2>4, <2>6, ImageType
    <3>3. pc' = "scan" /\ scan' = scan + 1 /\ Preferred' = {}
      BY <1>1, <2>1, <2>2, <3>1
    <3>4. \A i \in Image : i < scan' => ~Verifies(i)'
      BY <1>1, <2>1, <3>2, <3>3
    <3>5. QED
      BY <2>1, <3>3, <3>4 DEF Selected, CopyStages
  <2>7. CASE scan = NUMBER_OF_IMAGES /\ pc' = "panic"
    BY <2>1, <2>7 DEF Selected, CopyStages
  <2>8. QED
    BY <1>4, <2>5, <2>6, <2>7 DEF select_image_scan
<1>5. ASSUME metadata' = metadata, UNCHANGED choice,
             pc' = pc \/ (pc \in CopyStages /\ pc' \in CopyStages \cup {"os"})
      PROVE  Selected'
  BY <1>1, <1>5 DEF Selected, CopyStages, choice
<1>6. CASE crc_before \/ copy_page \/ copy_done \/ readback \/ jump_to_image
  BY <1>5, <1>6 DEF crc_before, copy_page, CopyOnePage, copy_done, readback, ReadBack,
                    jump_to_image, CopyStages
<1>7. CASE Restart
  BY <1>7 DEF Restart, Selected, CopyStages
<1>8. CASE OsUpdate \/ OsRequestSoftReboot
  BY <1>8 DEF OsUpdate, OsRequestSoftReboot, Selected, CopyStages
<1>9. CASE UNCHANGED vars
  BY <1>5, <1>9 DEF vars, choice
<1>10. QED
  BY <1>2, <1>3, <1>4, <1>6, <1>7, <1>8, <1>9 DEF Next, Boot, WatchdogReset, panic, Reset

LEMMA CopiedInit == Init => CopiedSoFar
  BY DEF Init, CopiedSoFar

(* The units up to the end of page n lie before that page or in it.        *)
LEMMA PageEnd ==
  ASSUME NEW n \in Nat, NEW u \in Unit, u <= PageUnits * (n + 1)
  PROVE  u <= PageUnits * n \/ u \in PageOf(n)
<1>1. u \in Nat
  BY Units DEF Unit
<1>2. n * PageUnits = PageUnits * n /\ (n + 1) * PageUnits = PageUnits * (n + 1)
  BY Units
<1>3. PageUnits * n \in Nat /\ PageUnits * (n + 1) \in Nat
  BY Units
<1>4. QED
  BY <1>1, <1>2, <1>3 DEF PageOf

LEMMA CopiedStep ==
  ASSUME TypeOK, CopiedSoFar, [Next]_vars
  PROVE  CopiedSoFar'
<1> DEFINE good == calc_crc32(ram, length) = calc_crc32(Slot(index), length)
<1>1. CASE is_soft \/ select_image_preferred \/ select_image_scan
  BY <1>1 DEF is_soft, select_image_preferred, select_image_scan, CopyImage, copying, CopiedSoFar
<1>2. CASE crc_before
  <2>1. \A u \in Unit : ~(u <= PageUnits * 0)
    BY Units DEF Unit
  <2>2. /\ pc' = "copy" /\ attempt' = 1 /\ page' = 0 /\ ram_faults' = 0
    BY <1>2 DEF crc_before, CopiedSoFar
  <2>3. QED
    BY <2>1, <2>2 DEF CopiedSoFar
<1>3. CASE copy_page
  <2>1. page \in Nat /\ attempt \in Nat /\ ram_faults \in Nat
    BY SlotPagesType, BoundsAssumption DEF TypeOK
  <2>2. /\ pc = "copy" /\ pc' = "copy" /\ page' = page + 1 /\ attempt' = attempt /\ index' = index
        /\ attempt <= ram_faults + 1
    BY <1>3 DEF copy_page, CopyOnePage, choice, CopiedSoFar
  <2>3. CASE ram_faults' = ram_faults + 1
    <3>1. attempt <= ram_faults' + 1 /\ ~(ram_faults' < attempt)
      BY <2>1, <2>2, <2>3
    <3>2. QED
      BY <2>2, <3>1 DEF CopiedSoFar
  <2>4. CASE /\ ram' = [u \in Unit |-> IF u \in PageOf(page) THEN Slot(index)[u] ELSE ram[u]]
             /\ ram_faults' = ram_faults
    <3>1. ASSUME ram_faults < attempt, NEW u \in Unit, u <= PageUnits * (page + 1)
          PROVE  ram'[u] = Slot(index)[u]
      <4>1. u <= PageUnits * page => ram[u] = Slot(index)[u]
        BY <2>2, <3>1 DEF CopiedSoFar, FromFlash
      <4>2. u <= PageUnits * page \/ u \in PageOf(page)
        BY <2>1, <3>1, PageEnd
      <4>3. QED
        BY <2>4, <4>1, <4>2
    <3>2. QED
      BY <2>2, <2>4, <3>1 DEF CopiedSoFar, FromFlash
  <2>5. QED
    BY <1>3, <2>3, <2>4 DEF copy_page, CopyOnePage
<1>4. CASE copy_done
  BY <1>4 DEF copy_done, choice, copying, CopiedSoFar, FromFlash
<1>5. CASE readback
  <2>1. length \in Nat /\ 1 .. length \subseteq Unit
    BY Units DEF TypeOK, Unit
  <2>2. attempt \in 1 .. 3 /\ ram_faults \in Nat
    BY BoundsAssumption DEF TypeOK
  <2>3. attempt <= ram_faults + 1
    BY <1>5 DEF readback, ReadBack, CopiedSoFar
  <2>4. ram_faults < attempt => \A u \in 1 .. length : FromFlash(u)
    <3>1. length <= PageUnits * page
      BY <1>5, SpanInSlot DEF readback, ReadBack, CopiedSoFar, TypeOK
    <3>2. PageUnits * page \in Nat
      BY Units, SlotPagesType DEF TypeOK
    <3>3. \A u \in 1 .. length : u \in Unit /\ u <= PageUnits * page
      BY <2>1, <3>1, <3>2
    <3>4. QED
      BY <1>5, <3>3 DEF readback, ReadBack, CopiedSoFar
  <2>5. good <=> \A u \in 1 .. length : FromFlash(u)
    BY DEF calc_crc32, FromFlash
  <2>6. /\ index' = index /\ length' = length /\ ram' = ram /\ ram_faults' = ram_faults
    BY <1>5 DEF readback, ReadBack, choice
  <2>7. CASE good \/ attempt = 3
    <3>1. ram_faults <= 2 => \A u \in 1 .. length : FromFlash(u)
      BY <2>2, <2>4, <2>5, <2>7
    <3>2. pc' = "jump"
      BY <1>5, <2>7 DEF readback, ReadBack
    <3>3. QED
      BY <2>6, <3>1, <3>2 DEF CopiedSoFar, FromFlash
  <2>8. CASE ~good /\ attempt < 3
    <3>1. attempt' = attempt + 1 /\ page' = 0 /\ pc' = "copy"
      BY <1>5, <2>2, <2>8 DEF readback, ReadBack
    <3>2. attempt' <= ram_faults' + 1
      BY <2>2, <2>4, <2>5, <2>6, <2>8, <3>1
    <3>3. \A u \in Unit : ~(u <= PageUnits * 0)
      BY Units DEF Unit
    <3>4. QED
      BY <3>1, <3>2, <3>3 DEF CopiedSoFar
  <2>9. QED
    BY <2>2, <2>7, <2>8
<1>6. CASE jump_to_image
  BY <1>6 DEF jump_to_image, CopiedSoFar
<1>7. CASE Restart
  BY <1>7 DEF Restart, CopiedSoFar
<1>8. CASE OsUpdate \/ OsRequestSoftReboot
  BY <1>8 DEF OsUpdate, OsRequestSoftReboot, CopiedSoFar
<1>9. CASE UNCHANGED vars
  BY <1>9 DEF vars, CopiedSoFar, FromFlash
<1>10. QED
  BY <1>1, <1>2, <1>3, <1>4, <1>5, <1>6, <1>7, <1>8, <1>9
    DEF Next, Boot, WatchdogReset, panic, Reset

BootInv == TypeOK /\ Selected /\ CopiedSoFar

LEMMA BootInvariant == Spec => []BootInv
<1>1. Init => BootInv
  BY TypeInit, SelectedInit, CopiedInit DEF BootInv
<1>2. BootInv /\ [Next]_vars => BootInv'
  BY TypeStep, TypeStutter, SelectedStep, CopiedStep DEF BootInv
<1>3. QED
  BY <1>1, <1>2, PTL DEF Spec

(* The registers name the slot that was asked for last, and a soft boot    *)
(* copies that one.                                                        *)
AskedFor ==
  /\ bkpr.magic => requested = bkpr.index
  /\ pc \in CopyStages /\ soft => index = requested

LEMMA AskedInit == Init => AskedFor
  BY DEF Init, AskedFor, ClearedRegisters, CopyStages

LEMMA AskedStep ==
  ASSUME Selected, AskedFor, [Next]_vars
  PROVE  AskedFor'
<1> USE DEF CopyStages
<1>1. CASE is_soft /\ UNCHANGED requested
  BY <1>1 DEF is_soft, CopyImage, ClearedRegisters, Selected, AskedFor
<1>2. CASE select_image_preferred /\ UNCHANGED requested
  BY <1>2 DEF select_image_preferred, Selected, AskedFor
<1>3. CASE select_image_scan /\ UNCHANGED requested
  BY <1>3 DEF select_image_scan, Selected, AskedFor
<1>4. CASE /\ crc_before \/ copy_page \/ copy_done \/ readback \/ jump_to_image
           /\ UNCHANGED requested
  BY <1>4 DEF crc_before, copy_page, CopyOnePage, copy_done, readback, ReadBack,
     jump_to_image, choice, AskedFor
<1>5. CASE Restart
  BY <1>5 DEF Restart, ClearedRegisters, AskedFor
<1>6. CASE OsUpdate \/ OsRequestSoftReboot
  BY <1>6 DEF OsUpdate, OsRequestSoftReboot, AskedFor
<1>7. CASE UNCHANGED vars
  BY <1>7 DEF vars, AskedFor
<1> QED
  BY <1>1, <1>2, <1>3, <1>4, <1>5, <1>6, <1>7 DEF Next, Boot, panic, WatchdogReset, Reset

LEMMA FaultsBounded == BootInv /\ RamFaults <= 2 => ram_faults <= 2
  BY BoundsAssumption DEF BootInv, TypeOK

(* Whatever is copied wrongly and however often, a permanent boot jumps to *)
(* the image select_image owes, and any boot to an exact copy of its image *)
(* unless three copies of a page went wrong in that very boot, whatever    *)
(* happened in the boots before (run, copy_image_to_ram).                  *)
ExactUnlessThreeFail ==
  pc = "jump" =>
    /\ ~soft => index \in Candidates /\ \A i \in Candidates : index <= i
    /\ ram_faults <= 2 => Exact

(* What a boot jumps to, without a bound on the copies that go wrong       *)
THEOREM ThreeFailuresNeeded == Spec => []ExactUnlessThreeFail
<1>1. BootInv => ExactUnlessThreeFail
  BY DEF BootInv, Selected, CopiedSoFar, FromFlash, CopyStages, ExactUnlessThreeFail, Exact,
     calc_crc32
<1> QED
  BY <1>1, BootInvariant, PTL

(* As long as no more copies of a page go wrong than copy_image_to_ram has *)
(* attempts to spare, a permanent boot starts the image that select_image  *)
(* owes, whole and as the metadata describes it.                           *)
THEOREM ChosenImageBoots ==
  ASSUME RamFaults <= 2
  PROVE  Spec => []BootsChosenImage
<1>1. ASSUME BootInv, pc = "jump", ~soft
      PROVE  /\ index \in Candidates /\ \A i \in Candidates : index <= i
             /\ calc_crc32(ram, metadata.images[index].length) = metadata.images[index].crc
  <2>1. /\ index \in Candidates /\ \A i \in Candidates : index <= i
        /\ length = metadata.images[index].length
    BY <1>1 DEF BootInv, Selected, CopyStages
  <2>2. calc_crc32(ram, length) = calc_crc32(Slot(index), length)
    BY <1>1, FaultsBounded DEF BootInv, CopiedSoFar, FromFlash, calc_crc32
  <2>3. Verifies(index)
    BY <2>1 DEF Candidates, Preferred
  <2>4. QED
    BY <2>1, <2>2, <2>3 DEF Verifies
<1>2. BootInv => BootsChosenImage
  BY <1>1 DEF BootsChosenImage
<1>3. QED
  BY <1>2, BootInvariant, PTL

(* The same for a soft boot and the whole of the slot that the OS has      *)
(* asked for, however many resets lie between the request and the boot     *)
(* that reads the registers (is_soft, run).                                *)
THEOREM SoftBootExact ==
  ASSUME RamFaults <= 2
  PROVE  Spec => []SoftBootIsExact
<1>1. Init => AskedFor
  BY AskedInit
<1>2. BootInv /\ AskedFor /\ [Next]_vars => AskedFor'
  BY AskedStep DEF BootInv
<1>3. ASSUME BootInv, AskedFor, pc = "jump", soft
      PROVE  index = requested /\ ram = Slot(requested)
  <2>1. length = SlotUnits
    BY <1>3 DEF BootInv, Selected, CopyStages
  <2>2. \A u \in Unit : ram[u] = Slot(index)[u]
    BY <1>3, <2>1, FaultsBounded DEF BootInv, CopiedSoFar, FromFlash, Unit
  <2>3. ram = [u \in Unit |-> ram[u]]
    BY <1>3 DEF BootInv, TypeOK, RamContents
  <2>4. ram = Slot(index)
    BY <2>2, <2>3 DEF Slot
  <2>5. index = requested
    BY <1>3 DEF AskedFor, CopyStages
  <2> QED
    BY <2>4, <2>5
<1>4. BootInv /\ AskedFor => SoftBootIsExact
  BY <1>3 DEF SoftBootIsExact
<1>5. QED
  BY <1>1, <1>2, <1>4, BootInvariant, PTL DEF Spec

-----------------------------------------------------------------------------
(* The preferred image and the watchdog                                    *)

(* Selected keeps the search out of such a boot; the CRCs are those of the *)
(* preferred image and of copy_image_to_ram before the first page, or the  *)
(* one that has failed and sends the copy round again.                     *)
FedEarly ==
  Preferred # {} =>
    /\ pc # "panic"
    /\ pc = "crc_before" => unfed <= 1
    /\ pc = "copy" /\ page = 0 => unfed <= 2

LEMMA FedEarlyStep ==
  ASSUME 0 \notin Lengths, TypeOK, FedInTime, Selected, FedEarly, [Next]_vars
  PROVE  FedEarly'
<1>1. metadata' = metadata => Preferred' = Preferred
  BY DEF Preferred, Verifies
<1>2. unfed \in Nat
  BY BoundsAssumption DEF TypeOK
<1>3. CASE is_soft
  BY <1>1, <1>3 DEF is_soft, CopyImage, FedInTime, FedEarly
<1>4. CASE select_image_preferred
  <2>1. UNCHANGED metadata /\ unfed = 0
    BY <1>4 DEF select_image_preferred, FedInTime
  <2>2. \/ pc' = "crc_before" /\ unfed' = 1
        \/ pc' = "scan"
    BY <1>4, <2>1 DEF select_image_preferred, CopyImage
  <2> QED
    BY <2>2 DEF FedEarly
<1>5. CASE select_image_scan
  <2>1. UNCHANGED metadata /\ Preferred = {}
    BY <1>5 DEF select_image_scan, Selected
  <2> QED
    BY <1>1, <2>1 DEF FedEarly
<1>6. CASE crc_before
  BY <1>1, <1>2, <1>6 DEF crc_before, FedEarly
<1>7. CASE copy_page
  BY <1>7 DEF copy_page, CopyOnePage, FedEarly
<1>8. CASE copy_done
  BY <1>8 DEF copy_done, FedEarly
<1>9. CASE readback
  BY <1>9 DEF readback, ReadBack, FedInTime, FedEarly
<1>10. CASE jump_to_image
  BY <1>10 DEF jump_to_image, FedEarly
<1>11. CASE Restart
  BY <1>11 DEF Restart, FedEarly
<1>12. CASE OsUpdate \/ OsRequestSoftReboot
  BY <1>12 DEF OsUpdate, OsRequestSoftReboot, FedEarly
<1>13. CASE UNCHANGED vars
  BY <1>1, <1>13 DEF vars, FedEarly
<1> QED
  BY <1>3, <1>4, <1>5, <1>6, <1>7, <1>8, <1>9, <1>10, <1>11, <1>12, <1>13
    DEF Next, Boot, WatchdogReset, panic, Reset

(* The preferred image boots with a watchdog that allows two CRCs between  *)
(* two feeds, however many images there are and however many copies go     *)
(* wrong (select_image looks at it first).                                 *)
THEOREM PreferredIsQuick ==
  ASSUME 0 \notin Lengths
  PROVE  Spec => []PreferredNeedsTwo
<1> DEFINE Inv == TypeOK /\ FedInTime /\ Selected /\ FedEarly
<1>1. Init => Inv
  BY TypeInit, FedInit, SelectedInit DEF Init, FedEarly
<1>2. Inv /\ [Next]_vars => Inv'
  BY TypeStep, TypeStutter, FedStep, SelectedStep, FedEarlyStep
<1>3. Inv => PreferredNeedsTwo
  <2> SUFFICES ASSUME Inv, pc # "os", Preferred # {} PROVE unfed <= 2
    BY DEF PreferredNeedsTwo
  <2>1. unfed \in Nat /\ page \in Nat
    BY BoundsAssumption, SlotPagesType DEF TypeOK
  <2>2. pc # "scan"
    BY DEF Selected
  <2> QED
    BY <2>1, <2>2, SMT DEF TypeOK, PcValues, FedInTime, FedEarly
<1> QED
  BY <1>1, <1>2, <1>3, PTL DEF Spec

-----------------------------------------------------------------------------
(* How long a boot can take                                                *)

(* StepsLeft, with the product counted out.                                *)
CountedOut ==
  LET S == AttemptSteps
      left == page_span(length, PageUnits) - page
  IN /\ pc = "reset" => StepsLeft = 3 * S + NUMBER_OF_IMAGES + 5
     /\ pc = "preferred" => StepsLeft = 3 * S + NUMBER_OF_IMAGES + 4
     /\ pc = "scan" => StepsLeft = 3 * S + 3 + (NUMBER_OF_IMAGES - scan)
     /\ pc = "crc_before" => StepsLeft = 3 * S + 2
     /\ pc = "copy" =>
          /\ attempt = 1 => StepsLeft = 2 * S + left + 3
          /\ attempt = 2 => StepsLeft = S + left + 3
          /\ attempt = 3 => StepsLeft = left + 3
     /\ pc = "readback" =>
          /\ attempt = 1 => StepsLeft = 2 * S + 2
          /\ attempt = 2 => StepsLeft = S + 2
          /\ attempt = 3 => StepsLeft = 2
     /\ pc \in {"jump", "panic"} => StepsLeft = 1
     /\ pc = "os" => StepsLeft = 0

LEMMA StepsLeftIs == TypeOK => CountedOut
<1> SUFFICES ASSUME TypeOK PROVE CountedOut
  OBVIOUS
<1>1. AttemptSteps \in Nat
  BY SlotPagesType DEF AttemptSteps
<1>2. page_span(length, PageUnits) \in Nat /\ page \in Nat /\ scan \in Nat
  BY SpanInSlot, SlotPagesType, Units DEF TypeOK
<1>3. /\ (3 - 1) * AttemptSteps = 2 * AttemptSteps
      /\ (3 - 2) * AttemptSteps = AttemptSteps
      /\ (3 - 3) * AttemptSteps = 0
  BY <1>1
<1> HIDE DEF AttemptSteps
<1>4. /\ pc = "copy" => StepsLeft =
                          (3 - attempt) * AttemptSteps + (page_span(length, PageUnits) - page) + 3
      /\ pc = "readback" => StepsLeft = (3 - attempt) * AttemptSteps + 2
  BY DEF StepsLeft
<1>5. /\ pc = "reset" => StepsLeft = CopySteps + NUMBER_OF_IMAGES + 3
      /\ pc = "preferred" => StepsLeft = CopySteps + NUMBER_OF_IMAGES + 2
      /\ pc = "scan" => StepsLeft = CopySteps + 1 + (NUMBER_OF_IMAGES - scan)
      /\ pc = "crc_before" => StepsLeft = CopySteps
      /\ pc \in {"jump", "panic"} => StepsLeft = 1
      /\ pc = "os" => StepsLeft = 0
  BY DEF StepsLeft
<1>6. CopySteps = 3 * AttemptSteps + 2
  BY DEF CopySteps
<1> QED
  BY <1>1, <1>2, <1>3, <1>4, <1>5, <1>6, Units DEF CountedOut

LEMMA StepsLeftStep ==
  ASSUME TypeOK, TypeOK', CountedOut, CountedOut', Boot, pc' # "reset"
  PROVE  StepsLeft' < StepsLeft /\ StepsLeft' >= 0
<1> DEFINE S == AttemptSteps
           N == NUMBER_OF_IMAGES
           span == page_span(length, PageUnits)
           after == page_span(length', PageUnits)
<1>1. /\ S \in Nat /\ S = SlotPages + 2 /\ SlotPages \in Nat
      /\ N \in Nat /\ N > 0
      /\ span \in Nat /\ span <= SlotPages
      /\ after \in Nat /\ after <= SlotPages
      /\ page \in Nat /\ page' \in Nat
      /\ scan \in Nat /\ scan <= N /\ scan' \in Nat /\ scan' <= N
      /\ attempt \in 1 .. 3 /\ attempt' \in 1 .. 3
  <2>1. length \in Lengths \cup {0, SlotUnits} /\ length' \in Lengths \cup {0, SlotUnits}
    BY DEF TypeOK
  <2>2. span \in 0 .. SlotPages /\ after \in 0 .. SlotPages
    BY <2>1, SpanInSlot
  <2> QED
    BY <2>2, SlotPagesType, Units DEF TypeOK, AttemptSteps
<1>2. /\ pc = "reset" => StepsLeft = 3 * S + N + 5
      /\ pc = "preferred" => StepsLeft = 3 * S + N + 4
      /\ pc = "scan" => StepsLeft = 3 * S + 3 + (N - scan)
      /\ pc = "crc_before" => StepsLeft = 3 * S + 2
      /\ pc = "copy" =>
           /\ attempt = 1 => StepsLeft = 2 * S + (span - page) + 3
           /\ attempt = 2 => StepsLeft = S + (span - page) + 3
           /\ attempt = 3 => StepsLeft = (span - page) + 3
      /\ pc = "readback" =>
           /\ attempt = 1 => StepsLeft = 2 * S + 2
           /\ attempt = 2 => StepsLeft = S + 2
           /\ attempt = 3 => StepsLeft = 2
      /\ pc \in {"jump", "panic"} => StepsLeft = 1
      /\ pc = "os" => StepsLeft = 0
  BY DEF CountedOut
<1>3. /\ pc' = "preferred" => StepsLeft' = 3 * S + N + 4
      /\ pc' = "scan" => StepsLeft' = 3 * S + 3 + (N - scan')
      /\ pc' = "crc_before" => StepsLeft' = 3 * S + 2
      /\ pc' = "copy" =>
           /\ attempt' = 1 => StepsLeft' = 2 * S + (after - page') + 3
           /\ attempt' = 2 => StepsLeft' = S + (after - page') + 3
           /\ attempt' = 3 => StepsLeft' = (after - page') + 3
      /\ pc' = "readback" =>
           /\ attempt' = 1 => StepsLeft' = 2 * S + 2
           /\ attempt' = 2 => StepsLeft' = S + 2
           /\ attempt' = 3 => StepsLeft' = 2
      /\ pc' \in {"jump", "panic"} => StepsLeft' = 1
      /\ pc' = "os" => StepsLeft' = 0
  BY DEF CountedOut, AttemptSteps, SlotPages
<1> HIDE DEF S, N, span, after
<1>4. CASE is_soft
  BY <1>1, <1>2, <1>3, <1>4 DEF is_soft, CopyImage
<1>5. CASE select_image_preferred
  BY <1>1, <1>2, <1>3, <1>5 DEF select_image_preferred, CopyImage
<1>6. CASE select_image_scan
  BY <1>1, <1>2, <1>3, <1>6 DEF select_image_scan, CopyImage
<1>7. CASE crc_before
  <2>1. pc = "crc_before" /\ pc' = "copy" /\ attempt' = 1 /\ page' = 0
    BY <1>7 DEF crc_before
  <2> QED
    BY <1>1, <1>2, <1>3, <2>1
<1>8. CASE copy_page
  <2>1. /\ pc = "copy" /\ pc' = "copy" /\ attempt' = attempt /\ page < span /\ page' = page + 1
        /\ after = span
    BY <1>8 DEF copy_page, CopyOnePage, choice, span, after
  <2> QED
    BY <1>1, <1>2, <1>3, <2>1
<1>9. CASE copy_done
  <2>1. pc = "copy" /\ pc' = "readback" /\ attempt' = attempt /\ page = span
    BY <1>9 DEF copy_done, copying, span
  <2> QED
    BY <1>1, <1>2, <1>3, <2>1
<1>10. CASE readback
  <2>1. /\ pc = "readback"
        /\ \/ pc' = "jump"
           \/ attempt < 3 /\ attempt' = attempt + 1 /\ page' = 0 /\ pc' = "copy"
    BY <1>10 DEF readback, ReadBack
  <2>2. CASE pc' = "jump"
    BY <1>1, <1>2, <1>3, <2>1, <2>2
  <2>3. CASE attempt < 3 /\ attempt' = attempt + 1 /\ page' = 0 /\ pc' = "copy"
    BY <1>1, <1>2, <1>3, <2>1, <2>3
  <2> QED
    BY <2>1, <2>2, <2>3
<1>11. CASE jump_to_image
  BY <1>2, <1>3, <1>11 DEF jump_to_image
<1> QED
  BY <1>4, <1>5, <1>6, <1>7, <1>8, <1>9, <1>10, <1>11 DEF Boot, panic, Restart

(* A boot that nothing interrupts takes no more steps than StepsLeft says, *)
(* three copies of the whole slot at most, for any number of images, any   *)
(* slot and page size and any number of bad copies.                        *)
THEOREM EveryBootEnds == Spec => BootsEnd
<1>1. TypeOK /\ TypeOK' /\ CountedOut /\ CountedOut' /\ [Next]_vars
        => [Boot /\ pc' # "reset" => StepsLeft' < StepsLeft /\ StepsLeft' >= 0]_vars
  BY StepsLeftStep
<1> QED
  BY <1>1, StepsLeftIs, TypeCorrect, PTL DEF Spec, BootsEnd

-----------------------------------------------------------------------------
(* The refinement of ImageChoice                                           *)

ChoiceVars == <<metadata.preferred_image, VerifiedSlots, Asked, Chosen, Started>>

(* What Start relies on, and that an OS which runs is the chosen one. *)
ChoiceInv ==
  /\ BootInv /\ SoftRequestIsConsumed
  /\ pc \in {"jump", "os"} => Exact

LEMMA ChoiceInvStep ==
  ASSUME RamFaults <= 2, ChoiceInv, [Next]_vars, BootInv', SoftRequestIsConsumed'
  PROVE  ChoiceInv'
<1>1. pc' = "jump" => Exact'
  <2>0. BootInv' => ram_faults' <= 2
    BY BoundsAssumption DEF BootInv, TypeOK
  <2>1. pc' = "jump" => \A u \in 1 .. length' : ram'[u] = Slot(index)'[u]
    BY <2>0 DEF BootInv, CopiedSoFar, FromFlash
  <2> QED
    BY <2>1 DEF Exact, calc_crc32, Slot
<1>2. pc' = "os" => pc \in {"jump", "os"} /\ UNCHANGED <<ram, length, index>>
  BY DEF Next, Boot, is_soft, select_image_preferred, select_image_scan, crc_before,
     copy_page, CopyOnePage, copy_done, readback, ReadBack, jump_to_image, panic, Restart,
     WatchdogReset, Reset, OsUpdate, OsRequestSoftReboot, CopyImage, choice, copying, vars
<1>3. pc' = "os" => Exact'
  BY <1>2 DEF ChoiceInv, Exact
<1> QED
  BY <1>1, <1>3 DEF ChoiceInv

(* What a boot that has settled on a slot owes to ImageChoice. *)
LEMMA ChosenByRule ==
  ASSUME NEW i \in Candidates, \A j \in Candidates : i <= j
  PROVE  /\ i \in VerifiedSlots
         /\ \/ i = metadata.preferred_image
            \/ /\ metadata.preferred_image \notin VerifiedSlots
               /\ \A j \in VerifiedSlots : i <= j
<1>1. CASE Preferred # {}
  BY <1>1 DEF Candidates, Preferred, VerifiedSlots
<1>2. CASE Preferred = {}
  <2>1. Candidates = VerifiedSlots
    BY <1>2 DEF Candidates, VerifiedSlots
  <2>2. metadata.preferred_image \notin VerifiedSlots
    BY <1>2 DEF Preferred, VerifiedSlots
  <2> QED
    BY <2>1, <2>2
<1> QED
  BY <1>1, <1>2

LEMMA ChoiceStep ==
  ASSUME ChoiceInv, ChoiceInv', [Next]_vars
  PROVE  [OneChoice!Next]_ChoiceVars
<1> USE DEF CopyStages
<1>0. NUMBER_OF_IMAGES \notin Image /\ index \in Image /\ index' \in Image
  BY Units DEF Image, ChoiceInv, BootInv, TypeOK
<1>a. metadata' = metadata =>
        UNCHANGED <<metadata.preferred_image, VerifiedSlots>> /\ Candidates' = Candidates
  BY DEF VerifiedSlots, Verifies, Candidates, Preferred
<1>b. pc # "os" => Started = NUMBER_OF_IMAGES
  BY DEF Started
<1>c. pc' # "os" => Started' = NUMBER_OF_IMAGES
  BY DEF Started
<1>d. pc \notin {"reset", "os"} => Asked = NUMBER_OF_IMAGES
  BY DEF Asked, ChoiceInv, SoftRequestIsConsumed
<1>e. pc' \notin {"reset", "os"} => Asked' = NUMBER_OF_IMAGES
  BY DEF Asked, ChoiceInv, SoftRequestIsConsumed
<1>f. pc = "os" => Started = index
  BY DEF Started, ChoiceInv
<1>1. CASE is_soft
  <2>1. /\ pc = "reset" /\ metadata' = metadata
        /\ \/ /\ bkpr.magic /\ bkpr.index \in Image
              /\ pc' = "crc_before" /\ index' = bkpr.index
           \/ ~(bkpr.magic /\ bkpr.index \in Image) /\ pc' = "preferred"
    BY <1>1 DEF is_soft, CopyImage
  <2>2. CASE bkpr.magic /\ bkpr.index \in Image
    <3>1. /\ Asked = bkpr.index /\ Asked' = NUMBER_OF_IMAGES
          /\ Chosen = NUMBER_OF_IMAGES /\ Chosen' = bkpr.index
      BY <1>e, <2>1, <2>2 DEF Asked, Chosen
    <3> QED
      BY <1>a, <1>b, <1>c, <2>1, <2>2, <3>1
      DEF OneChoice!Next, OneChoice!Try, OneChoice!Flash
  <2>3. CASE ~(bkpr.magic /\ bkpr.index \in Image)
    <3>1. bkpr.magic => bkpr.index = NUMBER_OF_IMAGES
      BY <2>3 DEF ChoiceInv, BootInv, TypeOK, Registers
    <3>2. Asked = NUMBER_OF_IMAGES /\ Asked' = NUMBER_OF_IMAGES
      BY <1>e, <2>1, <2>3, <3>1 DEF Asked
    <3>3. Chosen' = Chosen
      BY <2>1, <2>3 DEF Chosen
    <3> QED
      BY <1>a, <1>b, <1>c, <2>1, <2>3, <3>2, <3>3 DEF ChoiceVars
  <2> QED
    BY <2>2, <2>3
<1>2. CASE (select_image_preferred \/ select_image_scan) /\ pc' = "crc_before"
  <2>1. pc \in {"preferred", "scan"} /\ metadata' = metadata /\ soft' = soft /\ soft = FALSE
    BY <1>2 DEF select_image_preferred, select_image_scan, ChoiceInv, BootInv, Selected,
       TypeOK
  <2>2. index' \in Candidates /\ \A i \in Candidates : index' <= i
    BY <1>2, <1>a, <2>1 DEF ChoiceInv, BootInv, Selected
  <2>3. /\ index' \in VerifiedSlots
        /\ \/ index' = metadata.preferred_image
           \/ /\ metadata.preferred_image \notin VerifiedSlots
              /\ \A j \in VerifiedSlots : index' <= j
    BY <2>2, ChosenByRule
  <2>4. /\ Chosen = NUMBER_OF_IMAGES /\ Chosen' = index'
        /\ Asked = NUMBER_OF_IMAGES /\ Asked' = NUMBER_OF_IMAGES
    BY <1>2, <1>d, <1>e, <2>1 DEF Chosen
  <2> QED
    BY <1>2, <1>a, <1>b, <1>c, <2>1, <2>3, <2>4
    DEF OneChoice!Next, OneChoice!Choose, OneChoice!Flash
<1>3. ASSUME metadata' = metadata,
             pc \notin {"reset", "os"}, pc' \notin {"reset", "os"},
             \/ index' = index /\ pc \in CopyStages /\ pc' \in CopyStages
             \/ pc \notin CopyStages /\ pc' \notin CopyStages
      PROVE  UNCHANGED ChoiceVars
  BY <1>3, <1>a, <1>b, <1>c, <1>d, <1>e DEF ChoiceVars, Chosen
<1>4. CASE /\ select_image_preferred \/ select_image_scan
           /\ pc' # "crc_before"
  BY <1>3, <1>4 DEF select_image_preferred, select_image_scan, CopyImage
<1>5. CASE crc_before \/ copy_page \/ copy_done \/ readback
  BY <1>3, <1>5 DEF crc_before, copy_page, CopyOnePage, copy_done, readback, ReadBack, choice
<1>6. CASE jump_to_image
  <2>1. pc = "jump" /\ pc' = "os" /\ UNCHANGED <<metadata, bkpr, index>>
    BY <1>6 DEF jump_to_image, choice
  <2>2. /\ Chosen = index /\ Chosen' = index /\ Asked' = Asked
        /\ Started = NUMBER_OF_IMAGES /\ Started' = index
    BY <2>1 DEF Chosen, Asked, Started, ChoiceInv
  <2> QED
    BY <1>0, <1>a, <2>1, <2>2
    DEF OneChoice!Next, OneChoice!Start, OneChoice!Flash
<1>7. CASE Restart
  <2>1. pc' = "reset" /\ metadata' = metadata /\ bkpr' \in {bkpr, ClearedRegisters}
    BY <1>7 DEF Restart
  <2>2. Chosen' = NUMBER_OF_IMAGES /\ Started' = NUMBER_OF_IMAGES
    BY <2>1 DEF Chosen, Started
  <2>3. Asked' \in {Asked, NUMBER_OF_IMAGES}
    BY <2>1 DEF Asked, ClearedRegisters
  <2> QED
    BY <1>a, <2>1, <2>2, <2>3
    DEF OneChoice!Next, OneChoice!Restart, OneChoice!Flash
<1>8. CASE OsUpdate
  <2>1. pc = "os" /\ pc' = "os" /\ UNCHANGED <<bkpr, index, length, ram>>
    BY <1>8 DEF OsUpdate, choice, copying
  <2>2. /\ Started = index /\ Started' = Started /\ Chosen' = Chosen /\ Asked' = Asked
        /\ VerifiedSlots' \in SUBSET Image
    BY <1>f, <2>1 DEF Started, Exact, Chosen, Asked, VerifiedSlots
  <2> QED
    BY <1>0, <2>2
    DEF OneChoice!Next, OneChoice!Update
<1>9. CASE OsRequestSoftReboot
  <2>1. /\ pc = "os" /\ pc' = "os" /\ UNCHANGED <<metadata, index, length, ram>>
        /\ bkpr' \in Registers
    BY <1>9 DEF OsRequestSoftReboot, choice, copying
  <2>2. /\ Started = index /\ Started' = Started /\ Chosen' = Chosen
        /\ Asked' \in Image \cup {NUMBER_OF_IMAGES}
    BY <1>f, <2>1 DEF Started, Exact, Chosen, Asked, Registers
  <2> QED
    BY <1>0, <1>a, <2>1, <2>2
    DEF OneChoice!Next, OneChoice!Ask, OneChoice!Flash
<1>10. CASE UNCHANGED vars
  BY <1>10 DEF vars, ChoiceVars, VerifiedSlots, Verifies, Asked, Chosen, Started, Exact
<1> QED
  BY <1>1, <1>2, <1>4, <1>5, <1>6, <1>7, <1>8, <1>9, <1>10
  DEF Next, Boot, panic, WatchdogReset, Reset

(* As long as no more copies of a page go wrong than copy_image_to_ram has *)
(* attempts to spare, select_image with its loop, the retries and the      *)
(* registers come to one choice of a slot and the exact start of it.       *)
THEOREM ChoiceRefined ==
  ASSUME RamFaults <= 2
  PROVE  Spec => ChoiceKept
<1>1. Init /\ BootInv => ChoiceInv /\ OneChoice!Init
  <2> SUFFICES ASSUME Init, BootInv PROVE ChoiceInv /\ OneChoice!Init
    OBVIOUS
  <2>1. ChoiceInv
    BY DEF Init, ChoiceInv, SoftRequestIsConsumed
  <2>2. OneChoice!Init
    BY DEF Init, OneChoice!Init, ClearedRegisters, Asked, Chosen, Started, VerifiedSlots
  <2> QED
    BY <2>1, <2>2
<1>2. ChoiceInv /\ [Next]_vars /\ BootInv' /\ SoftRequestIsConsumed' => ChoiceInv'
  BY ChoiceInvStep
<1>3. ChoiceInv /\ ChoiceInv' /\ [Next]_vars => [OneChoice!Next]_ChoiceVars
  BY ChoiceStep
<1> QED
  BY <1>1, <1>2, <1>3, BootInvariant, SoftRequestConsumed, PTL
  DEF Spec, ChoiceKept, OneChoice!Spec, ChoiceVars
=============================================================================
