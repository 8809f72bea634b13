------------------------ MODULE MetadataFixupProofs ------------------------
(***************************************************************************)
(* Proofs about MetadataFixup for every number of double words, every      *)
(* largest version, every payload and every combination of flash faults.   *)
(* The argument: each step rewrites at most one page, only that page can   *)
(* change what a boot would read, and the invariants say what the other    *)
(* page holds meanwhile.                                                   *)
(***************************************************************************)
EXTENDS MetadataFixup, MetadataPagesProofs

-----------------------------------------------------------------------------
(* What the flash operations do to the page they are given.                *)

LEMMA EraseEffect ==
  ASSUME flash \in Flash, NEW p \in Page, NEW result, erase_page(p, result)
  PROVE  \E q \in PageImage :
           /\ flash' = [flash EXCEPT ![p] = q]
           /\ Rec(q) \in {NoMeta, Rec(flash[p])}
<1>1. ErasedPage \in PageImage /\ Rec(ErasedPage) = NoMeta
  BY RecOfErased DEF ErasedPage, PageImage, Cell
<1>2. CASE flash' = [flash EXCEPT ![p] = ErasedPage]
  BY <1>1, <1>2
<1>3. CASE \E page \in PartlyErased(flash[p]) : flash' = [flash EXCEPT ![p] = page]
  <2>1. PICK q \in PartlyErased(flash[p]) : flash' = [flash EXCEPT ![p] = q]
    BY <1>3
  <2>2. q \in PageImage /\ \A d \in Dword : q[d] \in {flash[p][d], Erased, Garbled}
    BY DEF PartlyErased
  <2>3. Rec(q) \in {Rec(flash[p]), NoMeta}
    BY <2>2, RecOfPartlyErased
  <2> QED
    BY <2>1, <2>2, <2>3
<1> QED
  BY <1>2, <1>3 DEF erase_page

(* A page that is complete cannot be programmed any further. *)
LEMMA DwordEffect ==
  ASSUME flash \in Flash, NEW p \in Page, NEW d \in Dword, NEW m \in Metadata,
         NEW result, write_dword(p, d, m, result)
  PROVE  \E q \in PageImage :
           /\ flash' = [flash EXCEPT ![p] = q]
           /\ Rec(q) \in {NoMeta, Rec(flash[p]), m}
           /\ is_valid(flash[p]) => q = flash[p]
<1> DEFINE page == flash[p]
<1>1. page \in PageImage
  BY DEF Flash
<1>2. page[d] = Erased => Rec(page) = NoMeta /\ ~is_valid(page)
  BY RecOfTorn, RecType
<1>3. flash = [flash EXCEPT ![p] = page] /\ page = [page EXCEPT ![d] = page[d]]
  BY <1>1 DEF Flash, PageImage
<1>4. CASE page[d] = Erased /\ flash' = [flash EXCEPT ![p][d] = m]
  <2> DEFINE q == [page EXCEPT ![d] = m]
  <2>1. q \in PageImage /\ flash' = [flash EXCEPT ![p] = q]
    BY <1>1, <1>4 DEF PageImage, Cell
  <2>2. Rec(q) \in {NoMeta, m}
    BY <1>1, RecOfProgrammed
  <2> QED
    BY <1>2, <1>4, <2>1, <2>2
<1>5. UNCHANGED flash
        => \E q \in PageImage :
             /\ flash' = [flash EXCEPT ![p] = q]
             /\ Rec(q) \in {NoMeta, Rec(flash[p]), m}
             /\ is_valid(flash[p]) => q = flash[p]
  BY <1>1, <1>3
<1>6. CASE \E cell \in PartlyProgrammed(page[d]) : flash' = [flash EXCEPT ![p][d] = cell]
  <2>1. PICK cell \in PartlyProgrammed(page[d]) : flash' = [flash EXCEPT ![p][d] = cell]
    BY <1>6
  <2>2. CASE page[d] # Erased
    <3>1. cell = page[d]
      BY <2>1, <2>2 DEF PartlyProgrammed
    <3>2. UNCHANGED flash
      BY <1>1, <2>1, <3>1 DEF Flash, PageImage
    <3> QED
      BY <1>5, <3>2
  <2>3. CASE page[d] = Erased
    <3> DEFINE q == [page EXCEPT ![d] = cell]
    <3>1. cell \in {Erased, Garbled}
      BY <2>1, <2>3 DEF PartlyProgrammed
    <3>2. q \in PageImage /\ q[d] = cell /\ flash' = [flash EXCEPT ![p] = q]
      BY <1>1, <2>1, <3>1 DEF PageImage, Cell
    <3>3. Rec(q) = NoMeta
      BY <3>1, <3>2, RecOfTorn
    <3> QED
      BY <1>2, <2>3, <3>2, <3>3
  <2> QED
    BY <2>2, <2>3
<1> QED
  BY <1>4, <1>5, <1>6 DEF write_dword

(* A reset: only the page being written changes, and never to a block.     *)
LEMMA ResetEffect ==
  ASSUME TypeOK, flash' \in InterruptedFlash
  PROVE  \/ flash' = flash
         \/ /\ pc \in Writing
            /\ \E q \in PageImage :
                 /\ flash' = [flash EXCEPT ![write.page] = q]
                 /\ Rec(q) \in {NoMeta, Rec(flash[write.page])}
                 /\ pc \in {"program", "os_program"} /\ is_valid(flash[write.page])
                      => q = flash[write.page]
<1>1. CASE pc \in {"erase", "os_erase"}
  <2>1. write.page \in Page /\ pc \in Writing
    BY <1>1 DEF TypeOK, Writing
  <2>2. PICK q \in PartlyErased(flash[write.page]) :
           flash' = [flash EXCEPT ![write.page] = q]
    BY <1>1 DEF InterruptedFlash
  <2>3. /\ q \in PageImage
        /\ \A d \in Dword : q[d] \in {flash[write.page][d], Erased, Garbled}
    BY DEF PartlyErased
  <2>4. Rec(q) \in {Rec(flash[write.page]), NoMeta}
    BY <2>3, RecOfPartlyErased
  <2> QED
    BY <1>1, <2>1, <2>2, <2>3, <2>4
<1>2. CASE pc \in {"program", "os_program"}
  <2> DEFINE page == flash[write.page]
             d == write.next
  <2>1. write.page \in Page /\ pc \in Writing /\ page \in PageImage /\ d \in Dword
    BY <1>2 DEF TypeOK, Writing
  <2>2. PICK cell \in PartlyProgrammed(page[d]) :
           flash' = [flash EXCEPT ![write.page][d] = cell]
    BY <1>2 DEF InterruptedFlash
  <2>3. CASE page[d] = Erased
    <3> DEFINE q == [page EXCEPT ![d] = cell]
    <3>1. cell \in {Erased, Garbled}
      BY <2>2, <2>3 DEF PartlyProgrammed
    <3>2. q \in PageImage /\ q[d] = cell /\ flash' = [flash EXCEPT ![write.page] = q]
      BY <2>1, <2>2, <3>1 DEF PageImage, Cell
    <3>3. Rec(q) = NoMeta /\ ~is_valid(page)
      BY <2>1, <2>3, <3>1, <3>2, RecOfTorn, RecType
    <3> QED
      BY <2>1, <3>2, <3>3
  <2>4. CASE page[d] # Erased
    <3>1. cell = page[d]
      BY <2>2, <2>4 DEF PartlyProgrammed
    <3>2. flash' = flash
      BY <2>1, <2>2, <3>1 DEF TypeOK, PageImage
    <3> QED
      BY <3>2
  <2> QED
    BY <2>3, <2>4
<1>3. CASE pc \notin {"erase", "os_erase", "program", "os_program"}
  BY <1>3 DEF InterruptedFlash
<1> QED
  BY <1>1, <1>2, <1>3

-----------------------------------------------------------------------------
(* Type correctness, with the shape a write in progress has.               *)

LEMMA PageUpdateType ==
  ASSUME NEW f \in Flash, NEW p \in Page, NEW q \in PageImage
  PROVE  [f EXCEPT ![p] = q] \in Flash
  BY DEF Flash

LEMMA LoopType ==
  ASSUME TypeOK, NEW after, pc \in Writing, after \in PcValues \ Writing,
         AdvanceLoop(after)
  PROVE  /\ pc' \in {pc, after}
         /\ pc' \in PcValues
         /\ write' \in IF pc' \in Writing THEN [page : Page, data : Metadata, next : Dword]
                                         ELSE {NoWrite}
         /\ pc' = pc => write'.page = write.page /\ write'.data = write.data
<1> USE DwordsAssumption DEF Dword
<1>1. write \in [page : Page, data : Metadata, next : Dword] /\ pc \in PcValues
  BY DEF TypeOK
<1>2. CASE write.next = Dwords
  BY <1>1, <1>2 DEF AdvanceLoop
<1>3. CASE write.next # Dwords
  <2>1. write.next + 1 \in Dword
    BY <1>1, <1>3
  <2>2. write' = [write EXCEPT !.next = write.next + 1] /\ pc' = pc
    BY <1>3 DEF AdvanceLoop
  <2> QED
    BY <1>1, <2>1, <2>2
<1> QED
  BY <1>2, <1>3

(* A step keeps the types: a page is only written between its erase and    *)
(* its last double word.                                                   *)
LEMMA TypeStep ==
  ASSUME TypeOK, [Next]_vars
  PROVE  TypeOK'
<1> USE DEF PcValues, BootWrites, OsPhases, SoftValues, Writing
<1>1. CASE is_soft
  BY <1>1 DEF is_soft, TypeOK
<1>2. CASE select_metadata
  <2>1. /\ Select(flash).meta \in Metadata \cup {NoMeta}
        /\ Select(flash).write_addr \in Page \cup {NoPage}
    <3>1. flash \in Flash
      BY DEF TypeOK, Flash
    <3> QED
      BY <3>1, SelectNewest, CurrentIsNewer DEF Current
  <2>2. 1 \in Dword
    BY DwordsAssumption, SMT DEF Dword
  <2> QED
    BY <1>2, <2>1, <2>2 DEF select_metadata, TypeOK
<1>3. CASE unlock_flash
  BY <1>3 DEF unlock_flash, FixupFailed, TypeOK
<1>4. CASE write_metadata_erase
  <2>1. \E result : erase_page(write.page, result)
    BY <1>4 DEF write_metadata_erase
  <2>2. write.page \in Page
    BY <1>4 DEF write_metadata_erase, TypeOK
  <2>3. flash' \in Flash
    BY <2>1, <2>2, EraseEffect, PageUpdateType DEF TypeOK, Flash
  <2> QED
    BY <1>4, <2>3 DEF write_metadata_erase, FixupFailed, TypeOK, Flash
<1>5. CASE write_metadata_program
  <2>1. \E result : write_dword(write.page, write.next, write.data, result)
    BY <1>5 DEF write_metadata_program
  <2>2. write.page \in Page /\ write.data \in Metadata /\ write.next \in Dword
    BY <1>5 DEF write_metadata_program, TypeOK
  <2>3. flash' \in Flash
    BY <2>1, <2>2, DwordEffect, PageUpdateType DEF TypeOK, Flash
  <2>4. CASE AdvanceLoop("lock") /\ UNCHANGED fix_result
    BY <1>5, <2>3, <2>4, LoopType DEF write_metadata_program, TypeOK, Flash
  <2>5. CASE FixupFailed
    BY <1>5, <2>3, <2>5 DEF write_metadata_program, FixupFailed, TypeOK, Flash
  <2> QED
    BY <1>5, <2>4, <2>5 DEF write_metadata_program
<1>6. CASE write_metadata_return
  BY <1>6 DEF write_metadata_return, TypeOK
<1>7. CASE StartOs
  BY <1>7 DEF StartOs, TypeOK
<1>8. CASE failsafe_boot \/ select_image_panics
  BY <1>8 DEF failsafe_boot, select_image_panics, NoImageVerifies, PanicResets, TypeOK
<1>9. CASE OsRequestSoftReboot
  BY <1>9 DEF OsRequestSoftReboot, TypeOK
<1>10. CASE \E p \in Page, m \in Metadata : OsUpdate(p, m)
  <2>1. 1 \in Dword
    BY DwordsAssumption, SMT DEF Dword
  <2> QED
    BY <1>10, <2>1 DEF OsUpdate, TypeOK
<1>11. CASE OsErase
  <2>1. \E result : erase_page(write.page, result)
    BY <1>11 DEF OsErase
  <2>2. write.page \in Page
    BY <1>11 DEF OsErase, TypeOK
  <2>3. flash' \in Flash
    BY <2>1, <2>2, EraseEffect, PageUpdateType DEF TypeOK, Flash
  <2> QED
    BY <1>11, <2>3 DEF OsErase, OsGivesUp, TypeOK, Flash
<1>12. CASE OsProgram
  <2>1. \E result : write_dword(write.page, write.next, write.data, result)
    BY <1>12 DEF OsProgram
  <2>2. write.page \in Page /\ write.data \in Metadata /\ write.next \in Dword
    BY <1>12 DEF OsProgram, TypeOK
  <2>3. flash' \in Flash
    BY <2>1, <2>2, DwordEffect, PageUpdateType DEF TypeOK, Flash
  <2>4. CASE AdvanceLoop("os")
    BY <1>12, <2>3, <2>4, LoopType DEF OsProgram, TypeOK, Flash
  <2>5. CASE OsGivesUp
    BY <1>12, <2>3, <2>5 DEF OsProgram, OsGivesUp, TypeOK, Flash
  <2> QED
    BY <1>12, <2>4, <2>5 DEF OsProgram
<1>13. CASE Reset
  <2>1. flash' \in Flash
    <3>1. flash \in Flash
      BY DEF TypeOK, Flash
    <3>2. pc \in Writing => write.page \in Page
      BY DEF TypeOK
    <3> QED
      BY <1>13, <3>1, <3>2, ResetEffect, PageUpdateType DEF Reset
  <2> QED
    BY <1>13, <2>1 DEF Reset, TypeOK, Flash
<1>14. CASE UNCHANGED vars
  BY <1>14 DEF vars, TypeOK
<1> QED
  BY <1>1, <1>2, <1>3, <1>4, <1>5, <1>6, <1>7, <1>8, <1>9, <1>10, <1>11,
     <1>12, <1>13, <1>14 DEF Next, Boot

(* Wherever boots, updates and repairs are interrupted, variables keep     *)
(* their types.                                                            *)
THEOREM TypeCorrect == Spec => []TypeOK
<1>1. Init => TypeOK
  BY DEF Init, TypeOK, PcValues, SoftValues, Writing
<1>2. TypeOK /\ [Next]_vars => TypeOK'
  BY TypeStep
<1> QED
  BY <1>1, <1>2, PTL DEF Spec

-----------------------------------------------------------------------------
(* The repair.                                                             *)

(* A page that reads as before, as nothing, or as the newest block leaves  *)
(* the choice to the other page.                                           *)
LEMMA OtherDecides ==
  ASSUME NEW f \in Flash, NEW p \in Page, NEW q \in PageImage,
         Current(f) = Rec(f[Other(p)])
  PROVE  /\ [f EXCEPT ![p] = q][Other(p)] = f[Other(p)]
         /\ Rec(q) \in {NoMeta, Rec(f[p]), Current(f)}
              => Current([f EXCEPT ![p] = q]) = Current(f)
<1> DEFINE flash2 == [f EXCEPT ![p] = q]
<1>1. /\ flash2 \in Flash
      /\ flash2[Other(p)] = f[Other(p)]
      /\ flash2[p] = q
      /\ Rec(q) \in {NoMeta, Rec(f[p]), Current(f)} => Current(flash2) = Current(f)
      /\ (/\ Rec(q) # NoMeta
          /\ Current(f) # NoMeta => Rec(q).version > Current(f).version)
           => Current(flash2) = Rec(q)
  BY CurrentAfterWrite, Zenon
<1> HIDE DEF flash2
<1>2. /\ flash2[Other(p)] = f[Other(p)]
      /\ Rec(q) \in {NoMeta, Rec(f[p]), Current(f)} => Current(flash2) = Current(f)
  BY <1>1
<1> QED
  BY <1>2 DEF flash2

(* While page p is being repaired, whatever its content becomes, the other *)
(* page keeps deciding.                                                    *)
LEMMA RepairFrame ==
  ASSUME flash \in Flash, NEW p \in Page, NEW q \in PageImage, NEW m \in Metadata,
         m = Current(flash), Holds(flash[Other(p)], m),
         flash' = [flash EXCEPT ![p] = q],
         Rec(q) \in {NoMeta, Rec(flash[p]), m}
  PROVE  Current(flash') = m /\ Holds(flash'[Other(p)], m)
<1>1. Current(flash) = Rec(flash[Other(p)])
  BY RecOfHolds
<1>2. /\ [flash EXCEPT ![p] = q][Other(p)] = flash[Other(p)]
      /\ Current([flash EXCEPT ![p] = q]) = Current(flash)
  BY <1>1, OtherDecides
<1> QED
  BY <1>2

(* A repair only ever rewrites a page whose counterpart holds the block    *)
(* this boot works with, and never starts on two intact pages: there is no *)
(* assumption on the OS or on the faults of the flash.                     *)
THEOREM RepairSafe == Spec => []BootWriteInv
<1>1. Init => BootWriteInv
  BY DEF Init, BootWriteInv, BootWrites
<1>2. TypeOK /\ BootWriteInv /\ [Next]_vars => BootWriteInv'
  <2> SUFFICES ASSUME TypeOK, BootWriteInv, [Next]_vars PROVE BootWriteInv'
    OBVIOUS
  <2>0. flash \in Flash
    BY DEF TypeOK, Flash
  <2> USE DEF BootWrites
  <2>1. CASE is_soft
    BY <2>1 DEF is_soft, BootWriteInv
  <2>2. CASE select_metadata
    <3>1. flash' = flash
      BY <2>2 DEF select_metadata
    <3>2. /\ Select(flash).meta = Current(flash)
          /\ Select(flash).write_addr # NoPage =>
               Holds(flash[Other(Select(flash).write_addr)], Select(flash).meta)
          /\ Select(flash).meta # NoMeta =>
               (Select(flash).write_addr = NoPage <=> Intact(flash))
      BY <2>0, SelectNewest DEF Current
    <3> QED
      BY <2>2, <3>1, <3>2 DEF select_metadata, BootWriteInv
  <2>3. CASE unlock_flash
    BY <2>3 DEF unlock_flash, FixupFailed, BootWriteInv
  <2>4. CASE write_metadata_erase
    <3>1. PICK result : erase_page(write.page, result)
      BY <2>4 DEF write_metadata_erase
    <3>2. write.page \in Page
      BY <2>4 DEF write_metadata_erase, TypeOK, Writing
    <3>3. metadata \in Metadata /\ metadata = Current(flash)
          /\ Holds(flash[Other(write.page)], metadata) /\ write.data = metadata
      BY <2>4 DEF write_metadata_erase, BootWriteInv, TypeOK
    <3>4. Current(flash') = metadata /\ Holds(flash'[Other(write.page)], metadata)
      BY <2>0, <3>1, <3>2, <3>3, EraseEffect, RepairFrame
    <3> QED
      BY <2>4, <3>3, <3>4, CellAssumption DEF write_metadata_erase, FixupFailed, BootWriteInv
  <2>5. CASE write_metadata_program
    <3>1. PICK result : write_dword(write.page, write.next, write.data, result)
      BY <2>5 DEF write_metadata_program
    <3>2. write.page \in Page /\ write.next \in Dword
      BY <2>5 DEF write_metadata_program, TypeOK, Writing
    <3>3. metadata \in Metadata /\ metadata = Current(flash)
          /\ Holds(flash[Other(write.page)], metadata) /\ write.data = metadata
      BY <2>5 DEF write_metadata_program, BootWriteInv, TypeOK
    <3>4. Current(flash') = metadata /\ Holds(flash'[Other(write.page)], metadata)
      BY <2>0, <3>1, <3>2, <3>3, DwordEffect, RepairFrame
    <3>5. CASE AdvanceLoop("lock")
      <4>1. "lock" \in PcValues \ Writing /\ pc \in Writing
        BY <2>5 DEF PcValues, Writing, write_metadata_program
      <4>2. /\ pc' \in {"program", "lock"}
            /\ pc' = "program" => write'.page = write.page /\ write'.data = write.data
        BY <2>5, <3>5, <4>1, LoopType DEF write_metadata_program
      <4> QED
        BY <2>5, <3>3, <3>4, <4>2, CellAssumption DEF write_metadata_program, BootWriteInv
    <3>6. CASE FixupFailed
      BY <2>5, <3>3, <3>4, <3>6, CellAssumption
      DEF write_metadata_program, FixupFailed, BootWriteInv
    <3> QED
      BY <2>5, <3>5, <3>6 DEF write_metadata_program
  <2>6. CASE write_metadata_return
    BY <2>6 DEF write_metadata_return, BootWriteInv
  <2>7. CASE StartOs
    BY <2>7 DEF StartOs, BootWriteInv
  <2>8. CASE failsafe_boot \/ select_image_panics
    BY <2>8 DEF failsafe_boot, select_image_panics, PanicResets, BootWriteInv
  <2>9. CASE OsRequestSoftReboot
    BY <2>9 DEF OsRequestSoftReboot, BootWriteInv
  <2>10. CASE \E p \in Page, m \in Metadata : OsUpdate(p, m)
    BY <2>10 DEF OsUpdate, BootWriteInv
  <2>11. CASE OsErase
    BY <2>11 DEF OsErase, OsGivesUp, BootWriteInv
  <2>12. CASE OsProgram
    BY <2>12 DEF OsProgram, OsGivesUp, AdvanceLoop, BootWriteInv
  <2>13. CASE Reset
    BY <2>13 DEF Reset, BootWriteInv
  <2>14. CASE UNCHANGED vars
    BY <2>14 DEF vars, BootWriteInv
  <2> QED
    BY <2>1, <2>2, <2>3, <2>4, <2>5, <2>6, <2>7, <2>8, <2>9, <2>10, <2>11,
       <2>12, <2>13, <2>14 DEF Next, Boot
<1> QED
  BY <1>1, <1>2, TypeCorrect, PTL DEF Spec

-----------------------------------------------------------------------------
(* The update by the OS.                                                   *)

(* A step of an update either completes the new block, which is from then  *)
(* on the one to boot, or it changes nothing that a boot would see.        *)
LEMMA UpdateFrame ==
  ASSUME flash \in Flash, NEW p \in Page, NEW q \in PageImage, NEW m \in Metadata,
         Spare(flash, p),
         Current(flash) # NoMeta => m.version > Current(flash).version,
         flash' = [flash EXCEPT ![p] = q],
         Rec(q) \in {NoMeta, Rec(flash[p]), m}
  PROVE  \/ Holds(flash'[p], m) /\ Current(flash') = m
         \/ /\ ~Holds(flash'[p], m)
            /\ Spare(flash', p)
            /\ Current(flash') = Current(flash)
<1> DEFINE flash2 == [flash EXCEPT ![p] = q]
<1>1. Current(flash) = Rec(flash[Other(p)])
  BY SpareIsOther DEF Spare
<1>2. /\ flash2 \in Flash
      /\ flash2[Other(p)] = flash[Other(p)]
      /\ flash2[p] = q
      /\ Rec(q) \in {NoMeta, Rec(flash[p]), Current(flash)}
           => Current(flash2) = Current(flash)
      /\ (/\ Rec(q) # NoMeta
          /\ Current(flash) # NoMeta => Rec(q).version > Current(flash).version)
           => Current(flash2) = Rec(q)
  BY <1>1, CurrentAfterWrite, Zenon
<1> HIDE DEF flash2
<1>3. flash' = flash2
  BY DEF flash2
<1>4. CASE Rec(q) = m
  <2>1. Holds(q, m)
    BY <1>4, RecType, CellAssumption
  <2> QED
    BY <1>2, <1>3, <1>4, <2>1, CellAssumption
<1>5. CASE Rec(q) # m
  <2>1. ~Holds(q, m)
    BY <1>5, RecOfHolds
  <2>2. Current(flash2) = Current(flash)
    BY <1>2, <1>5
  <2>3. Current(flash2) = Rec(flash2[Other(p)])
    BY <1>1, <1>2, <2>2
  <2>4. Current([flash2 EXCEPT ![p] = ErasedPage]) = Current(flash2)
    BY <1>2, <2>3, SpareIsOther
  <2> QED
    BY <1>2, <1>3, <2>1, <2>2, <2>4 DEF Spare
<1> QED
  BY <1>4, <1>5

(* An OS that never overwrites its only copy of the newest block keeps it  *)
(* at every point of an update, whatever the flash does.                   *)
THEOREM UpdateSafe == OsSparesNewest => (Spec => []OsWriteInv)
<1> SUFFICES ASSUME OsSparesNewest PROVE Spec => []OsWriteInv
  OBVIOUS
<1>1. Init => OsWriteInv
  BY DEF Init, OsWriteInv
<1>2. TypeOK /\ OsWriteInv /\ [Next]_vars => OsWriteInv'
  <2> SUFFICES ASSUME TypeOK, OsWriteInv, [Next]_vars PROVE OsWriteInv'
    OBVIOUS
  <2>0. flash \in Flash
    BY DEF TypeOK, Flash
  <2>1. CASE Boot
    BY <2>1 DEF Boot, is_soft, select_metadata, unlock_flash, write_metadata_erase,
       write_metadata_program, write_metadata_return, StartOs, failsafe_boot,
       select_image_panics, PanicResets,
       FixupFailed, AdvanceLoop, OsWriteInv
  <2>2. CASE OsRequestSoftReboot
    BY <2>2 DEF OsRequestSoftReboot, OsWriteInv
  <2>3. CASE \E p \in Page, m \in Metadata : OsUpdate(p, m)
    BY <2>3 DEF OsUpdate, OsWriteInv, Spare
  <2>4. CASE OsErase
    <3>1. PICK result : erase_page(write.page, result)
      BY <2>4 DEF OsErase
    <3>2. write.page \in Page /\ write.data \in Metadata
      BY <2>4 DEF OsErase, TypeOK, Writing
    <3>3. /\ Spare(flash, write.page)
          /\ Current(flash) # NoMeta => write.data.version > Current(flash).version
      BY <2>4 DEF OsErase, OsWriteInv
    <3>4. \/ Holds(flash'[write.page], write.data) /\ Current(flash') = write.data
          \/ Spare(flash', write.page) /\ Current(flash') = Current(flash)
      BY <2>0, <3>1, <3>2, <3>3, EraseEffect, UpdateFrame
    <3> QED
      BY <2>4, <3>3, <3>4 DEF OsErase, OsGivesUp, OsWriteInv
  <2>5. CASE OsProgram
    <3>1. PICK result : write_dword(write.page, write.next, write.data, result)
      BY <2>5 DEF OsProgram
    <3>2. write.page \in Page /\ write.data \in Metadata /\ write.next \in Dword
      BY <2>5 DEF OsProgram, TypeOK, Writing
    <3>3. SUFFICES ASSUME pc' = "os_program" PROVE OsWriteInv'
      BY <2>5 DEF OsProgram, OsGivesUp, AdvanceLoop, OsWriteInv
    <3>4. write'.page = write.page /\ write'.data = write.data
      BY <2>5, <3>3, LoopType DEF OsProgram, OsGivesUp, PcValues, OsPhases, Writing
    <3>5. CASE /\ Spare(flash, write.page)
               /\ Current(flash) # NoMeta => write.data.version > Current(flash).version
      <4>1. \/ Holds(flash'[write.page], write.data) /\ Current(flash') = write.data
            \/ Spare(flash', write.page) /\ Current(flash') = Current(flash)
        BY <2>0, <3>1, <3>2, <3>5, DwordEffect, UpdateFrame
      <4> QED
        BY <3>3, <3>4, <3>5, <4>1 DEF OsWriteInv, Spare
    <3>6. CASE Holds(flash[write.page], write.data) /\ Current(flash) = write.data
      <4>1. is_valid(flash[write.page])
        BY <3>2, <3>6, RecOfHolds
      <4>2. flash' = flash
        BY <2>0, <3>1, <3>2, <4>1, DwordEffect DEF Flash
      <4> QED
        BY <3>3, <3>4, <3>6, <4>2 DEF OsWriteInv
    <3> QED
      BY <2>5, <3>5, <3>6 DEF OsProgram, OsWriteInv
  <2>6. CASE Reset
    BY <2>6 DEF Reset, OsWriteInv
  <2>7. CASE UNCHANGED vars
    BY <2>7 DEF vars, OsWriteInv, Spare
  <2> QED
    BY <2>1, <2>2, <2>3, <2>4, <2>5, <2>6, <2>7 DEF Next
<1> QED
  BY <1>1, <1>2, TypeCorrect, PTL DEF Spec

-----------------------------------------------------------------------------
(* The block that counts                                                   *)

(* A step that is not one of an OS writing a page leaves alone what a boot *)
(* reads: a repair because of the other page, a reset because it can only  *)
(* take something away from the page being repaired.                       *)
LEMMA BootStepKeeps ==
  ASSUME TypeOK, BootWriteInv, BootWriteInv', [Next]_vars, pc \notin {"os_erase", "os_program"}
  PROVE  Current(flash') = Current(flash)
<1>0. flash \in Flash
  BY DEF TypeOK, Flash
<1> USE DEF BootWrites
<1>1. CASE UNCHANGED flash
  BY <1>1
<1>2. CASE write_metadata_erase
  <2>1. pc' \in {"program", "boot"} /\ metadata' = metadata /\ pc = "erase"
    BY <1>2 DEF write_metadata_erase, FixupFailed
  <2> QED BY <2>1 DEF BootWriteInv
<1>3. CASE write_metadata_program
  <2>1. pc' \in {"program", "lock", "boot"} /\ metadata' = metadata /\ pc = "program"
    BY <1>3 DEF write_metadata_program, FixupFailed, AdvanceLoop
  <2> QED BY <2>1 DEF BootWriteInv
<1>4. CASE Reset /\ flash' # flash
  <2>1. PICK q \in PageImage :
          /\ pc \in Writing
          /\ flash' = [flash EXCEPT ![write.page] = q]
          /\ Rec(q) \in {NoMeta, Rec(flash[write.page])}
    BY <1>4, ResetEffect DEF Reset
  <2>2. pc \in {"unlock", "erase", "program"} /\ write.page \in Page /\ write.data \in Metadata
    BY <2>1 DEF TypeOK, Writing
  <2>3. Current(flash) = Rec(flash[Other(write.page)])
    BY <2>2, RecOfHolds DEF BootWriteInv
  <2> QED
    BY <1>0, <2>1, <2>2, <2>3, OtherDecides
<1> QED
  BY <1>1, <1>2, <1>3, <1>4
     DEF Next, Boot, is_soft, select_metadata, unlock_flash, write_metadata_return, StartOs,
         failsafe_boot, select_image_panics, PanicResets, OsRequestSoftReboot, OsUpdate,
         OsErase, OsProgram, vars

(* Only an OS that is writing a page changes what the next boot reads: the *)
(* repair never does, completed, failed or interrupted anywhere, whatever  *)
(* the flash does and however the OS has treated the pages (run,           *)
(* select_metadata, write_metadata).                                       *)
BootKeepsCurrent ==
  [][pc \notin {"os_erase", "os_program"} => Current(flash') = Current(flash)]_vars

(* Whatever the OS, its updates are all that can lose or replace metadata. *)
THEOREM RepairKeepsCurrent == Spec => BootKeepsCurrent
<1>1. TypeOK /\ BootWriteInv /\ BootWriteInv' /\ [Next]_vars
        => [pc \notin {"os_erase", "os_program"} => Current(flash') = Current(flash)]_vars
  BY BootStepKeeps
<1> QED
  BY <1>1, TypeCorrect, RepairSafe, PTL DEF Spec, BootKeepsCurrent

(* For an OS that spares its newest block, a step of an update either      *)
(* leaves that block alone too, or replaces it by the newer one.           *)
LEMMA DurableStep ==
  ASSUME TypeOK, BootWriteInv, BootWriteInv', OsWriteInv, [Next]_vars
  PROVE  \/ Current(flash') = Current(flash)
         \/ /\ OsErase \/ OsProgram
            /\ write.data \in Metadata /\ Current(flash') = write.data
            /\ Current(flash) # NoMeta => write.data.version > Current(flash).version
<1>0. flash \in Flash
  BY DEF TypeOK, Flash
<1>1. CASE pc \notin {"os_erase", "os_program"}
  BY <1>1, BootStepKeeps
<1>4. CASE OsErase
  <2>1. PICK result : erase_page(write.page, result)
    BY <1>4 DEF OsErase
  <2>2. write.page \in Page /\ write.data \in Metadata
    BY <1>4 DEF OsErase, TypeOK, Writing
  <2>3. /\ Spare(flash, write.page)
        /\ Current(flash) # NoMeta => write.data.version > Current(flash).version
    BY <1>4 DEF OsErase, OsWriteInv
  <2>4. Current(flash') \in {write.data, Current(flash)}
    BY <1>0, <2>1, <2>2, <2>3, EraseEffect, UpdateFrame
  <2> QED
    BY <1>4, <2>2, <2>3, <2>4
<1>5. CASE OsProgram
  <2>1. PICK result : write_dword(write.page, write.next, write.data, result)
    BY <1>5 DEF OsProgram
  <2>2. write.page \in Page /\ write.data \in Metadata /\ write.next \in Dword
    BY <1>5 DEF OsProgram, TypeOK, Writing
  <2>3. CASE /\ Spare(flash, write.page)
             /\ Current(flash) # NoMeta => write.data.version > Current(flash).version
    <3>1. Current(flash') \in {write.data, Current(flash)}
      BY <1>0, <2>1, <2>2, <2>3, DwordEffect, UpdateFrame
    <3> QED
      BY <1>5, <2>2, <2>3, <3>1
  <2>4. CASE Holds(flash[write.page], write.data) /\ Current(flash) = write.data
    <3>1. is_valid(flash[write.page])
      BY <2>2, <2>4, RecOfHolds
    <3>2. flash' = flash
      BY <1>0, <2>1, <2>2, <3>1, DwordEffect DEF Flash
    <3> QED
      BY <3>2
  <2> QED
    BY <1>5, <2>3, <2>4 DEF OsProgram, OsWriteInv
<1>6. CASE Reset /\ pc \in {"os_erase", "os_program"} /\ flash' # flash
  <2>1. PICK q \in PageImage :
          /\ pc \in Writing
          /\ flash' = [flash EXCEPT ![write.page] = q]
          /\ Rec(q) \in {NoMeta, Rec(flash[write.page])}
          /\ pc \in {"program", "os_program"} /\ is_valid(flash[write.page])
               => q = flash[write.page]
    BY <1>6, ResetEffect DEF Reset
  <2>2. write.page \in Page /\ write.data \in Metadata
    BY <2>1 DEF TypeOK
  <2>3. Current(flash) = Rec(flash[Other(write.page)])
    <3>1. CASE Spare(flash, write.page)
      BY <1>0, <2>2, <3>1, SpareIsOther DEF Spare
    <3>2. CASE pc = "os_program" /\ Holds(flash[write.page], write.data)
      <4>1. is_valid(flash[write.page])
        BY <2>2, <3>2, RecOfHolds
      <4> QED
        BY <1>0, <1>6, <2>1, <2>2, <3>2, <4>1 DEF Flash
    <3> QED
      BY <1>6, <3>1, <3>2 DEF OsWriteInv
  <2> QED
    BY <1>0, <2>1, <2>2, <2>3, OtherDecides
<1>7. CASE UNCHANGED flash
  BY <1>7
<1> QED
  BY <1>1, <1>4, <1>5, <1>6, <1>7
     DEF Next, Boot, is_soft, select_metadata, unlock_flash, write_metadata_erase,
         write_metadata_program, write_metadata_return, StartOs, failsafe_boot,
         select_image_panics, PanicResets,
         OsRequestSoftReboot, OsUpdate, vars

(* The two pages implement one atomic block: every step of the pages is a  *)
(* hand-over, a publication, a restart, or invisible.                      *)
THEOREM Refinement == OsSparesNewest => (Spec => AtomicSpec)
<1> SUFFICES ASSUME OsSparesNewest PROVE Spec => AtomicSpec
  OBVIOUS
<1>1. Init => Atomic!Init
  <2> SUFFICES ASSUME Init PROVE Atomic!Init
    OBVIOUS
  <2>1. flash \in Flash
    BY DEF Init, Flash
  <2> QED
    BY <2>1, CurrentIsNewer DEF Init, Atomic!Init
<1>2. /\ TypeOK /\ BootWriteInv /\ BootWriteInv' /\ OsWriteInv
      /\ [Next]_vars
      => [Atomic!Next]_<<Current(flash), metadata>>
  <2> SUFFICES ASSUME TypeOK, BootWriteInv, BootWriteInv', OsWriteInv, [Next]_vars
               PROVE  \/ Atomic!HandOver
                      \/ Atomic!Restart
                      \/ \E m \in Metadata : Atomic!Publish(m)
                      \/ UNCHANGED <<Current(flash), metadata>>
    BY DEF Atomic!Next
  <2>1. CASE OsErase \/ OsProgram
    <3>1. metadata' = metadata
      BY <2>1 DEF OsErase, OsProgram
    <3>2. CASE Current(flash') = Current(flash)
      BY <3>1, <3>2
    <3>3. CASE /\ write.data \in Metadata /\ Current(flash') = write.data
               /\ Current(flash) # NoMeta => write.data.version > Current(flash).version
      BY <3>1, <3>3 DEF Atomic!Publish
    <3> QED BY <3>2, <3>3, DurableStep
  <2>2. CASE ~(OsErase \/ OsProgram)
    <3>1. Current(flash') = Current(flash)
      BY <2>2, DurableStep
    <3>2. CASE select_metadata
      <4>1. metadata' = Current(flash)
        BY <3>2 DEF select_metadata, Current
      <4>2. CASE Current(flash) # NoMeta
        BY <3>1, <4>1, <4>2 DEF Atomic!HandOver
      <4>3. CASE Current(flash) = NoMeta
        BY <3>1, <4>1, <4>3 DEF Atomic!Restart
      <4> QED BY <4>2, <4>3
    <3>3. CASE metadata' = NoMeta
      BY <3>1, <3>3 DEF Atomic!Restart
    <3>4. CASE metadata' = metadata
      BY <3>1, <3>4
    <3>5. select_metadata \/ metadata' \in {NoMeta, metadata}
      BY <2>2 DEF Next, Boot, is_soft, unlock_flash, write_metadata_erase,
         write_metadata_program, write_metadata_return, StartOs, failsafe_boot,
         select_image_panics, PanicResets,
         OsRequestSoftReboot, OsUpdate, Reset, vars
    <3> QED BY <3>2, <3>3, <3>4, <3>5
  <2> QED
    BY <2>1, <2>2
<1> QED
  BY <1>1, <1>2, TypeCorrect, RepairSafe, UpdateSafe, PTL
  DEF Spec, AtomicSpec, Atomic!Spec

(* A device that has once booted from its metadata has valid metadata ever *)
(* after, for an OS that spares its newest block: power losses, soft       *)
(* reboots that skip the repair and every fault of the flash included.     *)
THEOREM SparingNeverBreaks == OsSparesNewest => (Spec => NeverBroken)
<1> SUFFICES ASSUME OsSparesNewest PROVE Spec => NeverBroken
  OBVIOUS
<1> DEFINE HasBlock == Current(flash) # NoMeta
           FailsafeInv == pc = "failsafe" => ~HasBlock
<1>1. Init => FailsafeInv
  BY DEF Init
<1>2. TypeOK /\ BootWriteInv /\ BootWriteInv' /\ OsWriteInv /\ HasBlock /\ [Next]_vars
        => HasBlock'
  <2> SUFFICES ASSUME TypeOK, BootWriteInv, BootWriteInv', OsWriteInv, HasBlock,
                      [Next]_vars
               PROVE  HasBlock'
    OBVIOUS
  <2> QED
    BY DurableStep, CellAssumption
<1>3. FailsafeInv /\ [Next]_vars => FailsafeInv'
  <2> SUFFICES ASSUME FailsafeInv, [Next]_vars, pc' = "failsafe" PROVE ~HasBlock'
    OBVIOUS
  <2>1. CASE select_metadata
    BY <2>1 DEF select_metadata, Current
  <2>2. CASE UNCHANGED vars
    BY <2>2 DEF vars
  <2> QED
    BY <2>1, <2>2 DEF Next, Boot, is_soft, unlock_flash, write_metadata_erase,
       write_metadata_program, write_metadata_return, StartOs, failsafe_boot,
       select_image_panics, PanicResets, FixupFailed,
       AdvanceLoop, OsRequestSoftReboot, OsUpdate, OsErase, OsProgram, OsGivesUp, Reset
<1>4. BootWriteInv /\ pc = "boot" => HasBlock
  BY DEF BootWriteInv, BootWrites
<1>5. FailsafeInv /\ HasBlock => pc # "failsafe"
  OBVIOUS
<1> HIDE DEF HasBlock, FailsafeInv
<1> QED
  BY <1>1, <1>2, <1>3, <1>4, <1>5, TypeCorrect, RepairSafe, UpdateSafe, PTL
  DEF Spec, NeverBroken

-----------------------------------------------------------------------------
(* Two intact pages are never erased or programmed by the bootloader, and  *)
(* a reset does not change them either.                                    *)
THEOREM FlashCyclesSaved == Spec => NoNeedlessWrite
<1>1. TypeOK /\ BootWriteInv /\ [Next]_vars
        => [pc \notin OsPhases /\ Intact(flash) => UNCHANGED flash]_vars
  <2> SUFFICES ASSUME TypeOK, BootWriteInv, Next, pc \notin OsPhases, Intact(flash)
               PROVE  UNCHANGED flash
    BY DEF vars
  <2>0. flash \in Flash
    BY DEF TypeOK, Flash
  <2>1. pc \notin {"unlock", "erase"}
    BY DEF BootWriteInv
  <2>2. \A p \in Page : is_valid(flash[p])
    BY DEF Intact, Page
  <2>3. CASE write_metadata_program
    <3>1. PICK result : write_dword(write.page, write.next, write.data, result)
      BY <2>3 DEF write_metadata_program
    <3>2. write.page \in Page /\ write.data \in Metadata /\ write.next \in Dword
      BY <2>3 DEF write_metadata_program, TypeOK, Writing
    <3> QED
      BY <2>0, <2>2, <3>1, <3>2, DwordEffect DEF Flash
  <2>4. CASE Reset
    <3>1. flash' \in InterruptedFlash
      BY <2>4 DEF Reset
    <3>2. pc \in Writing => pc = "program" /\ write.page \in Page
      BY <2>1 DEF TypeOK, Writing, OsPhases
    <3> QED
      BY <2>0, <2>2, <3>1, <3>2, ResetEffect DEF Flash
  <2>5. CASE \/ is_soft \/ select_metadata \/ unlock_flash \/ write_metadata_erase
             \/ write_metadata_return \/ StartOs \/ failsafe_boot \/ select_image_panics
             \/ OsRequestSoftReboot \/ OsErase \/ OsProgram
             \/ \E p \in Page, m \in Metadata : OsUpdate(p, m)
    BY <2>1, <2>5 DEF is_soft, select_metadata, unlock_flash, write_metadata_erase,
       write_metadata_return, StartOs, failsafe_boot,
       select_image_panics, PanicResets, OsRequestSoftReboot, OsErase,
       OsProgram, OsUpdate, OsPhases
  <2> QED
    BY <2>3, <2>4, <2>5 DEF Next, Boot
<1> QED
  BY <1>1, TypeCorrect, RepairSafe, PTL DEF Spec, NoNeedlessWrite

(* The version of an update is higher than that of the block it was begun  *)
(* with, and so higher than what the other page holds, which nobody writes *)
(* meanwhile.                                                              *)
NewerThanOther ==
  pc \in {"os_erase", "os_program"} =>
    LET other == Rec(flash[Other(write.page)])
    IN other = NoMeta \/ other.version < write.data.version

LEMMA CurrentBoth ==
  ASSUME NEW f \in Flash, NEW p \in Page
  PROVE  /\ Rec(f[Other(p)]) # NoMeta =>
              Current(f) # NoMeta /\ Rec(f[Other(p)]).version <= Current(f).version
         /\ /\ Rec(f[p]) # NoMeta
            /\ Rec(f[Other(p)]) = NoMeta \/ Rec(f[Other(p)]).version < Rec(f[p]).version
            => Current(f) = Rec(f[p])
<1> DEFINE a == Rec(f[METADATA_1])
           b == Rec(f[METADATA_2])
<1>1. /\ a \in Metadata \cup {NoMeta} /\ b \in Metadata \cup {NoMeta}
      /\ a # NoMeta => a.version \in Nat
      /\ b # NoMeta => b.version \in Nat
  BY RecType, VersionNat
<1>2. Current(f) = Newer(a, b)
  BY CurrentIsNewer
<1>3. \/ Rec(f[p]) = a /\ Rec(f[Other(p)]) = b
      \/ Rec(f[p]) = b /\ Rec(f[Other(p)]) = a
  BY DEF Page, Other, METADATA_1, METADATA_2
<1> HIDE DEF a, b
<1> QED
  BY <1>1, <1>2, <1>3 DEF Newer

LEMMA NewerThanOtherStep ==
  ASSUME TypeOK, NewerThanOther, [Next]_vars
  PROVE  NewerThanOther'
<1>0. flash \in Flash
  BY DEF TypeOK, Flash
<1>1. CASE \E p \in Page, m \in Metadata : OsUpdate(p, m)
  <2>1. PICK p \in Page, m \in Metadata : OsUpdate(p, m)
    BY <1>1
  <2>2. /\ Current(flash) # NoMeta => m.version > Current(flash).version
        /\ flash' = flash /\ write'.page = p /\ write'.data = m
    BY <2>1 DEF OsUpdate
  <2>3. Rec(flash[Other(p)]) = NoMeta \/ Rec(flash[Other(p)]).version < m.version
    <3> SUFFICES ASSUME Rec(flash[Other(p)]) # NoMeta PROVE Rec(flash[Other(p)]).version < m.version
      OBVIOUS
    <3>1. /\ Current(flash) # NoMeta
          /\ Rec(flash[Other(p)]).version <= Current(flash).version
      BY <1>0, CurrentBoth
    <3>2. Current(flash) \in Metadata /\ Rec(flash[Other(p)]) \in Metadata
      BY <1>0, <3>1, CurrentIsNewer, RecType
    <3> QED
      BY <2>2, <3>1, <3>2, VersionNat
  <2> QED
    BY <2>2, <2>3 DEF NewerThanOther
<1>2. CASE OsErase \/ OsProgram
  <2>1. write.page \in Page /\ write.data \in Metadata /\ (pc = "os_program" => write.next \in Dword)
    BY <1>2 DEF OsErase, OsProgram, TypeOK, Writing
  <2>2. PICK q \in PageImage : flash' = [flash EXCEPT ![write.page] = q]
    <3>1. CASE OsErase
      <4>1. PICK result : erase_page(write.page, result)
        BY <3>1 DEF OsErase
      <4> QED
        BY <1>0, <2>1, <4>1, EraseEffect
    <3>2. CASE OsProgram
      <4>1. PICK result : write_dword(write.page, write.next, write.data, result)
        BY <3>2 DEF OsProgram
      <4> QED
        BY <1>0, <2>1, <3>2, <4>1, DwordEffect DEF OsProgram
    <3> QED
      BY <1>2, <3>1, <3>2
  <2>3. flash'[Other(write.page)] = flash[Other(write.page)]
    BY <1>0, <2>1, <2>2 DEF Flash, Page, Other, METADATA_1, METADATA_2
  <2>4. pc' \in {"os_erase", "os_program"} => write'.page = write.page /\ write'.data = write.data
    <3>1. CASE OsErase
      BY <3>1 DEF OsErase, OsGivesUp
    <3>2. CASE OsProgram
      BY <2>1, <3>2, LoopType DEF OsProgram, OsGivesUp, PcValues, OsPhases, Writing
    <3> QED
      BY <1>2, <3>1, <3>2
  <2>5. pc \in {"os_erase", "os_program"}
    BY <1>2 DEF OsErase, OsProgram
  <2> QED
    BY <2>3, <2>4, <2>5 DEF NewerThanOther
<1>3. CASE Boot \/ OsRequestSoftReboot \/ Reset
  <2>1. pc' \notin {"os_erase", "os_program"}
    BY <1>3 DEF Boot, is_soft, select_metadata, unlock_flash, write_metadata_erase,
       write_metadata_program, write_metadata_return, StartOs, failsafe_boot,
       select_image_panics, PanicResets, FixupFailed,
       AdvanceLoop, OsRequestSoftReboot, Reset
  <2> QED
    BY <2>1 DEF NewerThanOther
<1>4. CASE UNCHANGED vars
  BY <1>4 DEF vars, NewerThanOther
<1> QED
  BY <1>1, <1>2, <1>3, <1>4 DEF Next

(* A page the OS has written completely is what the next boot works with,  *)
(* whichever page it chose and whatever the other one holds: the version   *)
(* decides.                                                                *)
THEOREM UpdateEffective == Spec => UpdateTakesEffect
<1>1. Init => NewerThanOther
  BY DEF Init, NewerThanOther
<1>2. TypeOK /\ NewerThanOther /\ [Next]_vars => NewerThanOther'
  BY NewerThanOtherStep
<1>3. TypeOK /\ NewerThanOther /\ [Next]_vars
        => [pc = "os_program" /\ pc' = "os" /\ Holds(flash'[write.page], write.data)
              => Current(flash') = write.data]_vars
  <2> SUFFICES ASSUME TypeOK, NewerThanOther, Next, pc = "os_program", pc' = "os",
                      Holds(flash'[write.page], write.data)
               PROVE  Current(flash') = write.data
    BY DEF vars
  <2>0. flash \in Flash
    BY DEF TypeOK, Flash
  <2>1. OsProgram
    BY DEF Next, Boot, is_soft, select_metadata, unlock_flash, write_metadata_erase,
       write_metadata_program, write_metadata_return, StartOs, failsafe_boot,
       select_image_panics, PanicResets,
       OsRequestSoftReboot, OsErase, OsUpdate, Reset
  <2>2. PICK result : write_dword(write.page, write.next, write.data, result)
    BY <2>1 DEF OsProgram
  <2>3. write.page \in Page /\ write.data \in Metadata /\ write.next \in Dword
    BY DEF TypeOK, Writing
  <2>4. PICK q \in PageImage : flash' = [flash EXCEPT ![write.page] = q]
    BY <2>0, <2>2, <2>3, DwordEffect
  <2>5. flash' \in Flash /\ flash'[Other(write.page)] = flash[Other(write.page)]
    BY <2>0, <2>3, <2>4 DEF Flash, Page, Other, METADATA_1, METADATA_2
  <2>6. Rec(flash'[write.page]) = write.data /\ write.data # NoMeta
    BY <2>3, RecOfHolds, CellAssumption
  <2>7. LET other == Rec(flash'[Other(write.page)])
        IN other = NoMeta \/ other.version < write.data.version
    BY <2>5 DEF NewerThanOther
  <2> QED
    BY <2>3, <2>5, <2>6, <2>7, CurrentBoth
<1> QED
  BY <1>1, <1>2, <1>3, TypeCorrect, PTL DEF Spec, UpdateTakesEffect

-----------------------------------------------------------------------------
(* Two pages holding the same block are intact. *)
LEMMA SameBlockIntact ==
  ASSUME NEW f, NEW p \in Page, NEW m \in Metadata,
         Holds(f[p], m), Holds(f[Other(p)], m)
  PROVE  Intact(f)
<1>1. /\ is_valid(f[p]) /\ read_metadata(f[p]) = m
      /\ is_valid(f[Other(p)]) /\ read_metadata(f[Other(p)]) = m
  BY RecOfHolds
<1>2. {p, Other(p)} = {METADATA_1, METADATA_2}
  BY DEF Page, Other, METADATA_1, METADATA_2
<1> QED
  BY <1>1, <1>2 DEF Intact

(* When every failure of the flash is reported, a repair is as far as its  *)
(* loop, and an Ok of select_metadata means two valid pages of one version. *)
LEMMA FixInvariant ==
  "silent" \notin Faults => (Spec => []FixProgress /\ []FixOkMeansIntact)
<1> SUFFICES ASSUME "silent" \notin Faults
             PROVE  Spec => []FixProgress /\ []FixOkMeansIntact
  OBVIOUS
<1> DEFINE FixInv == FixProgress /\ FixOkMeansIntact
<1>1. Init => FixInv
  BY DEF Init, FixProgress, FixOkMeansIntact
<1>2. TypeOK /\ BootWriteInv /\ FixInv /\ [Next]_vars => FixInv'
  <2> SUFFICES ASSUME TypeOK, BootWriteInv, FixInv, [Next]_vars PROVE FixInv'
    OBVIOUS
  <2>0. flash \in Flash
    BY DEF TypeOK, Flash
  <2> USE DEF FixProgress, FixOkMeansIntact
  <2>1. CASE select_metadata
    <3>1. /\ Select(flash).meta # NoMeta =>
               (Select(flash).write_addr = NoPage <=> Intact(flash))
      BY <2>0, SelectNewest
    <3> QED
      BY <2>1, <3>1 DEF select_metadata
  <2>2. CASE write_metadata_erase
    <3>1. CASE pc' = "program" /\ UNCHANGED write
      <4>1. write.next = 1
        BY <2>2 DEF write_metadata_erase
      <4> QED
        BY <3>1, <4>1 DEF Dword
    <3>2. CASE FixupFailed
      BY <3>2 DEF FixupFailed
    <3> QED
      BY <2>2, <3>1, <3>2 DEF write_metadata_erase
  <2>3. CASE write_metadata_program
    <3> DEFINE p == write.page
               n == write.next
               m == write.data
    <3>1. CASE FixupFailed
      BY <3>1 DEF FixupFailed
    <3>2. CASE write_dword(p, n, m, "Ok") /\ AdvanceLoop("lock") /\ UNCHANGED fix_result
      <4>1. p \in Page /\ n \in Dword /\ m \in Metadata
            /\ write \in [page : Page, data : Metadata, next : Dword]
        BY <2>3 DEF write_metadata_program, TypeOK, Writing
      <4>2. flash' = [flash EXCEPT ![p][n] = m]
        BY <3>2 DEF write_dword
      <4>3. \A d \in Dword : d <= n => flash'[p][d] = m
        <5>1. \A d \in Dword : d < n => flash[p][d] = m
          BY <2>3 DEF write_metadata_program
        <5>2. flash[p] \in [Dword -> Cell]
          BY <2>0, <4>1 DEF Flash, PageImage
        <5>3. flash'[p] = [flash[p] EXCEPT ![n] = m]
          BY <2>0, <4>1, <4>2 DEF Flash
        <5> HIDE DEF p, n, m
        <5>4. \A d \in Dword : flash'[p][d] = IF d = n THEN m ELSE flash[p][d]
          BY <4>1, <5>2, <5>3
        <5> QED
          BY <4>1, <5>1, <5>4, DwordsAssumption DEF Dword
      <4>4. flash'[Other(p)] = flash[Other(p)]
        BY <2>0, <4>1, <4>2 DEF Flash, Page, Other, METADATA_1, METADATA_2
      <4>5. CASE n = Dwords
        <5>1. Holds(flash'[p], m)
          BY <4>3, <4>5, DwordsAssumption DEF Holds, Dword
        <5>2. Holds(flash'[Other(p)], m)
          BY <2>3, <4>4 DEF write_metadata_program, BootWriteInv
        <5> HIDE DEF p, m
        <5>3. Intact(flash')
          BY <4>1, <5>1, <5>2, SameBlockIntact, Zenon
        <5> QED
          BY <3>2, <4>5, <5>3 DEF AdvanceLoop
      <4>6. CASE n # Dwords
        <5>1. pc' = "program" /\ write' = [write EXCEPT !.next = n + 1]
          BY <2>3, <3>2, <4>6 DEF AdvanceLoop, write_metadata_program
        <5>2. write'.page = p /\ write'.data = m /\ write'.next = n + 1
          BY <4>1, <5>1
        <5> QED
          BY <4>1, <4>3, <5>1, <5>2, DwordsAssumption DEF Dword
      <4> QED
        BY <4>5, <4>6
    <3> QED
      BY <2>3, <3>1, <3>2 DEF write_metadata_program
  <2>4. CASE write_metadata_return
    BY <2>4 DEF write_metadata_return
  <2>5. CASE \/ is_soft \/ unlock_flash \/ StartOs \/ failsafe_boot \/ select_image_panics
             \/ OsRequestSoftReboot \/ OsErase \/ OsProgram \/ Reset
             \/ \E p \in Page, m \in Metadata : OsUpdate(p, m)
    BY <2>5 DEF is_soft, unlock_flash, FixupFailed, StartOs, failsafe_boot,
        select_image_panics, PanicResets,
       OsRequestSoftReboot, OsErase, OsProgram, OsGivesUp, AdvanceLoop, OsUpdate, Reset
  <2>6. CASE UNCHANGED vars
    BY <2>6 DEF vars
  <2> QED
    BY <2>1, <2>2, <2>3, <2>4, <2>5, <2>6 DEF Next, Boot
<1> QED
  BY <1>1, <1>2, TypeCorrect, RepairSafe, PTL DEF Spec

(* write_metadata: an Ok of select_metadata means that both pages are      *)
(* valid and of one version, when every failure of the flash is reported.  *)
THEOREM FixReported == "silent" \notin Faults => (Spec => []FixOkMeansIntact)
  BY FixInvariant, PTL

(* write_dwords: what the loop has passed is in place, and before the      *)
(* flash is locked the repair is complete.                                 *)
THEOREM FixGoesOn == "silent" \notin Faults => (Spec => []FixProgress)
  BY FixInvariant, PTL

-----------------------------------------------------------------------------
(* Without faults of the flash, a page is written from front to back and   *)
(* both pages are valid whenever an OS runs.                               *)
FaultlessInv ==
  /\ soft = "none"
  /\ pc \in {"unlock", "erase", "os_erase"} => write.next = 1
  /\ pc \in {"program", "os_program"} =>
       \A d \in Dword :
         flash[write.page][d] = IF d < write.next THEN write.data ELSE Erased
  /\ pc \in {"os_erase", "os_program"} => is_valid(flash[Other(write.page)])
  /\ pc \in {"lock", "boot", "os"} => \A p \in Page : is_valid(flash[p])
  /\ pc = "failsafe" => Current(flash) = NoMeta

(* One turn of the loop of write_dwords, in a repair or in an update *)
LEMMA FaultlessTurn ==
  ASSUME TypeOK, FaultlessInv, Faults = {}, pc \in {"program", "os_program"},
         NEW result, write_dword(write.page, write.next, write.data, result)
  PROVE  /\ result = "Ok"
         /\ flash'[Other(write.page)] = flash[Other(write.page)]
         /\ \A d \in Dword :
              flash'[write.page][d] = IF d <= write.next THEN write.data ELSE Erased
<1> DEFINE p == write.page
           n == write.next
           m == write.data
<1>1. p \in Page /\ n \in Dword /\ m \in Metadata /\ flash \in Flash
  BY DEF TypeOK, Writing, Flash
<1>2. \A d \in Dword : flash[p][d] = IF d < n THEN m ELSE Erased
  BY DEF FaultlessInv
<1>3. flash[p][n] = Erased
  BY <1>1, <1>2, DwordsAssumption, SMT DEF Dword
<1>4. result = "Ok" /\ flash' = [flash EXCEPT ![p][n] = m]
  BY <1>3 DEF write_dword
<1>5. flash[p] \in [Dword -> Cell]
  BY <1>1 DEF Flash, PageImage
<1>6. flash'[p] = [flash[p] EXCEPT ![n] = m] /\ flash'[Other(p)] = flash[Other(p)]
  BY <1>1, <1>4 DEF Flash, Page, Other, METADATA_1, METADATA_2
<1> HIDE DEF p, n, m
<1>7. \A d \in Dword : flash'[p][d] = IF d = n THEN m ELSE flash[p][d]
  BY <1>1, <1>5, <1>6
<1>8. \A d \in Dword : flash'[p][d] = IF d <= n THEN m ELSE Erased
  BY <1>1, <1>2, <1>7, DwordsAssumption, SMT DEF Dword
<1> QED
  BY <1>4, <1>6, <1>8 DEF p, n, m

(* ... and what it leads to *)
LEMMA FaultlessLoop ==
  ASSUME TypeOK, FaultlessInv, Faults = {}, pc \in {"program", "os_program"},
         write_dword(write.page, write.next, write.data, "Ok"),
         NEW after, after \in {"lock", "os"}, AdvanceLoop(after),
         is_valid(flash[Other(write.page)])
  PROVE  \/ pc' = after /\ \A p \in Page : is_valid(flash'[p])
         \/ /\ pc' = pc /\ write'.page = write.page
            /\ is_valid(flash'[Other(write'.page)])
            /\ \A d \in Dword :
                 flash'[write'.page][d] = IF d < write'.next THEN write'.data ELSE Erased
<1> DEFINE p == write.page
           n == write.next
           m == write.data
<1>1. /\ p \in Page /\ n \in Dword /\ m \in Metadata
      /\ write \in [page : Page, data : Metadata, next : Dword]
  BY DEF TypeOK, Writing
<1>2. /\ flash'[Other(p)] = flash[Other(p)]
      /\ \A d \in Dword : flash'[p][d] = IF d <= n THEN m ELSE Erased
  BY FaultlessTurn
<1>3. CASE n = Dwords
  <2>1. Holds(flash'[p], m)
    BY <1>2, <1>3, DwordsAssumption, SMT DEF Holds, Dword
  <2>2. is_valid(flash'[p])
    BY <1>1, <2>1, RecOfHolds
  <2>3. Page = {p, Other(p)}
    BY <1>1 DEF Page, Other, METADATA_1, METADATA_2
  <2> QED
    BY <1>2, <1>3, <2>2, <2>3 DEF AdvanceLoop
<1>4. CASE n # Dwords
  <2>1. pc' = pc /\ write' = [write EXCEPT !.next = n + 1]
    BY <1>4 DEF AdvanceLoop
  <2>2. write'.page = p /\ write'.data = m /\ write'.next = n + 1
    BY <1>1, <2>1
  <2> HIDE DEF p, n, m
  <2>3. \A d \in Dword : d <= n <=> d < n + 1
    BY <1>1, DwordsAssumption, SMT DEF Dword
  <2> QED
    BY <1>2, <2>1, <2>2, <2>3 DEF p
<1> QED
  BY <1>3, <1>4

LEMMA ValidGivesBlock ==
  ASSUME NEW f \in Flash, NEW p \in Page, is_valid(f[p])
  PROVE  Current(f) # NoMeta
<1>1. Rec(f[p]) # NoMeta
  BY RecType
<1> QED
  BY <1>1, CurrentIsNewer, RecType DEF Newer, Page

LEMMA FaultlessStep ==
  ASSUME Faults = {}, SoftReboots = FALSE,
         TypeOK, BootWriteInv, BootWriteInv', FaultlessInv, [Next]_vars
  PROVE  FaultlessInv' /\ (Current(flash) # NoMeta => Current(flash') # NoMeta)
<1>0. flash \in Flash
  BY DEF TypeOK, Flash
<1>1. CASE select_metadata
  <2>1. UNCHANGED <<flash, soft>> /\ Current(flash) = Select(flash).meta
    BY <1>1 DEF select_metadata, Current
  <2>2. Select(flash).meta # NoMeta /\ Select(flash).write_addr = NoPage => Intact(flash)
    BY <1>0, SelectNewest
  <2>3. Intact(flash) => \A p \in Page : is_valid(flash[p])
    BY DEF Intact, Page
  <2> QED
    BY <1>1, <2>1, <2>2, <2>3 DEF select_metadata, FaultlessInv
<1>2. CASE \/ is_soft \/ unlock_flash \/ write_metadata_return \/ StartOs
           \/ failsafe_boot \/ select_image_panics \/ OsRequestSoftReboot
  BY <1>2 DEF is_soft, unlock_flash, write_metadata_return, StartOs, failsafe_boot,
      select_image_panics, PanicResets,
     OsRequestSoftReboot, FaultlessInv
<1>3. CASE write_metadata_erase \/ OsErase
  <2>1. /\ write.page \in Page /\ write.data \in Metadata /\ write.next = 1
        /\ pc \in {"erase", "os_erase"}
    BY <1>3 DEF write_metadata_erase, OsErase, TypeOK, Writing, FaultlessInv
  <2>2. /\ flash' = [flash EXCEPT ![write.page] = ErasedPage]
        /\ UNCHANGED <<write, soft, metadata>>
        /\ pc' = IF pc = "erase" THEN "program" ELSE "os_program"
    BY <1>3 DEF write_metadata_erase, OsErase, erase_page
  <2>3. /\ flash'[write.page] = ErasedPage
        /\ flash'[Other(write.page)] = flash[Other(write.page)]
    BY <1>0, <2>1, <2>2 DEF Flash, Page, Other, METADATA_1, METADATA_2
  <2>4. \A d \in Dword : ErasedPage[d] = IF d < 1 THEN write.data ELSE Erased
    BY DwordsAssumption, SMT DEF ErasedPage, Dword
  <2>5. is_valid(flash[Other(write.page)])
    <3>1. CASE pc = "erase"
      <4>1. Holds(flash[Other(write.page)], metadata) /\ metadata = write.data
        BY <3>1 DEF BootWriteInv
      <4> QED
        BY <2>1, <4>1, RecOfHolds
    <3>2. CASE pc = "os_erase"
      BY <3>2 DEF FaultlessInv
    <3> QED
      BY <2>1, <3>1, <3>2
  <2>6. flash' \in Flash /\ Other(write.page) \in Page
    BY <1>0, <2>1, <2>2, PageUpdateType, RecOfErased DEF Page, Other, METADATA_1, METADATA_2,
       ErasedPage, PageImage, Cell
  <2>7. Current(flash') # NoMeta
    BY <2>3, <2>5, <2>6, ValidGivesBlock
  <2>8. FaultlessInv'
    BY <2>1, <2>2, <2>3, <2>4, <2>5 DEF FaultlessInv
  <2> QED
    BY <2>7, <2>8
<1>4. CASE write_metadata_program \/ OsProgram
  <2>1. /\ write.page \in Page /\ write.data \in Metadata
        /\ pc \in {"program", "os_program"}
    BY <1>4 DEF write_metadata_program, OsProgram, TypeOK, Writing
  <2>2. is_valid(flash[Other(write.page)])
    <3>1. CASE pc = "program"
      <4>1. Holds(flash[Other(write.page)], metadata) /\ metadata = write.data
        BY <3>1 DEF BootWriteInv
      <4> QED
        BY <2>1, <4>1, RecOfHolds
    <3>2. CASE pc = "os_program"
      BY <3>2 DEF FaultlessInv
    <3> QED
      BY <2>1, <3>1, <3>2
  <2>3. PICK after \in {"lock", "os"} :
          /\ write_dword(write.page, write.next, write.data, "Ok")
          /\ AdvanceLoop(after)
    <3>1. \A result : write_dword(write.page, write.next, write.data, result) => result = "Ok"
      BY <1>0, <2>1, FaultlessTurn
    <3>2. "Err" # "Ok"
      OBVIOUS
    <3>3. CASE write_metadata_program
      BY <3>1, <3>2, <3>3, Zenon DEF write_metadata_program
    <3>4. CASE OsProgram
      BY <3>1, <3>2, <3>4, Zenon DEF OsProgram
    <3> QED
      BY <1>4, <3>3, <3>4
  <2>4. soft' = soft
    BY <1>4 DEF write_metadata_program, OsProgram
  <2>5. \/ pc' = after /\ \A p \in Page : is_valid(flash'[p])
        \/ /\ pc' = pc /\ write'.page = write.page
           /\ is_valid(flash'[Other(write'.page)])
           /\ \A d \in Dword :
                flash'[write'.page][d] = IF d < write'.next THEN write'.data ELSE Erased
    BY <2>1, <2>2, <2>3, FaultlessLoop
  <2>6. FaultlessInv'
    BY <2>1, <2>4, <2>5 DEF FaultlessInv
  <2>7. flash'[Other(write.page)] = flash[Other(write.page)]
    BY <2>1, <2>3, FaultlessTurn
  <2>8. flash' \in Flash /\ Other(write.page) \in Page
    <3>1. write.next \in Dword
      BY <2>1 DEF TypeOK, Writing
    <3>2. PICK q \in PageImage : flash' = [flash EXCEPT ![write.page] = q]
      BY <1>0, <2>1, <2>3, <3>1, DwordEffect
    <3> QED
      BY <1>0, <2>1, <3>2, PageUpdateType DEF Page, Other, METADATA_1, METADATA_2
  <2> QED
    BY <2>2, <2>6, <2>7, <2>8, ValidGivesBlock
<1>5. CASE \E p \in Page, m \in Metadata : OsUpdate(p, m)
  <2>1. PICK p \in Page, m \in Metadata : OsUpdate(p, m)
    BY <1>5
  <2>2. /\ UNCHANGED <<flash, soft>> /\ pc = "os" /\ pc' = "os_erase"
        /\ write' = [page |-> p, data |-> m, next |-> 1]
    BY <2>1 DEF OsUpdate
  <2>3. write'.page = p /\ write'.next = 1 /\ Other(p) \in Page
    BY <2>2 DEF Page, Other, METADATA_1, METADATA_2
  <2> QED
    BY <2>2, <2>3 DEF FaultlessInv
<1>6. CASE Reset
  <2>1. pc' = "reset" /\ soft' = "none" /\ flash' \in InterruptedFlash
    BY <1>6 DEF Reset, FaultlessInv
  <2>2. CASE flash' = flash
    BY <2>1, <2>2 DEF FaultlessInv
  <2>3. CASE flash' # flash
    <3>1. PICK q \in PageImage :
            pc \in Writing /\ flash' = [flash EXCEPT ![write.page] = q]
      BY <2>1, <2>3, ResetEffect
    <3>2. write.page \in Page /\ write.data \in Metadata
      BY <3>1 DEF TypeOK
    <3>3. is_valid(flash[Other(write.page)])
      <4>1. CASE pc \in {"unlock", "erase", "program"}
        <5>1. Holds(flash[Other(write.page)], metadata) /\ metadata = write.data
          BY <4>1 DEF BootWriteInv
        <5> QED
          BY <3>2, <5>1, RecOfHolds
      <4>2. CASE pc \in {"os_erase", "os_program"}
        BY <4>2 DEF FaultlessInv
      <4> QED
        BY <3>1, <4>1, <4>2 DEF Writing
    <3>4. /\ flash'[Other(write.page)] = flash[Other(write.page)]
          /\ flash' \in Flash /\ Other(write.page) \in Page
      BY <1>0, <3>1, <3>2, PageUpdateType DEF Flash, Page, Other, METADATA_1, METADATA_2
    <3> QED
      BY <2>1, <3>3, <3>4, ValidGivesBlock DEF FaultlessInv
  <2> QED
    BY <2>2, <2>3
<1>7. CASE UNCHANGED vars
  BY <1>7 DEF vars, FaultlessInv
<1> QED
  BY <1>1, <1>2, <1>3, <1>4, <1>5, <1>6, <1>7 DEF Next, Boot

(* The rule of the user guide (overwrite either page, with a higher        *)
(* version) is enough as long as nothing fails but the power: the repair   *)
(* in every boot makes either page dispensable.                            *)
THEOREM GuidePolicySuffices ==
  Faults = {} /\ SoftReboots = FALSE => (Spec => NeverBroken)
<1> SUFFICES ASSUME Faults = {}, SoftReboots = FALSE PROVE Spec => NeverBroken
  OBVIOUS
<1> DEFINE HasBlock == Current(flash) # NoMeta
<1>1. Init => FaultlessInv
  BY DEF Init, FaultlessInv
<1>2. TypeOK /\ BootWriteInv /\ BootWriteInv' /\ FaultlessInv /\ [Next]_vars
        => FaultlessInv' /\ (HasBlock => HasBlock')
  BY FaultlessStep
<1>3. BootWriteInv /\ pc = "boot" => HasBlock
  BY DEF BootWriteInv, BootWrites
<1>4. FaultlessInv /\ HasBlock => pc # "failsafe"
  BY DEF FaultlessInv
<1> HIDE DEF HasBlock
<1> QED
  BY <1>1, <1>2, <1>3, <1>4, TypeCorrect, RepairSafe, PTL DEF Spec, NeverBroken
=============================================================================
