------------------------ MODULE MetadataPagesProofs ------------------------
(***************************************************************************)
(* Facts about pages and about internal_select, for every number of double *)
(* words, every payload and every largest version.  bootloader/src/        *)
(* metadata.rs verifies internal_select with Kani for two given blocks;    *)
(* here it is proved of the pages the blocks are read from, together with  *)
(* what a write to one page does to the outcome.                           *)
(***************************************************************************)
EXTENDS MetadataPages, TLAPS

(* The block a page holds, NoMeta when its CRC does not match *)
Rec(page) == IF is_valid(page) THEN read_metadata(page) ELSE NoMeta

(* The newer of two blocks, the first one on a tie *)
Newer(a, b) ==
  IF a = NoMeta THEN b
  ELSE IF b = NoMeta THEN a
  ELSE IF b.version > a.version THEN b ELSE a

Flash == [Page -> PageImage]

-----------------------------------------------------------------------------
(* A page carries at most one block. *)
LEMMA HoldsUnique ==
  ASSUME NEW page, NEW m, NEW n, Holds(page, m), Holds(page, n)
  PROVE  m = n
<1>1. 1 \in Dword
  BY DwordsAssumption, SMT DEF Dword
<1> QED
  BY <1>1 DEF Holds

LEMMA RecOfHolds ==
  ASSUME NEW page, NEW m \in Metadata, Holds(page, m)
  PROVE  is_valid(page) /\ read_metadata(page) = m /\ Rec(page) = m
<1>1. 1 \in Dword
  BY DwordsAssumption, SMT DEF Dword
<1>2. page[1] = m
  BY <1>1 DEF Holds
<1> QED
  BY <1>2 DEF Rec, is_valid, read_metadata

(* read_metadata of a page whose CRC matches is what the page holds. *)
LEMMA ReadValid ==
  ASSUME NEW page, is_valid(page)
  PROVE  /\ read_metadata(page) \in Metadata
         /\ Holds(page, read_metadata(page))
         /\ Rec(page) = read_metadata(page)
         /\ Rec(page) # NoMeta
<1>1. page[1] \in Metadata /\ Holds(page, page[1])
  BY DEF is_valid
<1> QED
  BY <1>1, RecOfHolds, CellAssumption

LEMMA RecType ==
  ASSUME NEW page
  PROVE  /\ Rec(page) \in Metadata \cup {NoMeta}
         /\ Rec(page) # NoMeta <=> is_valid(page)
         /\ Rec(page) # NoMeta => Holds(page, Rec(page))
  BY ReadValid DEF Rec

LEMMA VersionNat ==
  ASSUME NEW m \in Metadata
  PROVE  m.version \in Nat
  BY MaxVersionAssumption, SMT DEF Metadata, Version

(* A page with an erased or a garbled double word is not valid. *)
LEMMA RecOfTorn ==
  ASSUME NEW page, NEW d \in Dword, page[d] \in {Erased, Garbled}
  PROVE  Rec(page) = NoMeta
<1>1. \A m \in Metadata : ~Holds(page, m)
  BY CellAssumption DEF Holds
<1> QED
  BY <1>1 DEF Rec, is_valid

LEMMA RecOfErased == Rec(ErasedPage) = NoMeta
<1>1. 1 \in Dword
  BY DwordsAssumption, SMT DEF Dword
<1>2. ErasedPage[1] = Erased
  BY <1>1 DEF ErasedPage
<1> QED
  BY <1>1, <1>2, RecOfTorn

(* Whatever of a page an interrupted erase leaves behind, it is the old    *)
(* block or none.                                                          *)
LEMMA RecOfPartlyErased ==
  ASSUME NEW page, NEW q,
         \A d \in Dword : q[d] \in {page[d], Erased, Garbled}
  PROVE  Rec(q) \in {Rec(page), NoMeta}
<1>1. SUFFICES ASSUME Rec(q) # NoMeta PROVE Rec(q) = Rec(page)
  OBVIOUS
<1>2. Rec(q) \in Metadata /\ Holds(q, Rec(q))
  BY <1>1, RecType
<1>3. Holds(page, Rec(q))
  BY <1>2, CellAssumption DEF Holds
<1> QED
  BY <1>2, <1>3, RecOfHolds

(* Programming one double word completes that block or none. *)
LEMMA RecOfProgrammed ==
  ASSUME NEW page \in PageImage, NEW d \in Dword, NEW m \in Metadata
  PROVE  Rec([page EXCEPT ![d] = m]) \in {NoMeta, m}
<1> DEFINE q == [page EXCEPT ![d] = m]
<1>1. q[d] = m
  BY DEF PageImage
<1>2. SUFFICES ASSUME Rec(q) # NoMeta PROVE Rec(q) = m
  OBVIOUS
<1>3. Holds(q, Rec(q))
  BY <1>2, RecType
<1> QED
  BY <1>1, <1>3 DEF Holds

-----------------------------------------------------------------------------
(* internal_select on the pages themselves: the newest valid block wins,   *)
(* None exactly when neither page is valid; a page is rewritten only when  *)
(* the other one holds the chosen block and the two are not both valid and *)
(* of one version, so a repair never touches its own source.               *)
THEOREM SelectNewest ==
  ASSUME NEW flash \in Flash
  PROVE  LET s == Select(flash) IN
         /\ s.meta = Newer(Rec(flash[METADATA_1]), Rec(flash[METADATA_2]))
         /\ s.write_addr \in Page \cup {NoPage}
         /\ s.write_addr # NoPage =>
              /\ s.meta # NoMeta
              /\ Holds(flash[Other(s.write_addr)], s.meta)
         /\ s.meta # NoMeta => (s.write_addr = NoPage <=> Intact(flash))
<1> DEFINE p1 == flash[METADATA_1]
           p2 == flash[METADATA_2]
           m1 == read_metadata(p1)
           m2 == read_metadata(p2)
           s == Select(flash)
<1> USE DEF SelectResult, METADATA_1, METADATA_2, NoPage, Page, Other
<1>1. CASE is_valid(p1) /\ is_valid(p2)
  <2>1. /\ m1 \in Metadata /\ Holds(p1, m1) /\ Rec(p1) = m1 /\ m1 # NoMeta
        /\ m2 \in Metadata /\ Holds(p2, m2) /\ Rec(p2) = m2 /\ m2 # NoMeta
    BY <1>1, ReadValid
  <2>2. m1.version \in Nat /\ m2.version \in Nat
    BY <2>1, VersionNat
  <2> USE DEF Intact
  <2>3. CASE m1.version > m2.version
    <3>1. s = [meta |-> m1, write_addr |-> 2]
      BY <1>1, <2>2, <2>3 DEF Select, internal_select
    <3>2. Newer(Rec(p1), Rec(p2)) = m1
      BY <2>1, <2>2, <2>3 DEF Newer
    <3> QED BY <1>1, <2>1, <2>2, <2>3, <3>1, <3>2
  <2>4. CASE m1.version < m2.version
    <3>1. s = [meta |-> m2, write_addr |-> 1]
      BY <1>1, <2>2, <2>4 DEF Select, internal_select
    <3>2. Newer(Rec(p1), Rec(p2)) = m2
      BY <2>1, <2>2, <2>4 DEF Newer
    <3> QED BY <1>1, <2>1, <2>2, <2>4, <3>1, <3>2
  <2>5. CASE m1.version = m2.version
    <3>1. s = [meta |-> m1, write_addr |-> 0]
      BY <1>1, <2>2, <2>5 DEF Select, internal_select
    <3>2. Newer(Rec(p1), Rec(p2)) = m1
      BY <2>1, <2>2, <2>5 DEF Newer
    <3> QED BY <1>1, <2>5, <3>1, <3>2
  <2> QED BY <2>2, <2>3, <2>4, <2>5
<1>2. CASE is_valid(p1) /\ ~is_valid(p2)
  <2>1. s = [meta |-> m1, write_addr |-> 2]
    BY <1>2 DEF Select, internal_select
  <2>2. Holds(p1, m1) /\ Rec(p1) = m1 /\ m1 # NoMeta /\ Rec(p2) = NoMeta
    BY <1>2, ReadValid, RecType
  <2> QED BY <1>2, <2>1, <2>2 DEF Newer, Intact
<1>3. CASE ~is_valid(p1) /\ is_valid(p2)
  <2>1. s = [meta |-> m2, write_addr |-> 1]
    BY <1>3 DEF Select, internal_select
  <2>2. Holds(p2, m2) /\ Rec(p2) = m2 /\ m2 # NoMeta /\ Rec(p1) = NoMeta
    BY <1>3, ReadValid, RecType
  <2> QED BY <1>3, <2>1, <2>2 DEF Newer, Intact
<1>4. CASE ~is_valid(p1) /\ ~is_valid(p2)
  <2>1. s = [meta |-> NoMeta, write_addr |-> 0]
    BY <1>4 DEF Select, internal_select
  <2>2. Rec(p1) = NoMeta /\ Rec(p2) = NoMeta
    BY <1>4 DEF Rec
  <2> QED BY <2>1, <2>2 DEF Newer
<1> QED BY <1>1, <1>2, <1>3, <1>4

LEMMA CurrentIsNewer ==
  ASSUME NEW flash \in Flash
  PROVE  /\ Current(flash) = Newer(Rec(flash[METADATA_1]), Rec(flash[METADATA_2]))
         /\ Current(flash) \in Metadata \cup {NoMeta}
<1>1. Current(flash) = Newer(Rec(flash[METADATA_1]), Rec(flash[METADATA_2]))
  BY SelectNewest DEF Current
<1> QED
  BY <1>1, RecType DEF Newer

(* When the block a boot would use is the one on the other page, a write   *)
(* to page p changes it only to a newer block, and only in one step.       *)
LEMMA CurrentAfterWrite ==
  ASSUME NEW flash \in Flash, NEW p \in Page, NEW q \in PageImage,
         Current(flash) = Rec(flash[Other(p)])
  PROVE  LET flash2 == [flash EXCEPT ![p] = q] IN
         /\ flash2 \in Flash
         /\ flash2[Other(p)] = flash[Other(p)]
         /\ flash2[p] = q
         /\ Rec(q) \in {NoMeta, Rec(flash[p]), Current(flash)}
              => Current(flash2) = Current(flash)
         /\ (/\ Rec(q) # NoMeta
             /\ Current(flash) # NoMeta => Rec(q).version > Current(flash).version)
              => Current(flash2) = Rec(q)
<1> DEFINE flash2 == [flash EXCEPT ![p] = q]
<1>1. /\ flash2 \in Flash
      /\ flash2[p] = q
      /\ flash2[Other(p)] = flash[Other(p)]
      /\ p \in {METADATA_1, METADATA_2}
      /\ p = METADATA_1 => Other(p) = METADATA_2
      /\ p = METADATA_2 => Other(p) = METADATA_1
  BY DEF Flash, Page, Other, METADATA_1, METADATA_2
<1> DEFINE r == Rec(q)
           old == Rec(flash[p])
           cur == Current(flash)
<1>2. /\ p = METADATA_1 => cur = Newer(old, cur) /\ Current(flash2) = Newer(r, cur)
      /\ p = METADATA_2 => cur = Newer(cur, old) /\ Current(flash2) = Newer(cur, r)
  BY <1>1, CurrentIsNewer
<1>3. r \in Metadata \cup {NoMeta} /\ cur \in Metadata \cup {NoMeta}
  BY RecType, CurrentIsNewer
<1>4. /\ r # NoMeta => r.version \in Nat
      /\ cur # NoMeta => cur.version \in Nat
  BY <1>3, VersionNat
<1> HIDE DEF r, old, cur, flash2
<1>5. r \in {NoMeta, old, cur} => Current(flash2) = cur
  BY <1>1, <1>2, <1>4 DEF Newer
<1>6. r # NoMeta /\ (cur # NoMeta => r.version > cur.version) => Current(flash2) = r
  BY <1>1, <1>2, <1>4 DEF Newer
<1> QED
  BY <1>1, <1>5, <1>6 DEF r, old, cur, flash2

(* The other page decides exactly when erasing page p changes nothing. *)
LEMMA SpareIsOther ==
  ASSUME NEW flash \in Flash, NEW p \in Page
  PROVE  Current([flash EXCEPT ![p] = ErasedPage]) = Current(flash)
           <=> Current(flash) = Rec(flash[Other(p)])
<1> DEFINE flash2 == [flash EXCEPT ![p] = ErasedPage]
<1>1. /\ flash2 \in Flash
      /\ flash2[p] = ErasedPage
      /\ flash2[Other(p)] = flash[Other(p)]
      /\ p \in {METADATA_1, METADATA_2}
      /\ p = METADATA_1 => Other(p) = METADATA_2
      /\ p = METADATA_2 => Other(p) = METADATA_1
  BY DEF Flash, Page, Other, METADATA_1, METADATA_2, ErasedPage, PageImage, Cell
<1>2. Current(flash2) = Rec(flash[Other(p)])
  BY <1>1, RecOfErased, CurrentIsNewer DEF Newer
<1> QED
  BY <1>2
=============================================================================
