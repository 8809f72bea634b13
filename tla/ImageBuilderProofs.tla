------------------------- MODULE ImageBuilderProofs -------------------------
(***************************************************************************)
(* Theorems about image-builder, for any files, any page and slot sizes    *)
(* that satisfy the assertions of interface/src/lib.rs, and any number of  *)
(* edits between `write` and `read`.                                       *)
(***************************************************************************)
EXTENDS ImageBuilder, SequenceTheorems, TLAPS

-----------------------------------------------------------------------------
(* Files and buffers                                                       *)

IsSeq(s) == s \in Seq(Words(s))

LEMMA SeqFacts ==
  ASSUME NEW s, IsSeq(s)
  PROVE  /\ Len(s) \in Nat /\ DOMAIN s = 1 .. Len(s)
         /\ s = [k \in 1 .. Len(s) |-> s[k]]
<1>1. s \in [1 .. Len(s) -> Words(s)] /\ Len(s) \in Nat /\ DOMAIN s = 1 .. Len(s)
  BY LenProperties DEF IsSeq
<1> QED
  BY <1>1

LEMMA MakeSeq ==
  ASSUME NEW s, NEW n \in Nat, s = [k \in 1 .. n |-> s[k]]
  PROVE  IsSeq(s) /\ Len(s) = n
<1>1. DOMAIN s = 1 .. n
  OBVIOUS
<1>2. s \in [1 .. n -> Words(s)]
  BY <1>1 DEF Words
<1>3. s \in Seq(Words(s))
  BY <1>2, SeqDef
<1>4. Len(s) \in Nat /\ 1 .. Len(s) = 1 .. n
  BY <1>1, <1>3, LenProperties
<1>5. Len(s) = n
  BY <1>4, SMT
<1> QED
  BY <1>3, <1>5 DEF IsSeq

LEMMA SameSeq ==
  ASSUME NEW s, NEW t, IsSeq(s), IsSeq(t), Len(s) = Len(t),
         \A k \in 1 .. Len(s) : s[k] = t[k]
  PROVE  s = t
<1>1. s = [k \in 1 .. Len(s) |-> s[k]] /\ t = [k \in 1 .. Len(s) |-> t[k]]
  BY SeqFacts
<1>2. [k \in 1 .. Len(s) |-> s[k]] = [k \in 1 .. Len(s) |-> t[k]]
  OBVIOUS
<1> QED
  BY <1>1, <1>2

(* A range within a buffer *)
LEMMA BytesFacts ==
  ASSUME NEW s, IsSeq(s), NEW from \in Nat, NEW to \in Nat, from <= to, to <= Len(s)
  PROVE  /\ IsSeq(Bytes(s, from, to)) /\ Len(Bytes(s, from, to)) = to - from
         /\ \A k \in 1 .. to - from : Bytes(s, from, to)[k] = s[from + k]
<1> DEFINE b == SubSeq(s, from + 1, to)
<1>1. Len(s) \in Nat /\ DOMAIN s = 1 .. Len(s)
  BY SeqFacts
<1>2. \A k \in from + 1 .. to : s[k] \in Words(s)
  BY <1>1 DEF Words
<1>3. /\ b \in Seq(Words(s))
      /\ Len(b) = IF from + 1 <= to THEN to - (from + 1) + 1 ELSE 0
      /\ \A k \in 1 .. to - (from + 1) + 1 : b[k] = s[(from + 1) + k - 1]
  <2>1. from + 1 \in Int /\ to \in Int
    OBVIOUS
  <2> QED
    BY <1>2, <2>1, SubSeqProperties
<1>4. Len(b) = to - from /\ \A k \in 1 .. to - from : b[k] = s[from + k]
  BY <1>3
<1>5. IsSeq(b)
  <2>1. b \in [1 .. Len(b) -> Words(s)] /\ Len(b) \in Nat
    BY <1>3, LenProperties
  <2>2. b = [k \in 1 .. Len(b) |-> b[k]]
    BY <2>1
  <2> QED
    BY <2>1, <2>2, MakeSeq
<1> QED
  BY <1>4, <1>5 DEF Bytes

(* set_buf_from_to leaves the rest of the buffer alone and pads with zero. *)
LEMMA BufferSet ==
  ASSUME NEW b, IsSeq(b), NEW from \in Nat, NEW to \in Nat, NEW src, IsSeq(src),
         Fits(b, from, to, src)
  PROVE  LET r == set_buf_from_to(b, from, to, src) IN
           /\ IsSeq(r) /\ Len(r) = Len(b)
           /\ \A k \in 1 .. Len(b) :
                /\ InRegion(k, from, src) => r[k] = src[k - from]
                /\ k <= from \/ to < k => r[k] = b[k]
                /\ from < k /\ k <= to /\ ~InRegion(k, from, src) => r[k] = Zero
<1> DEFINE r == set_buf_from_to(b, from, to, src)
<1>1. Len(b) \in Nat /\ DOMAIN b = 1 .. Len(b) /\ Len(src) \in Nat
  BY SeqFacts
<1>2. r = [k \in 1 .. Len(b) |->
             IF from < k /\ k <= from + Len(src) THEN src[k - from]
             ELSE IF from + Len(src) < k /\ k <= to THEN Zero
             ELSE b[k]]
  BY <1>1 DEF set_buf_from_to
<1> HIDE DEF r
<1>3. r = [k \in 1 .. Len(b) |-> r[k]]
  BY <1>2
<1>4. IsSeq(r) /\ Len(r) = Len(b)
  BY <1>1, <1>3, MakeSeq
<1>5. ASSUME NEW k \in 1 .. Len(b)
      PROVE  /\ InRegion(k, from, src) => r[k] = src[k - from]
             /\ k <= from \/ to < k => r[k] = b[k]
             /\ from < k /\ k <= to /\ ~InRegion(k, from, src) => r[k] = Zero
  <2>1. r[k] = IF from < k /\ k <= from + Len(src) THEN src[k - from]
               ELSE IF from + Len(src) < k /\ k <= to THEN Zero
               ELSE b[k]
    BY <1>2
  <2>2. from + Len(src) <= to
    BY DEF Fits
  <2> QED
    BY <1>1, <2>1, <2>2 DEF InRegion
<1> QED
  BY <1>4, <1>5 DEF r

-----------------------------------------------------------------------------
(* The layout                                                              *)

LEMMA Addresses ==
  /\ METADATA_1_ADDR \in Nat /\ METADATA_2_ADDR \in Nat /\ SLOT_1_ADDR \in Nat
  /\ 1 < METADATA_1_ADDR /\ METADATA_1_ADDR + 1 < METADATA_2_ADDR
  /\ METADATA_2_ADDR + 1 < SLOT_1_ADDR
  /\ SLOT_SIZE \in Nat /\ FLASH_SIZE \in Nat /\ SLOT_1_ADDR < FLASH_SIZE
  BY LayoutAssumption, SMT DEF METADATA_1_ADDR, METADATA_2_ADDR, SLOT_1_ADDR, SLOT_ADDR,
     NUMBER_OF_IMAGES

LEMMA SlotAddresses ==
  /\ Index = {1, 2, 3}
  /\ SLOT_ADDR(1) = SLOT_1_ADDR /\ SLOT_ADDR(2) = SLOT_1_ADDR + SLOT_SIZE
  /\ SLOT_ADDR(3) = SLOT_1_ADDR + SLOT_SIZE + SLOT_SIZE
<1>1. Index = {1, 2, 3}
  BY SMT DEF Index, NUMBER_OF_IMAGES
<1> QED
  BY <1>1, Addresses, SMT DEF SLOT_ADDR

LEMMA Slots ==
  /\ \A i \in Index : /\ SLOT_ADDR(i) \in Nat /\ SLOT_1_ADDR <= SLOT_ADDR(i)
                      /\ SLOT_ADDR(i) + SLOT_SIZE <= FLASH_SIZE
  /\ \A i, j \in Index : i < j => SLOT_ADDR(i) + SLOT_SIZE <= SLOT_ADDR(j)
<1>1. SLOT_1_ADDR + SLOT_SIZE + SLOT_SIZE + SLOT_SIZE <= FLASH_SIZE
  BY SlotAddresses, LayoutAssumption DEF NUMBER_OF_IMAGES
<1> QED
  BY <1>1, SlotAddresses, Addresses, SMT

-----------------------------------------------------------------------------
(* What generate_buffer has put into the buffer                            *)

Args == Bootloaders \X Images \X Images \X Images

LEMMA Arguments ==
  ASSUME args \in Args
  PROVE  /\ args[1] \in Bootloaders /\ IsSeq(args[1]) /\ Len(args[1]) \in Nat
         /\ \A i \in Index :
              args[i + 1] \in Images /\ IsSeq(args[i + 1]) /\ Len(args[i + 1]) \in Nat
<1>1. args[1] \in Bootloaders /\ args[2] \in Images /\ args[3] \in Images /\ args[4] \in Images
  BY DEF Args
<1>2. \A i \in Index : args[i + 1] \in Images
  BY <1>1, SlotAddresses
<1> QED
  BY <1>1, <1>2, FilesAssumption, SeqFacts DEF IsSeq

(* The bootloader, the first images and, at the end, the two blocks        *)
Filled(n, block) ==
  \A k \in 1 .. FLASH_SIZE :
    /\ InRegion(k, 0, args[1]) => data[k] = args[1][k]
    /\ \A addr \in {METADATA_1_ADDR, METADATA_2_ADDR} :
         InRegion(k, addr, block) => data[k] = block[k - addr]
    /\ \A i \in Index :
         i < n /\ InRegion(k, SLOT_ADDR(i), args[i + 1])
           => data[k] = args[i + 1][k - SLOT_ADDR(i)]
    /\ (/\ ~InRegion(k, 0, args[1])
        /\ \A addr \in {METADATA_1_ADDR, METADATA_2_ADDR} : ~InRegion(k, addr, block)
        /\ \A i \in Index : i < n => ~InRegion(k, SLOT_ADDR(i), args[i + 1]))
       => data[k] = Zero

Generated(n, block) ==
  /\ args \in Args
  /\ IsSeq(data) /\ Len(data) = FLASH_SIZE
  /\ is_likely_valid_binary_buf(args[1], TRUE) /\ Len(args[1]) <= METADATA_1_ADDR
  /\ \A i \in Index : i < n => ImageAccepted(args[i + 1], TRUE)
  /\ Filled(n, block)

AllImages == [i \in Index |-> ImageMetadata(args[i + 1])]
FirstBlock == struct_to_bytes(Block(1, 0, AllImages))

(* Where `write` is, until it is done with success                         *)
WriteInv ==
  /\ pc = "write" => idx = 1 /\ metadata = <<>>
  /\ pc = "bootloader" => idx = 1 /\ metadata = <<>> /\ args \in Args
  /\ pc = "images" =>
       /\ idx \in 1 .. NUMBER_OF_IMAGES + 1
       /\ metadata = [i \in 1 .. idx - 1 |-> ImageMetadata(args[i + 1])]
       /\ Generated(idx, <<>>)
  /\ pc \in {"save", "reread"} \/ (pc = "done" /\ result = "Ok")
       => Generated(NUMBER_OF_IMAGES + 1, FirstBlock)
  /\ pc = "done" /\ result = "Ok" => file = data

LEMMA BlankFacts == IsSeq(Blank(FLASH_SIZE)) /\ Len(Blank(FLASH_SIZE)) = FLASH_SIZE
                      /\ \A k \in 1 .. FLASH_SIZE : Blank(FLASH_SIZE)[k] = Zero
<1>1. Blank(FLASH_SIZE) = [k \in 1 .. FLASH_SIZE |-> Blank(FLASH_SIZE)[k]]
  BY DEF Blank
<1>2. \A k \in 1 .. FLASH_SIZE : Blank(FLASH_SIZE)[k] = Zero
  BY DEF Blank
<1> QED
  BY <1>1, <1>2, Addresses, MakeSeq

LEMMA BlockFacts ==
  ASSUME NEW b
  PROVE  /\ IsSeq(struct_to_bytes(b)) /\ Len(struct_to_bytes(b)) = 1
         /\ struct_to_bytes(b)[1] = <<b>>
<1> DEFINE s == << <<b>> >>
<1>1. s \in Seq({<<b>>}) /\ Len(s) = 1 /\ s[1] = <<b>>
  OBVIOUS
<1>2. s = [k \in 1 .. 1 |-> s[k]]
  BY <1>1, LenProperties
<1>3. 1 \in Nat
  BY SMT
<1> HIDE DEF s
<1>4. IsSeq(s)
  BY <1>2, <1>3, MakeSeq
<1> QED
  BY <1>1, <1>4 DEF struct_to_bytes, s

LEMMA EmptyFacts == \A k, addr : ~InRegion(k, addr, <<>>) \/ k \notin Nat \/ addr \notin Nat
  BY SMT DEF InRegion

(* What is accepted was looked at by objdump. *)
LEMMA ObjdumpRuns ==
  ASSUME NEW bytes, NEW o \in BOOLEAN
  PROVE  /\ is_likely_valid_binary_buf(bytes, o) => is_likely_valid_binary_buf(bytes, TRUE)
         /\ ImageAccepted(bytes, o) => ImageAccepted(bytes, TRUE)
  BY DEF is_likely_valid_binary_buf, ImageAccepted

LEMMA BootloaderStep ==
  ASSUME WriteInv, generate_bootloader, pc' = "images"
  PROVE  Generated(1, <<>>)' /\ idx' = 1 /\ metadata' = <<>> /\ UNCHANGED args
<1>1. /\ pc = "bootloader" /\ UNCHANGED <<args, idx, metadata>>
      /\ is_likely_valid_binary_buf(args[1], TRUE)
      /\ Fits(Blank(FLASH_SIZE), 0, METADATA_1_ADDR, args[1])
      /\ data' = set_buf_from_to(Blank(FLASH_SIZE), 0, METADATA_1_ADDR, args[1])
  BY ObjdumpRuns DEF generate_bootloader, WriteFails
<1>2. args \in Args /\ idx = 1 /\ metadata = <<>>
  BY <1>1 DEF WriteInv
<1>3. /\ IsSeq(data') /\ Len(data') = FLASH_SIZE
      /\ \A k \in 1 .. FLASH_SIZE :
           /\ InRegion(k, 0, args[1]) => data'[k] = args[1][k - 0]
           /\ k <= 0 \/ METADATA_1_ADDR < k => data'[k] = Zero
           /\ 0 < k /\ k <= METADATA_1_ADDR /\ ~InRegion(k, 0, args[1]) => data'[k] = Zero
  <2> DEFINE blank == Blank(FLASH_SIZE)
             src == args[1]
             to == METADATA_1_ADDR
             r == set_buf_from_to(blank, 0, to, src)
  <2>1. IsSeq(src) /\ 0 \in Nat /\ to \in Nat
    BY <1>2, Arguments, Addresses
  <2>2. IsSeq(blank) /\ Len(blank) = FLASH_SIZE /\ \A k \in 1 .. FLASH_SIZE : blank[k] = Zero
    BY BlankFacts
  <2>3. Fits(blank, 0, to, src) /\ data' = r
    BY <1>1
  <2> HIDE DEF blank, src, to
  <2>4. /\ IsSeq(r) /\ Len(r) = Len(blank)
        /\ \A k \in 1 .. Len(blank) :
             /\ InRegion(k, 0, src) => r[k] = src[k - 0]
             /\ k <= 0 \/ to < k => r[k] = blank[k]
             /\ 0 < k /\ k <= to /\ ~InRegion(k, 0, src) => r[k] = Zero
    BY <2>1, <2>2, <2>3, BufferSet
  <2> HIDE DEF r
  <2>5. /\ IsSeq(data') /\ Len(data') = FLASH_SIZE
        /\ \A k \in 1 .. FLASH_SIZE :
             /\ InRegion(k, 0, src) => data'[k] = src[k - 0]
             /\ k <= 0 \/ to < k => data'[k] = Zero
             /\ 0 < k /\ k <= to /\ ~InRegion(k, 0, src) => data'[k] = Zero
    BY <2>2, <2>3, <2>4
  <2> QED
    BY <2>5 DEF src, to
<1>4. Len(args[1]) <= METADATA_1_ADDR
  BY <1>1, <1>2, Arguments DEF Fits
<1>5. \A k \in 1 .. FLASH_SIZE : \A addr \in {METADATA_1_ADDR, METADATA_2_ADDR} :
        ~InRegion(k, addr, <<>>)
  BY EmptyFacts, Addresses
<1>6. \A i \in Index : ~(i < 1)
  BY SMT DEF Index, NUMBER_OF_IMAGES
<1>7. \A k \in 1 .. FLASH_SIZE :
        /\ InRegion(k, 0, args[1]) => data'[k] = args[1][k]
        /\ ~InRegion(k, 0, args[1]) => data'[k] = Zero
  BY <1>3, Addresses
<1> QED
  BY <1>1, <1>2, <1>3, <1>4, <1>5, <1>6, <1>7 DEF Generated, Filled

(* One more image: its range lies in a slot that is still blank.           *)
LEMMA ImageStep ==
  ASSUME WriteInv, generate_image, pc' = "images"
  PROVE  /\ idx \in Index /\ idx' = idx + 1 /\ UNCHANGED args
         /\ Generated(idx, <<>>)'
         /\ metadata' = Append(metadata, ImageMetadata(args[idx + 1]))
<1> DEFINE image == args[idx + 1]
           addr == SLOT_ADDR(idx)
<1>1. /\ pc = "images" /\ idx \in Index /\ idx' = idx + 1 /\ UNCHANGED args
      /\ ImageAccepted(image, TRUE) /\ Fits(data, addr, addr + Len(image), image)
      /\ data' = set_buf_from_to(data, addr, addr + Len(image), image)
      /\ metadata' = Append(metadata, ImageMetadata(image))
  BY ObjdumpRuns DEF generate_image, WriteFails
<1>2. Generated(idx, <<>>)
  BY <1>1 DEF WriteInv
<1>3. args \in Args /\ IsSeq(data) /\ Len(data) = FLASH_SIZE
  BY <1>2 DEF Generated
<1>4. IsSeq(image) /\ Len(image) \in Nat /\ Len(image) <= SLOT_SIZE /\ addr \in Nat
  BY <1>1, <1>3, Arguments, Slots DEF ImageAccepted
<1>5. /\ IsSeq(data') /\ Len(data') = FLASH_SIZE
      /\ \A k \in 1 .. FLASH_SIZE :
           /\ InRegion(k, addr, image) => data'[k] = image[k - addr]
           /\ ~InRegion(k, addr, image) => data'[k] = data[k]
  <2> DEFINE to == addr + Len(image)
             r == set_buf_from_to(data, addr, to, image)
  <2>1. to \in Nat
    BY <1>4
  <2>2. \A k \in 1 .. FLASH_SIZE : ~InRegion(k, addr, image) => k <= addr \/ to < k
    BY <1>4, Addresses DEF InRegion
  <2>3. Fits(data, addr, to, image) /\ data' = r
    BY <1>1
  <2> HIDE DEF image, addr, to
  <2>4. /\ IsSeq(r) /\ Len(r) = Len(data)
        /\ \A k \in 1 .. Len(data) :
             /\ InRegion(k, addr, image) => r[k] = image[k - addr]
             /\ k <= addr \/ to < k => r[k] = data[k]
    BY <1>3, <1>4, <2>1, <2>3, BufferSet
  <2> HIDE DEF r
  <2> QED
    BY <1>3, <2>2, <2>3, <2>4
<1>6. \A i \in Index : i < idx + 1 <=> i < idx \/ i = idx
  BY <1>1, SlotAddresses, SMT
<1>7. \A i \in Index : i < idx + 1 => ImageAccepted(args[i + 1], TRUE)
  BY <1>1, <1>2, <1>6 DEF Generated
<1>8. ASSUME NEW k \in 1 .. FLASH_SIZE, InRegion(k, addr, image)
      PROVE  /\ ~InRegion(k, 0, args[1])
             /\ \A i \in Index : i < idx => ~InRegion(k, SLOT_ADDR(i), args[i + 1])
  <2>1. SLOT_1_ADDR < k /\ Len(args[1]) <= METADATA_1_ADDR /\ Len(args[1]) \in Nat
    BY <1>1, <1>2, <1>3, <1>4, <1>8, Arguments, Slots, Addresses DEF Generated, InRegion
  <2>2. ASSUME NEW i \in Index, i < idx
        PROVE  ~InRegion(k, SLOT_ADDR(i), args[i + 1])
    <3>1. SLOT_ADDR(i) + SLOT_SIZE <= addr /\ SLOT_ADDR(i) \in Nat
      BY <1>1, <2>2, Slots
    <3>2. Len(args[i + 1]) <= SLOT_SIZE /\ Len(args[i + 1]) \in Nat
      BY <1>2, <1>3, <2>2, Arguments DEF Generated, ImageAccepted
    <3>3. addr < k /\ k \in Nat
      BY <1>8, Addresses DEF InRegion
    <3> QED
      BY <1>4, <3>1, <3>2, <3>3, Addresses DEF InRegion
  <2>3. ~InRegion(k, 0, args[1])
    BY <2>1, Addresses DEF InRegion
  <2> QED
    BY <2>2, <2>3
<1>9. \A k \in 1 .. FLASH_SIZE : \A a \in {METADATA_1_ADDR, METADATA_2_ADDR} :
        ~InRegion(k, a, <<>>)
  BY EmptyFacts, Addresses
<1>10. ASSUME NEW k \in 1 .. FLASH_SIZE
       PROVE  /\ InRegion(k, 0, args[1]) => data'[k] = args[1][k]
              /\ \A i \in Index :
                   i < idx + 1 /\ InRegion(k, SLOT_ADDR(i), args[i + 1])
                     => data'[k] = args[i + 1][k - SLOT_ADDR(i)]
              /\ (/\ ~InRegion(k, 0, args[1])
                  /\ \A i \in Index : i < idx + 1 => ~InRegion(k, SLOT_ADDR(i), args[i + 1]))
                   => data'[k] = Zero
  <2>1. /\ InRegion(k, 0, args[1]) => data[k] = args[1][k]
        /\ \A i \in Index :
             i < idx /\ InRegion(k, SLOT_ADDR(i), args[i + 1])
               => data[k] = args[i + 1][k - SLOT_ADDR(i)]
        /\ (/\ ~InRegion(k, 0, args[1])
            /\ \A i \in Index : i < idx => ~InRegion(k, SLOT_ADDR(i), args[i + 1]))
             => data[k] = Zero
    BY <1>2, <1>9 DEF Generated, Filled
  <2>2. /\ InRegion(k, addr, image) => data'[k] = image[k - addr]
        /\ ~InRegion(k, addr, image) => data'[k] = data[k]
    BY <1>5
  <2>3. CASE InRegion(k, addr, image)
    BY <1>1, <1>6, <1>8, <2>2, <2>3
  <2>4. CASE ~InRegion(k, addr, image)
    BY <1>1, <1>6, <2>1, <2>2, <2>4
  <2> QED
    BY <2>3, <2>4
<1>11. Filled(idx, <<>>)'
  BY <1>1, <1>9, <1>10 DEF Filled
<1> QED
  BY <1>1, <1>2, <1>3, <1>5, <1>7, <1>11 DEF Generated

LEMMA Extended ==
  ASSUME NEW S, NEW n \in Nat \ {0}, NEW s \in [1 .. n - 1 -> S], NEW u \in [1 .. n -> S],
         \A i \in 1 .. n - 1 : s[i] = u[i]
  PROVE  Append(s, u[n]) = u
<1>1. n - 1 \in Nat /\ n \in 1 .. n /\ u[n] \in S
  OBVIOUS
<1>2. s \in Seq(S) /\ u \in Seq(S)
  BY <1>1, SeqDef
<1>3. DOMAIN s = 1 .. n - 1 /\ DOMAIN u = 1 .. n
  OBVIOUS
<1>4. Len(s) = n - 1 /\ Len(u) = n
  BY <1>1, <1>2, <1>3, LenProperties, SMT
<1> DEFINE e == u[n]
           t == Append(s, e)
<1> HIDE DEF e
<1>5. e \in S
  BY <1>1 DEF e
<1>6. /\ t \in Seq(S) /\ Len(t) = Len(s) + 1
      /\ \A i \in 1 .. Len(s) : t[i] = s[i]
      /\ t[Len(s) + 1] = e
  BY <1>2, <1>5, AppendProperties
<1> HIDE DEF t
<1>7. \A i \in 1 .. n : t[i] = u[i]
  BY <1>4, <1>6 DEF e
<1>8. t = u
  BY <1>1, <1>2, <1>4, <1>6, <1>7, SeqEqual
<1> QED
  BY <1>8 DEF t, e

(* image_metadata grows with the images.                                   *)
LEMMA MetadataGrows ==
  ASSUME args \in Args, NEW n \in Index,
         metadata = [i \in 1 .. n - 1 |-> ImageMetadata(args[i + 1])]
  PROVE  Append(metadata, ImageMetadata(args[n + 1])) = [i \in 1 .. n |-> ImageMetadata(args[i + 1])]
<1> DEFINE S == {ImageMetadata(f) : f \in Images}
           u == [i \in 1 .. n |-> ImageMetadata(args[i + 1])]
<1>1. n \in Nat \ {0} /\ 1 .. n \subseteq Index /\ 1 .. n - 1 \subseteq 1 .. n /\ n \in 1 .. n
  BY SlotAddresses, SMT
<1>2. \A i \in Index : ImageMetadata(args[i + 1]) \in S
  BY Arguments
<1>3. /\ metadata \in [1 .. n - 1 -> S] /\ u \in [1 .. n -> S]
      /\ \A i \in 1 .. n - 1 : metadata[i] = u[i]
      /\ u[n] = ImageMetadata(args[n + 1])
  BY <1>1, <1>2
<1> HIDE DEF S, u
<1>4. Append(metadata, u[n]) = u
  BY <1>1, <1>3, Extended
<1> QED
  BY <1>3, <1>4 DEF u

(* The two blocks go between the bootloader and the slots.                 *)
LEMMA MetadataStep ==
  ASSUME WriteInv, generate_metadata
  PROVE  Generated(NUMBER_OF_IMAGES + 1, FirstBlock)' /\ pc' = "save"
<1> DEFINE bytes == struct_to_bytes(Block(1, 0, metadata))
           first == set_buf_from_to(data, METADATA_1_ADDR, METADATA_2_ADDR, bytes)
<1>1. /\ pc = "images" /\ idx = NUMBER_OF_IMAGES + 1 /\ pc' = "save" /\ UNCHANGED args
      /\ data' = set_buf_from_to(first, METADATA_2_ADDR, SLOT_1_ADDR, bytes)
  BY DEF generate_metadata
<1>2. /\ Generated(NUMBER_OF_IMAGES + 1, <<>>)
      /\ metadata = [i \in 1 .. idx - 1 |-> ImageMetadata(args[i + 1])]
  BY <1>1 DEF WriteInv
<1>3. metadata = AllImages
  <2>1. 1 .. idx - 1 = Index
    BY <1>1, SMT DEF NUMBER_OF_IMAGES, Index
  <2> QED
    BY <1>2, <2>1 DEF AllImages
<1>4. bytes = FirstBlock /\ FirstBlock' = FirstBlock
  BY <1>1, <1>3 DEF FirstBlock, AllImages
<1>5. IsSeq(bytes) /\ Len(bytes) = 1
  BY BlockFacts
<1>6. args \in Args /\ IsSeq(data) /\ Len(data) = FLASH_SIZE /\ Len(args[1]) <= METADATA_1_ADDR
  BY <1>2 DEF Generated
<1> HIDE DEF bytes, first
<1>7. /\ IsSeq(first) /\ Len(first) = FLASH_SIZE
      /\ \A k \in 1 .. FLASH_SIZE :
           /\ InRegion(k, METADATA_1_ADDR, bytes) => first[k] = bytes[k - METADATA_1_ADDR]
           /\ k <= METADATA_1_ADDR \/ METADATA_2_ADDR < k => first[k] = data[k]
           /\ METADATA_1_ADDR < k /\ k <= METADATA_2_ADDR /\ ~InRegion(k, METADATA_1_ADDR, bytes)
                => first[k] = Zero
  <2>1. Fits(data, METADATA_1_ADDR, METADATA_2_ADDR, bytes)
    BY <1>5, <1>6, Addresses, SMT DEF Fits
  <2> QED
    BY <1>5, <1>6, <2>1, Addresses, BufferSet DEF first
<1>8. /\ IsSeq(data') /\ Len(data') = FLASH_SIZE
      /\ \A k \in 1 .. FLASH_SIZE :
           /\ InRegion(k, METADATA_2_ADDR, bytes) => data'[k] = bytes[k - METADATA_2_ADDR]
           /\ k <= METADATA_2_ADDR \/ SLOT_1_ADDR < k => data'[k] = first[k]
           /\ METADATA_2_ADDR < k /\ k <= SLOT_1_ADDR /\ ~InRegion(k, METADATA_2_ADDR, bytes)
                => data'[k] = Zero
  <2>1. Fits(first, METADATA_2_ADDR, SLOT_1_ADDR, bytes)
    BY <1>5, <1>7, Addresses, SMT DEF Fits
  <2> QED
    BY <1>1, <1>5, <1>7, <2>1, Addresses, BufferSet
<1>9. ASSUME NEW k \in 1 .. FLASH_SIZE
      PROVE  /\ InRegion(k, 0, args[1]) => k <= METADATA_1_ADDR
             /\ \A i \in Index : InRegion(k, SLOT_ADDR(i), args[i + 1]) => SLOT_1_ADDR < k
             /\ InRegion(k, METADATA_1_ADDR, bytes)
                  => METADATA_1_ADDR < k /\ k <= METADATA_2_ADDR
             /\ InRegion(k, METADATA_2_ADDR, bytes)
                  => METADATA_2_ADDR < k /\ k <= SLOT_1_ADDR
  <2>1. k \in Nat
    BY Addresses
  <2>2. InRegion(k, 0, args[1]) => k <= METADATA_1_ADDR
    BY <1>6, <2>1, Arguments, Addresses DEF InRegion
  <2>3. \A i \in Index : InRegion(k, SLOT_ADDR(i), args[i + 1]) => SLOT_1_ADDR < k
    BY <2>1, Slots, Addresses DEF InRegion
  <2> QED
    BY <1>5, <2>1, <2>2, <2>3, Addresses DEF InRegion
<1>10. \A k \in 1 .. FLASH_SIZE : \A a \in {METADATA_1_ADDR, METADATA_2_ADDR} :
        ~InRegion(k, a, <<>>)
  BY EmptyFacts, Addresses
<1>11. ASSUME NEW k \in 1 .. FLASH_SIZE
       PROVE  /\ InRegion(k, 0, args[1]) => data'[k] = args[1][k]
              /\ \A addr \in {METADATA_1_ADDR, METADATA_2_ADDR} :
                   InRegion(k, addr, bytes) => data'[k] = bytes[k - addr]
              /\ \A i \in Index :
                   i < NUMBER_OF_IMAGES + 1 /\ InRegion(k, SLOT_ADDR(i), args[i + 1])
                     => data'[k] = args[i + 1][k - SLOT_ADDR(i)]
              /\ (/\ ~InRegion(k, 0, args[1])
                  /\ \A addr \in {METADATA_1_ADDR, METADATA_2_ADDR} : ~InRegion(k, addr, bytes)
                  /\ \A i \in Index :
                       i < NUMBER_OF_IMAGES + 1 => ~InRegion(k, SLOT_ADDR(i), args[i + 1]))
                   => data'[k] = Zero
  <2> DEFINE outside == k <= METADATA_1_ADDR \/ SLOT_1_ADDR < k
  <2>0. k \in Nat
    BY Addresses
  <2>1. outside => data'[k] = data[k]
    BY <1>7, <1>8, <2>0, Addresses
  <2>2. /\ InRegion(k, 0, args[1]) => data[k] = args[1][k]
        /\ \A i \in Index :
             i < NUMBER_OF_IMAGES + 1 /\ InRegion(k, SLOT_ADDR(i), args[i + 1])
               => data[k] = args[i + 1][k - SLOT_ADDR(i)]
        /\ (/\ ~InRegion(k, 0, args[1])
            /\ \A i \in Index :
                 i < NUMBER_OF_IMAGES + 1 => ~InRegion(k, SLOT_ADDR(i), args[i + 1]))
             => data[k] = Zero
    BY <1>2, <1>10 DEF Generated, Filled
  <2>3. CASE outside
    <3>1. \A addr \in {METADATA_1_ADDR, METADATA_2_ADDR} : ~InRegion(k, addr, bytes)
      BY <1>9, <2>0, <2>3, Addresses
    <3> QED
      BY <2>1, <2>2, <2>3, <3>1
  <2>4. CASE ~outside
    <3>1. ~InRegion(k, 0, args[1]) /\ \A i \in Index : ~InRegion(k, SLOT_ADDR(i), args[i + 1])
      BY <1>9, <2>4
    <3>2. InRegion(k, METADATA_1_ADDR, bytes) => data'[k] = bytes[k - METADATA_1_ADDR]
      BY <1>7, <1>8, <1>9
    <3>3. InRegion(k, METADATA_2_ADDR, bytes) => data'[k] = bytes[k - METADATA_2_ADDR]
      BY <1>8
    <3>4. ~InRegion(k, METADATA_1_ADDR, bytes) /\ ~InRegion(k, METADATA_2_ADDR, bytes)
            => data'[k] = Zero
      BY <1>7, <1>8, <2>0, <2>4, Addresses
    <3> QED
      BY <3>1, <3>2, <3>3, <3>4
  <2> QED
    BY <2>3, <2>4
<1>12. Filled(NUMBER_OF_IMAGES + 1, FirstBlock)'
  BY <1>1, <1>4, <1>11 DEF Filled
<1> QED
  BY <1>1, <1>2, <1>8, <1>12 DEF Generated

LEMMA WriteStep ==
  ASSUME WriteInv, [Next]_vars
  PROVE  WriteInv'
<1>1. CASE write
  <2>1. \/ pc' = "done" /\ result' = "Err"
        \/ pc' = "bootloader" /\ args' \in Args /\ UNCHANGED <<idx, metadata>>
    BY <1>1 DEF write, WriteFails, Args
  <2>2. idx = 1 /\ metadata = <<>>
    BY <1>1 DEF write, WriteInv
  <2> QED
    BY <2>1, <2>2 DEF WriteInv
<1>2. CASE generate_bootloader
  <2>1. CASE pc' = "images"
    <3>1. metadata' = [i \in 1 .. 1 - 1 |-> ImageMetadata(args'[i + 1])]
      BY <1>2, <2>1, BootloaderStep, SMT
    <3>2. 1 \in 1 .. NUMBER_OF_IMAGES + 1
      BY SMT DEF NUMBER_OF_IMAGES
    <3> QED
      BY <1>2, <2>1, <3>1, <3>2, BootloaderStep DEF WriteInv
  <2>2. CASE pc' = "done" /\ result' = "Err"
    BY <2>2 DEF WriteInv
  <2> QED
    BY <1>2, <2>1, <2>2 DEF generate_bootloader, WriteFails
<1>3. CASE generate_image
  <2>1. CASE pc' = "images"
    <3>1. /\ idx \in Index /\ idx' = idx + 1 /\ UNCHANGED args /\ Generated(idx, <<>>)'
          /\ metadata' = Append(metadata, ImageMetadata(args[idx + 1]))
      BY <1>3, <2>1, ImageStep
    <3>2. args \in Args /\ metadata = [i \in 1 .. idx - 1 |-> ImageMetadata(args[i + 1])]
      BY <1>3 DEF generate_image, WriteInv, Generated
    <3>3. metadata' = [i \in 1 .. idx |-> ImageMetadata(args[i + 1])]
      BY <3>1, <3>2, MetadataGrows
    <3>4. idx' - 1 = idx /\ idx' \in 1 .. NUMBER_OF_IMAGES + 1
      BY <3>1, SMT DEF Index, NUMBER_OF_IMAGES
    <3>5. metadata' = [i \in 1 .. idx' - 1 |-> ImageMetadata(args'[i + 1])]
      BY <3>1, <3>3, <3>4
    <3> QED
      BY <2>1, <3>1, <3>4, <3>5 DEF WriteInv
  <2>2. CASE pc' = "done" /\ result' = "Err"
    BY <2>2 DEF WriteInv
  <2> QED
    BY <1>3, <2>1, <2>2 DEF generate_image, WriteFails
<1>4. CASE generate_metadata
  BY <1>4, MetadataStep DEF WriteInv
<1>5. CASE write_file \/ reread
  <2>1. /\ UNCHANGED <<args, data>> /\ Generated(NUMBER_OF_IMAGES + 1, FirstBlock)
        /\ \/ pc' = "reread"
           \/ pc' = "done" /\ result' = "Err"
           \/ pc' = "done" /\ file' = data
    BY <1>5 DEF write_file, reread, WriteFails, WriteInv
  <2>2. Generated(NUMBER_OF_IMAGES + 1, FirstBlock)'
    BY <2>1 DEF Generated, Filled, FirstBlock, AllImages
  <2> QED
    BY <2>1, <2>2 DEF WriteInv
<1>6. CASE Edit \/ read \/ read_image \/ read_return
  <2>1. pc' \in {"edited", "verified", "check", "panicked"}
    BY <1>6 DEF Edit, read, read_image, read_return
  <2> QED
    BY <2>1 DEF WriteInv
<1>7. CASE UNCHANGED vars
  BY <1>7 DEF vars, WriteInv, Generated, Filled, FirstBlock, AllImages
<1> QED
  BY <1>1, <1>2, <1>3, <1>4, <1>5, <1>6, <1>7 DEF Next

LEMMA WriteInvariant == Spec => []WriteInv
<1>1. Init => WriteInv
  BY DEF Init, WriteInv
<1> QED
  BY <1>1, WriteStep, PTL DEF Spec

-----------------------------------------------------------------------------
(* What write saves (generate_buffer, set_buf_from_to): every accepted     *)
(* file complete and in its place, both metadata blocks describing the     *)
(* images, and zeros everywhere else.                                      *)
THEOREM LayoutGenerated == Spec => []GeneratedLayout
<1>1. WriteInv => GeneratedLayout
  <2> SUFFICES ASSUME WriteInv, pc \in {"save", "reread"} PROVE GeneratedLayout
    BY DEF GeneratedLayout
  <2> DEFINE regions == {<<0, args[1]>>, <<METADATA_1_ADDR, FirstBlock>>,
                         <<METADATA_2_ADDR, FirstBlock>>}
                          \cup {<<SLOT_ADDR(i), args[i + 1]>> : i \in Index}
  <2>1. Generated(NUMBER_OF_IMAGES + 1, FirstBlock)
    BY DEF WriteInv
  <2>2. \A i \in Index : i < NUMBER_OF_IMAGES + 1
    BY SMT DEF Index, NUMBER_OF_IMAGES
  <2>3. ASSUME NEW k \in 1 .. FLASH_SIZE, NEW r \in regions, InRegion(k, r[1], r[2])
        PROVE  data[k] = r[2][k - r[1]]
    <3>1. CASE r = <<0, args[1]>>
      <4>1. r[1] = 0 /\ r[2] = args[1] /\ k - 0 = k
        BY <3>1, Addresses
      <4> QED
        BY <2>1, <2>3, <4>1 DEF Generated, Filled
    <3>2. CASE r \in {<<METADATA_1_ADDR, FirstBlock>>, <<METADATA_2_ADDR, FirstBlock>>}
      <4>1. r[1] \in {METADATA_1_ADDR, METADATA_2_ADDR} /\ r[2] = FirstBlock
        BY <3>2
      <4> QED
        BY <2>1, <2>3, <4>1 DEF Generated, Filled
    <3>3. CASE \E i \in Index : r = <<SLOT_ADDR(i), args[i + 1]>>
      <4>1. PICK i \in Index : r[1] = SLOT_ADDR(i) /\ r[2] = args[i + 1]
        BY <3>3
      <4> QED
        BY <2>1, <2>2, <2>3, <4>1 DEF Generated, Filled
    <3> QED
      BY <2>3, <3>1, <3>2, <3>3
  <2>4. ASSUME NEW k \in 1 .. FLASH_SIZE, \A r \in regions : ~InRegion(k, r[1], r[2])
        PROVE  data[k] = Zero
    <3>1. ~InRegion(k, 0, args[1])
      <4>1. <<0, args[1]>> \in regions
        OBVIOUS
      <4> QED
        BY <2>4, <4>1
    <3>2. \A addr \in {METADATA_1_ADDR, METADATA_2_ADDR} : ~InRegion(k, addr, FirstBlock)
      <4>1. \A addr \in {METADATA_1_ADDR, METADATA_2_ADDR} : <<addr, FirstBlock>> \in regions
        OBVIOUS
      <4> QED
        BY <2>4, <4>1
    <3>3. \A i \in Index : ~InRegion(k, SLOT_ADDR(i), args[i + 1])
      <4>1. \A i \in Index : <<SLOT_ADDR(i), args[i + 1]>> \in regions
        OBVIOUS
      <4> QED
        BY <2>4, <4>1
    <3> QED
      BY <2>1, <3>1, <3>2, <3>3 DEF Generated, Filled
  <2> HIDE DEF regions
  <2>5. \A k \in 1 .. FLASH_SIZE :
          /\ \A r \in regions : InRegion(k, r[1], r[2]) => data[k] = r[2][k - r[1]]
          /\ (\A r \in regions : ~InRegion(k, r[1], r[2])) => data[k] = Zero
    BY <2>3, <2>4
  <2> QED
    BY <2>5 DEF regions, GeneratedLayout, FirstBlock, AllImages
<1> QED
  BY <1>1, WriteInvariant, PTL

-----------------------------------------------------------------------------
(* Reading it back                                                         *)

LEMMA BlockReads ==
  ASSUME Generated(NUMBER_OF_IMAGES + 1, FirstBlock),
         NEW addr \in {METADATA_1_ADDR, METADATA_2_ADDR}
  PROVE  bytes_to_struct(Bytes(data, addr, addr + 1)) = Block(1, 0, AllImages)
<1> DEFINE bytes == Bytes(data, addr, addr + 1)
           b == Block(1, 0, AllImages)
<1>1. args \in Args /\ IsSeq(data) /\ Len(data) = FLASH_SIZE
  BY DEF Generated
<1>2. addr \in Nat /\ addr + 1 \in 1 .. FLASH_SIZE /\ addr + 1 - addr = 1
  BY Addresses, SMT
<1>3. bytes[1] = data[addr + 1]
  <2> DEFINE to == addr + 1
  <2>1. to \in Nat /\ addr <= to /\ to <= Len(data) /\ 1 \in 1 .. to - addr
    BY <1>1, <1>2, SMT
  <2> HIDE DEF to
  <2>2. \A k \in 1 .. to - addr : Bytes(data, addr, to)[k] = data[addr + k]
    BY <1>1, <1>2, <2>1, BytesFacts
  <2> QED
    BY <2>1, <2>2 DEF to
<1>4. FirstBlock[1] = <<b>> /\ Len(FirstBlock) = 1
  BY BlockFacts DEF FirstBlock
<1>5. InRegion(addr + 1, addr, FirstBlock)
  BY <1>2, <1>4, SMT DEF InRegion
<1>6. data[addr + 1] = FirstBlock[1]
  BY <1>2, <1>5 DEF Generated, Filled
<1>7. AllImages \in [Index -> {ImageMetadata(image) : image \in Images}]
  BY <1>1, Arguments DEF AllImages
<1>8. <<b>> \notin {Zero, Erased}
  BY <1>7, BlocksAssumption
<1> HIDE DEF bytes, b
<1>9. bytes[1] = <<b>> /\ bytes[1] # Zero /\ bytes[1] # Erased /\ bytes[1][1] = b
  BY <1>3, <1>4, <1>6, <1>8
<1>10. bytes_to_struct(bytes) = b
  BY <1>9 DEF bytes_to_struct
<1> QED
  BY <1>10 DEF bytes, b

LEMMA ImageReads ==
  ASSUME Generated(NUMBER_OF_IMAGES + 1, FirstBlock), NEW i \in Index
  PROVE  /\ Bytes(data, SLOT_ADDR(i), SLOT_ADDR(i) + Len(args[i + 1])) = args[i + 1]
         /\ SLOT_ADDR(i) + Len(args[i + 1]) <= FLASH_SIZE
<1> DEFINE image == args[i + 1]
           addr == SLOT_ADDR(i)
<1>1. args \in Args /\ IsSeq(data) /\ Len(data) = FLASH_SIZE
  BY DEF Generated
<1>2. i < NUMBER_OF_IMAGES + 1
  BY SMT DEF Index, NUMBER_OF_IMAGES
<1>3. IsSeq(image) /\ Len(image) \in Nat /\ Len(image) <= SLOT_SIZE
  BY <1>1, <1>2, Arguments DEF Generated, ImageAccepted
<1>4. addr \in Nat /\ addr + Len(image) <= FLASH_SIZE
  BY <1>3, Slots, Addresses
<1> HIDE DEF addr
<1>5. /\ IsSeq(Bytes(data, addr, addr + Len(image)))
      /\ Len(Bytes(data, addr, addr + Len(image))) = Len(image)
      /\ \A k \in 1 .. Len(image) : Bytes(data, addr, addr + Len(image))[k] = data[addr + k]
  <2> DEFINE to == addr + Len(image)
  <2>1. to \in Nat /\ addr <= to /\ to <= Len(data) /\ to - addr = Len(image)
    BY <1>1, <1>3, <1>4
  <2> HIDE DEF to
  <2>2. /\ IsSeq(Bytes(data, addr, to)) /\ Len(Bytes(data, addr, to)) = to - addr
        /\ \A k \in 1 .. to - addr : Bytes(data, addr, to)[k] = data[addr + k]
    BY <1>1, <1>4, <2>1, BytesFacts
  <2> QED
    BY <2>1, <2>2 DEF to
<1>6. ASSUME NEW k \in 1 .. Len(image) PROVE data[addr + k] = image[k]
  <2> DEFINE n == addr + k
  <2>1. n \in 1 .. FLASH_SIZE /\ InRegion(n, addr, image) /\ n - addr = k
    BY <1>3, <1>4, Addresses DEF InRegion
  <2> HIDE DEF n
  <2>2. data[n] = image[n - SLOT_ADDR(i)]
    BY <1>2, <2>1 DEF Generated, Filled, addr
  <2> QED
    BY <2>1, <2>2 DEF n, addr
<1>7. Bytes(data, addr, addr + Len(image)) = image
  BY <1>3, <1>5, <1>6, SameSeq
<1> QED
  BY <1>4, <1>7 DEF addr

LEMMA BootloaderReads ==
  ASSUME Generated(NUMBER_OF_IMAGES + 1, FirstBlock)
  PROVE  Bytes(data, 0, Len(args[1])) = args[1]
<1>1. args \in Args /\ IsSeq(data) /\ Len(data) = FLASH_SIZE /\ Len(args[1]) <= METADATA_1_ADDR
  BY DEF Generated
<1>2. IsSeq(args[1]) /\ Len(args[1]) \in Nat /\ Len(args[1]) <= FLASH_SIZE
  BY <1>1, Arguments, Addresses
<1>3. /\ IsSeq(Bytes(data, 0, Len(args[1]))) /\ Len(Bytes(data, 0, Len(args[1]))) = Len(args[1])
      /\ \A k \in 1 .. Len(args[1]) : Bytes(data, 0, Len(args[1]))[k] = data[k]
  <2> DEFINE to == Len(args[1])
  <2>1. 0 \in Nat /\ to - 0 = to /\ 0 <= to /\ \A k \in 1 .. to : 0 + k = k
    BY <1>2
  <2>2. to \in Nat /\ to <= Len(data)
    BY <1>1, <1>2
  <2> HIDE DEF to
  <2>3. /\ IsSeq(Bytes(data, 0, to)) /\ Len(Bytes(data, 0, to)) = to - 0
        /\ \A k \in 1 .. to - 0 : Bytes(data, 0, to)[k] = data[0 + k]
    BY <1>1, <2>1, <2>2, BytesFacts
  <2> QED
    BY <2>1, <2>3 DEF to
<1>4. \A k \in 1 .. Len(args[1]) : data[k] = args[1][k]
  <2>1. \A k \in 1 .. Len(args[1]) : k \in 1 .. FLASH_SIZE /\ InRegion(k, 0, args[1])
    BY <1>2, Addresses DEF InRegion
  <2> QED
    BY <2>1 DEF Generated, Filled
<1> QED
  BY <1>2, <1>3, <1>4, SameSeq

LEMMA BlockImages ==
  /\ Block(1, 0, AllImages).is_valid = TRUE
  /\ \A i \in Index : /\ Block(1, 0, AllImages).images[i].length = Len(args[i + 1])
                      /\ Block(1, 0, AllImages).images[i].crc = args[i + 1]
  BY DEF Block, AllImages, ImageMetadata, calc_crc

(* Whatever the medium does: "successfully wrote and verified" (write.rs)  *)
(* means that the file starts with the bootloader and that all three       *)
(* images boot from it.                                                    *)
THEOREM WrittenBoots == Spec => []WrittenFileBoots
<1>1. WriteInv => WrittenFileBoots
  <2> SUFFICES ASSUME WriteInv, pc = "done", result = "Ok"
               PROVE  Bootable /\ Bytes(file, 0, Len(args[1])) = args[1]
    BY DEF WrittenFileBoots
  <2>1. Generated(NUMBER_OF_IMAGES + 1, FirstBlock) /\ file = data
    BY DEF WriteInv
  <2>2. \A addr \in {METADATA_1_ADDR, METADATA_2_ADDR} : BlockAt(addr) = Block(1, 0, AllImages)
    BY <2>1, BlockReads DEF BlockAt
  <2>3. ASSUME NEW i \in Index
        PROVE  ImageAt(Block(1, 0, AllImages), i) = args[i + 1]
    BY <2>1, ImageReads, BlockImages DEF ImageAt
  <2>4. ASSUME NEW i \in Index PROVE is_likely_valid_os_image_buf(args[i + 1]) = "Ok"
    <3>1. i < NUMBER_OF_IMAGES + 1
      BY SMT DEF Index, NUMBER_OF_IMAGES
    <3> QED
      BY <2>1, <3>1 DEF Generated, ImageAccepted
  <2>5. Bootable
    <3> DEFINE b == Block(1, 0, AllImages)
    <3>1. /\ b.is_valid = TRUE
          /\ \A i \in Index : /\ b.images[i].length = Len(args[i + 1])
                              /\ b.images[i].crc = args[i + 1]
      BY BlockImages
    <3> HIDE DEF b
    <3>2. \A addr \in {METADATA_1_ADDR, METADATA_2_ADDR} : BlockAt(addr) = b
      BY <2>2 DEF b
    <3>3. \A i \in Index : ImageAt(b, i) = args[i + 1]
      BY <2>3 DEF b
    <3> QED
      BY <2>4, <3>1, <3>2, <3>3 DEF Bootable, calc_crc
  <2> QED
    BY <2>1, <2>5, BootloaderReads
<1> QED
  BY <1>1, WriteInvariant, PTL

-----------------------------------------------------------------------------
(* `read` of the file as it was generated                                  *)

(* Before the file exists, and what it is compared with from then on       *)
OriginInv ==
  /\ pc \in {"write", "bootloader", "images", "save"} => file = NoFile
  /\ \/ pc = "edited"
     \/ pc \notin {"write", "bootloader", "images", "save"} /\ file # NoFile
     => Generated(NUMBER_OF_IMAGES + 1, FirstBlock)

LEMMA OriginStep ==
  ASSUME WriteInv, OriginInv, [Next]_vars
  PROVE  OriginInv'
<1>1. CASE write \/ generate_bootloader \/ generate_image \/ generate_metadata
  <2>1. UNCHANGED file /\ file = NoFile /\ pc' # "edited"
    BY <1>1 DEF write, generate_bootloader, generate_image, generate_metadata, WriteFails,
       OriginInv
  <2> QED
    BY <2>1 DEF OriginInv
<1>2. CASE UNCHANGED <<args, data>> /\ Generated(NUMBER_OF_IMAGES + 1, FirstBlock)
             /\ pc' \notin {"write", "bootloader", "images", "save"}
  BY <1>2 DEF OriginInv, Generated, Filled, FirstBlock, AllImages
<1>3. CASE write_file \/ reread
  <2>1. /\ UNCHANGED <<args, data>> /\ Generated(NUMBER_OF_IMAGES + 1, FirstBlock)
        /\ pc' \in {"reread", "done"}
    BY <1>3 DEF write_file, reread, WriteFails, WriteInv
  <2> QED
    BY <1>2, <2>1
<1>4. CASE Edit
  <2>1. UNCHANGED <<args, data>> /\ pc' = "edited" /\ pc \in {"done", "edited"} /\ result = "Ok"
    BY <1>4 DEF Edit
  <2>2. CASE pc = "done"
    BY <1>2, <2>1, <2>2 DEF WriteInv
  <2>3. CASE pc = "edited"
    BY <1>2, <2>1, <2>3 DEF OriginInv
  <2> QED
    BY <2>1, <2>2, <2>3
<1>5. CASE read \/ read_image \/ read_return \/ UNCHANGED vars
  <2>1. UNCHANGED <<args, data, file>> /\ (pc' = pc \/ pc' \in {"check", "verified", "panicked"})
        /\ (pc' # pc => pc \in {"done", "edited", "check"})
    BY <1>5 DEF read, read_image, read_return, vars
  <2>2. Generated(NUMBER_OF_IMAGES + 1, FirstBlock)
          => Generated(NUMBER_OF_IMAGES + 1, FirstBlock)'
    BY <2>1 DEF Generated, Filled, FirstBlock, AllImages
  <2>3. CASE pc' = pc
    BY <2>1, <2>2, <2>3 DEF OriginInv
  <2>4. CASE pc' # pc
    BY <2>1, <2>2, <2>4 DEF OriginInv
  <2> QED
    BY <2>3, <2>4
<1> QED
  BY <1>1, <1>3, <1>4, <1>5 DEF Next

LEMMA Turns ==
  ASSUME NEW n \in Nat, n < 2 * NUMBER_OF_IMAGES
  PROVE  Turn(n).image \in Index /\ Turn(n).block \in 1 .. 2
  BY SMT DEF Turn, Index, NUMBER_OF_IMAGES

LEMMA BlockPages == 1 * MAX_PAGE_SIZE = METADATA_1_ADDR /\ 2 * MAX_PAGE_SIZE = METADATA_2_ADDR
  BY LayoutAssumption, SMT DEF METADATA_1_ADDR, METADATA_2_ADDR

(* `read` on its way through a file that nobody has touched                *)
ReadInv ==
  pc \in {"check", "verified", "panicked"} /\ file # NoFile /\ file = data =>
    /\ pc # "panicked"
    /\ pc = "verified" => result = "Ok" \/ hindered
    /\ pc = "check" => /\ ~errors \/ hindered
                       /\ idx \in Nat
                       /\ metadata = [k \in 1 .. 2 |-> Block(1, 0, AllImages)]

LEMMA ReadStep ==
  ASSUME WriteInv, OriginInv, ReadInv, [Next]_vars
  PROVE  ReadInv'
<1>1. CASE pc' \notin {"check", "verified", "panicked"}
  BY <1>1 DEF ReadInv
<1>2. CASE read
  <2>0. CASE pc' = "verified" /\ hindered'
    BY <2>0 DEF ReadInv
  <2> SUFFICES ASSUME file' # NoFile, file' = data', ~(pc' = "verified" /\ hindered')
               PROVE  /\ pc' = "check" /\ ~errors' /\ idx' \in Nat
                      /\ metadata' = [k \in 1 .. 2 |-> Block(1, 0, AllImages)]'
    BY <2>0 DEF ReadInv
  <2>1. UNCHANGED <<args, data, file>> /\ pc \in {"done", "edited"}
    BY <1>2 DEF read
  <2>2. Generated(NUMBER_OF_IMAGES + 1, FirstBlock)
    BY <2>1 DEF OriginInv
  <2>3. file # NoFile /\ Len(file) = FLASH_SIZE
    BY <2>1, <2>2 DEF Generated
  <2>4. /\ pc' = "check" /\ idx' = 0
        /\ metadata' = [k \in 1 .. 2 |->
             bytes_to_struct(Bytes(file, k * MAX_PAGE_SIZE, k * MAX_PAGE_SIZE + 1))]
        /\ errors' = \E k \in 1 .. 2 : ~metadata'[k].is_valid
    BY <1>2, <2>3 DEF read
  <2>5. \A k \in 1 .. 2 :
          bytes_to_struct(Bytes(file, k * MAX_PAGE_SIZE, k * MAX_PAGE_SIZE + 1))
            = Block(1, 0, AllImages)
    <3>1. \A k \in 1 .. 2 : k * MAX_PAGE_SIZE \in {METADATA_1_ADDR, METADATA_2_ADDR}
      <4>1. \A k \in 1 .. 2 : k = 1 \/ k = 2
        BY SMT
      <4> QED
        BY <4>1, BlockPages
    <3> QED
      BY <2>1, <2>2, <3>1, BlockReads
  <2>6. metadata' = [k \in 1 .. 2 |-> Block(1, 0, AllImages)]
    BY <2>4, <2>5
  <2>7. ~errors'
    BY <2>4, <2>6, BlockImages
  <2>8. AllImages' = AllImages
    BY <2>1 DEF AllImages
  <2> QED
    BY <2>4, <2>6, <2>7, <2>8, SMT
<1>3. CASE read_image
  <2> SUFFICES ASSUME file' # NoFile, file' = data'
               PROVE  /\ pc' = "check" /\ (~errors' \/ hindered') /\ idx' \in Nat
                      /\ metadata' = [k \in 1 .. 2 |-> Block(1, 0, AllImages)]'
    BY DEF ReadInv
  <2>1. /\ UNCHANGED <<args, data, file, metadata>> /\ pc = "check"
        /\ idx < 2 * NUMBER_OF_IMAGES
    BY <1>3 DEF read_image
  <2>2. Generated(NUMBER_OF_IMAGES + 1, FirstBlock)
    BY <2>1 DEF OriginInv
  <2>3. /\ ~errors \/ hindered
        /\ idx \in Nat /\ AllImages' = AllImages
        /\ metadata = [k \in 1 .. 2 |-> Block(1, 0, AllImages)]
    BY <2>1 DEF ReadInv, AllImages
  <2> DEFINE i == Turn(idx).image
             image == metadata[Turn(idx).block].images[i]
             bytes == Bytes(file, SLOT_ADDR(i), SLOT_ADDR(i) + image.length)
  <2>4. i \in Index /\ image.length = Len(args[i + 1]) /\ image.crc = args[i + 1]
    BY <2>1, <2>3, Turns, BlockImages
  <2>5. bytes = args[i + 1] /\ SLOT_ADDR(i) + image.length <= Len(file)
    BY <2>1, <2>2, <2>4, ImageReads DEF Generated
  <2>6. is_likely_valid_os_image_buf(bytes) = "Ok" /\ is_likely_valid_binary_buf(bytes, TRUE)
    <3>1. i < NUMBER_OF_IMAGES + 1
      BY <2>4, SMT DEF Index, NUMBER_OF_IMAGES
    <3> HIDE DEF i
    <3> QED
      BY <2>2, <2>4, <2>5, <3>1 DEF Generated, ImageAccepted
  <2>7. ~ImageErrors(bytes, image, TRUE)
    BY <2>4, <2>5, <2>6 DEF ImageErrors, calc_crc
  <2>8. /\ SLOT_ADDR(i) \in Nat /\ SLOT_ADDR(i) + image.length \in Nat
        /\ Len(file) = FLASH_SIZE /\ FLASH_SIZE \in Nat
    BY <2>1, <2>2, <2>4, Slots, Arguments, Addresses DEF Generated
  <2>9. ~(SLOT_ADDR(i) + image.length > Len(file))
    BY <2>5, <2>8
  <2>10. \/ SLOT_ADDR(i) + image.length > Len(file)
         \/ /\ \E o \in BOOLEAN : /\ errors' = (errors \/ ImageErrors(bytes, image, o))
                                 /\ hindered' = (hindered \/ ~o)
            /\ idx' = idx + 1 /\ UNCHANGED pc
         \/ is_likely_valid_os_image_buf(bytes) = "panic"
    BY <1>3 DEF read_image
  <2> HIDE DEF i, image, bytes
  <2>11. /\ \E o \in BOOLEAN : /\ errors' = (errors \/ ImageErrors(bytes, image, o))
                              /\ hindered' = (hindered \/ ~o)
         /\ idx' = idx + 1 /\ UNCHANGED pc
    BY <2>6, <2>9, <2>10
  <2>12. metadata' = [k \in 1 .. 2 |-> Block(1, 0, AllImages)]'
    BY <2>1, <2>3 DEF Block
  <2>13. idx' \in Nat
    BY <2>3, <2>11
  <2> QED
    BY <2>1, <2>3, <2>7, <2>11, <2>12, <2>13
<1>4. CASE read_return
  <2>1. UNCHANGED <<file, data, hindered>> /\ pc = "check" /\ pc' = "verified"
        /\ result' = IF errors \/ metadata[1] # metadata[2] THEN "Err" ELSE "Ok"
    BY <1>4 DEF read_return
  <2>2. CASE file # NoFile /\ file = data
    <3>1. /\ ~errors \/ hindered
          /\ metadata = [k \in 1 .. 2 |-> Block(1, 0, AllImages)]
      BY <2>1, <2>2 DEF ReadInv
    <3>2. 1 \in 1 .. 2 /\ 2 \in 1 .. 2
      BY SMT
    <3> QED
      BY <2>1, <3>1, <3>2 DEF ReadInv
  <2> QED
    BY <2>1, <2>2 DEF ReadInv
<1>5. CASE UNCHANGED vars
  BY <1>5 DEF vars, ReadInv, AllImages
<1>6. CASE write \/ generate_bootloader \/ generate_image \/ generate_metadata
             \/ write_file \/ reread \/ Edit
  <2>1. pc' \notin {"check", "verified", "panicked"}
    BY <1>6 DEF write, generate_bootloader, generate_image, generate_metadata, write_file,
       reread, Edit, WriteFails
  <2> QED
    BY <1>1, <2>1
<1> QED
  BY <1>2, <1>3, <1>4, <1>5, <1>6 DEF Next

(* `read` (read.rs) never stumbles over a file that is still what          *)
(* generate_buffer put together, and finds nothing wrong with it: it only  *)
(* rejects it when the file cannot be read or objdump not be run.          *)
THEOREM WrittenAccepted == Spec => []WrittenFileAccepted
<1>1. Init => WriteInv /\ OriginInv /\ ReadInv
  BY DEF Init, WriteInv, OriginInv, ReadInv
<1>2. WriteInv /\ OriginInv /\ ReadInv /\ [Next]_vars => WriteInv' /\ OriginInv' /\ ReadInv'
  BY WriteStep, OriginStep, ReadStep
<1>3. ReadInv => WrittenFileAccepted
  BY DEF ReadInv, WrittenFileAccepted
<1> QED
  BY <1>1, <1>2, <1>3, PTL DEF Spec

-----------------------------------------------------------------------------
(* Files as they may be when `read` meets them                             *)

BlockType ==
  [version : Nat, preferred_image : Nat,
   images : [Index -> [length : Nat, crc : Images \cup {<<>>, BadCrc}]], is_valid : BOOLEAN]
MetaWords == {Zero, Erased} \cup {<<block>> : block \in BlockType}

FileOK(f) ==
  /\ IsSeq(f) /\ Len(f) <= FLASH_SIZE
  /\ \A addr \in {METADATA_1_ADDR, METADATA_2_ADDR} :
       addr + 1 <= Len(f) => f[addr + 1] \in MetaWords

LEMMA MetaAddresses ==
  \A addr \in {METADATA_1_ADDR, METADATA_2_ADDR} :
    /\ addr \in Nat /\ addr + 1 \in Nat /\ addr + 1 <= FLASH_SIZE - 1
    /\ addr + 1 - addr = 1 /\ addr < addr + 1
  BY Addresses, SMT

LEMMA Decoded ==
  ASSUME NEW bytes, bytes[1] \in MetaWords
  PROVE  bytes_to_struct(bytes) \in BlockType
<1>1. FLASH_SIZE \in Nat /\ 0 \in Nat
  BY Addresses
<1>2. ConstBlock(0, 0, 0, <<>>) \in BlockType
  BY <1>1 DEF ConstBlock, BlockType
<1>3. ConstBlock(FLASH_SIZE, FLASH_SIZE, FLASH_SIZE, BadCrc) \in BlockType
  BY <1>1 DEF ConstBlock, BlockType
<1>4. bytes[1] \notin {Zero, Erased} => bytes[1][1] \in BlockType
  BY DEF MetaWords
<1> QED
  BY <1>2, <1>3, <1>4 DEF bytes_to_struct

LEMMA Updated ==
  ASSUME NEW b \in BlockType, NEW c \in UpdatedBlocks(b)
  PROVE  c \in BlockType
<1>1. NUMBER_OF_IMAGES \in Nat /\ 2 \in Nat /\ 0 \in Nat /\ FLASH_SIZE \in Nat
  BY Addresses, SMT DEF NUMBER_OF_IMAGES
<1>2. [b EXCEPT !.version = 2] \in BlockType
  BY <1>1 DEF BlockType
<1>3. [b EXCEPT !.preferred_image = NUMBER_OF_IMAGES] \in BlockType
  BY <1>1 DEF BlockType
<1>4. [b EXCEPT !.is_valid = FALSE] \in BlockType
  BY DEF BlockType
<1>5. ASSUME NEW i \in Index, NEW n \in {0, FLASH_SIZE}
      PROVE  [b EXCEPT !.images[i].length = n] \in BlockType
  <2>1. n \in Nat
    BY <1>1
  <2>2. [b.images[i] EXCEPT !.length = n] \in [length : Nat, crc : Images \cup {<<>>, BadCrc}]
    BY <2>1 DEF BlockType
  <2>3. [b.images EXCEPT ![i] = [b.images[i] EXCEPT !.length = n]]
          \in [Index -> [length : Nat, crc : Images \cup {<<>>, BadCrc}]]
    BY <2>2 DEF BlockType
  <2>4. [b EXCEPT !.images = [b.images EXCEPT ![i] = [b.images[i] EXCEPT !.length = n]]]
          \in BlockType
    BY <2>3 DEF BlockType
  <2> QED
    BY <2>4
<1>6. \/ c = [b EXCEPT !.version = 2]
      \/ c = [b EXCEPT !.preferred_image = NUMBER_OF_IMAGES]
      \/ c = [b EXCEPT !.is_valid = FALSE]
      \/ \E i \in Index, n \in {0, FLASH_SIZE} : c = [b EXCEPT !.images[i].length = n]
  BY DEF UpdatedBlocks
<1>7. CASE \E i \in Index, n \in {0, FLASH_SIZE} : c = [b EXCEPT !.images[i].length = n]
  <2>1. PICK i \in Index, n \in {0, FLASH_SIZE} : c = [b EXCEPT !.images[i].length = n]
    BY <1>7
  <2> QED
    BY <1>5, <2>1
<1> QED
  BY <1>2, <1>3, <1>4, <1>6, <1>7

LEMMA DamagedOK ==
  ASSUME NEW f, FileOK(f), NEW g \in Damaged(f)
  PROVE  FileOK(g) /\ Len(g) = Len(f)
<1>1. Len(f) \in Nat /\ DOMAIN f = 1 .. Len(f) /\ f = [k \in 1 .. Len(f) |-> f[k]]
  BY SeqFacts DEF FileOK
<1>2. PICK k \in 1 .. Len(f), word \in {Zero, Erased} : g = [f EXCEPT ![k] = word]
  BY <1>1 DEF Damaged
<1>3. g = [j \in 1 .. Len(f) |-> g[j]] /\ \A j \in 1 .. Len(f) : g[j] \in {f[j], Zero, Erased}
  BY <1>1, <1>2
<1>4. IsSeq(g) /\ Len(g) = Len(f)
  BY <1>1, <1>3, MakeSeq
<1>5. ASSUME NEW addr \in {METADATA_1_ADDR, METADATA_2_ADDR}, addr + 1 <= Len(g)
      PROVE  g[addr + 1] \in MetaWords
  <2>1. addr + 1 \in 1 .. Len(f) /\ f[addr + 1] \in MetaWords
    BY <1>1, <1>4, <1>5, MetaAddresses DEF FileOK
  <2> QED
    BY <1>3, <2>1 DEF MetaWords
<1> QED
  BY <1>4, <1>5 DEF FileOK

LEMMA CutOK ==
  ASSUME NEW f, FileOK(f), NEW n \in Nat, n <= Len(f)
  PROVE  FileOK(SubSeq(f, 1, n)) /\ Len(SubSeq(f, 1, n)) = n
<1> DEFINE g == SubSeq(f, 1, n)
<1>1. Len(f) \in Nat /\ Len(f) <= FLASH_SIZE /\ IsSeq(f)
  BY SeqFacts DEF FileOK
<1>2. g = Bytes(f, 0, n)
  <2>1. 0 + 1 = 1
    BY SMT
  <2> QED
    BY <2>1 DEF Bytes
<1>3. IsSeq(g) /\ Len(g) = n /\ \A k \in 1 .. n : g[k] = f[k]
  <2>1. 0 \in Nat /\ 0 <= n /\ n - 0 = n /\ \A k \in 1 .. n : 0 + k = k
    BY SMT
  <2> HIDE DEF g
  <2>2. IsSeq(Bytes(f, 0, n)) /\ Len(Bytes(f, 0, n)) = n - 0
          /\ \A k \in 1 .. n - 0 : Bytes(f, 0, n)[k] = f[0 + k]
    BY <1>1, <2>1, BytesFacts
  <2> QED
    BY <1>2, <2>1, <2>2
<1> HIDE DEF g
<1>4. ASSUME NEW addr \in {METADATA_1_ADDR, METADATA_2_ADDR}, addr + 1 <= Len(g)
      PROVE  g[addr + 1] \in MetaWords
  <2>1. addr + 1 \in 1 .. n /\ addr + 1 <= Len(f)
    BY <1>1, <1>3, <1>4, MetaAddresses
  <2> QED
    BY <1>3, <2>1 DEF FileOK
<1>5. Len(g) <= FLASH_SIZE
  BY <1>1, <1>3, Addresses
<1> QED
  BY <1>3, <1>4, <1>5 DEF FileOK, g

LEMMA PatchedOK ==
  ASSUME NEW f, FileOK(f), FLASH_SIZE - 1 <= Len(f),
         NEW addr \in {METADATA_1_ADDR, METADATA_2_ADDR}, NEW b \in BlockType
  PROVE  LET g == set_buf_from_to(f, addr, addr + 1, struct_to_bytes(b)) IN
           FileOK(g) /\ Len(g) = Len(f)
<1> DEFINE g == set_buf_from_to(f, addr, addr + 1, struct_to_bytes(b))
           src == struct_to_bytes(b)
<1>1. Len(f) \in Nat /\ Len(f) <= FLASH_SIZE /\ IsSeq(f)
  BY SeqFacts DEF FileOK
<1>2. IsSeq(src) /\ Len(src) = 1 /\ src[1] = <<b>>
  BY BlockFacts
<1>3. addr \in Nat /\ addr + 1 \in Nat /\ addr + 1 <= Len(f)
  BY <1>1, MetaAddresses, Addresses
<1> HIDE DEF src
<1>4. Fits(f, addr, addr + 1, src)
  BY <1>1, <1>2, <1>3 DEF Fits
<1>5. /\ IsSeq(g) /\ Len(g) = Len(f)
      /\ \A k \in 1 .. Len(f) : /\ InRegion(k, addr, src) => g[k] = src[k - addr]
                                /\ k <= addr \/ addr + 1 < k => g[k] = f[k]
  <2> DEFINE to == addr + 1
  <2>1. to \in Nat /\ Fits(f, addr, to, src)
    BY <1>3, <1>4
  <2> HIDE DEF to
  <2>2. LET r == set_buf_from_to(f, addr, to, src) IN
           /\ IsSeq(r) /\ Len(r) = Len(f)
           /\ \A k \in 1 .. Len(f) : /\ InRegion(k, addr, src) => r[k] = src[k - addr]
                                     /\ k <= addr \/ to < k => r[k] = f[k]
    BY <1>1, <1>2, <1>3, <2>1, BufferSet
  <2> QED
    BY <2>2 DEF to, src
<1> HIDE DEF g
<1>6. g[addr + 1] = <<b>>
  <2> DEFINE n == addr + 1
  <2>1. n \in 1 .. Len(f) /\ InRegion(n, addr, src) /\ n - addr = 1
    BY <1>2, <1>3 DEF InRegion
  <2> HIDE DEF n
  <2>2. g[n] = src[n - addr]
    BY <1>5, <2>1
  <2> QED
    BY <1>2, <2>1, <2>2 DEF n
<1>7. ASSUME NEW other \in {METADATA_1_ADDR, METADATA_2_ADDR}, other # addr
      PROVE  g[other + 1] \in MetaWords
  <2> DEFINE n == other + 1
  <2>1. n \in 1 .. Len(f) /\ (n <= addr \/ addr + 1 < n)
    BY <1>1, <1>7, MetaAddresses, Addresses
  <2>2. f[n] \in MetaWords
    BY <2>1 DEF FileOK
  <2> HIDE DEF n
  <2>3. g[n] = f[n]
    BY <1>5, <2>1
  <2> QED
    BY <2>2, <2>3 DEF n
<1>8. <<b>> \in MetaWords
  BY DEF MetaWords
<1> QED
  BY <1>1, <1>5, <1>6, <1>7, <1>8 DEF FileOK, g

LEMMA GeneratedOK ==
  ASSUME Generated(NUMBER_OF_IMAGES + 1, FirstBlock)
  PROVE  FileOK(data) /\ Len(data) = FLASH_SIZE
<1>1. args \in Args /\ IsSeq(data) /\ Len(data) = FLASH_SIZE /\ FLASH_SIZE \in Nat
  BY Addresses DEF Generated
<1>2. Block(1, 0, AllImages) \in BlockType
  <2>1. AllImages \in [Index -> [length : Nat, crc : Images \cup {<<>>, BadCrc}]]
    BY <1>1, Arguments DEF AllImages, ImageMetadata, calc_crc
  <2>2. 1 \in Nat /\ 0 \in Nat
    BY SMT
  <2> QED
    BY <2>1, <2>2 DEF Block, BlockType
<1>3. ASSUME NEW addr \in {METADATA_1_ADDR, METADATA_2_ADDR}
      PROVE  data[addr + 1] \in MetaWords
  <2>1. FirstBlock[1] = <<Block(1, 0, AllImages)>> /\ Len(FirstBlock) = 1
    BY BlockFacts DEF FirstBlock
  <2> DEFINE k == addr + 1
  <2>2. k \in 1 .. FLASH_SIZE /\ InRegion(k, addr, FirstBlock) /\ k - addr = 1
    BY <1>1, <2>1, MetaAddresses, SMT DEF InRegion
  <2> HIDE DEF k
  <2>3. data[k] = FirstBlock[k - addr]
    BY <2>2 DEF Generated, Filled
  <2> QED
    BY <1>2, <2>1, <2>2, <2>3 DEF MetaWords, k
<1>4. Len(data) <= FLASH_SIZE
  BY <1>1
<1> QED
  BY <1>1, <1>3, <1>4 DEF FileOK

(* What the file is like, and that only a whole one is edited              *)
FileInv ==
  /\ file = NoFile \/ FileOK(file)
  /\ pc = "edited" => FileOK(file) /\ FLASH_SIZE - 1 <= Len(file)

LEMMA EditedOK ==
  ASSUME WriteInv, FileInv, Edit
  PROVE  FileOK(file)' /\ (FLASH_SIZE - 1 <= Len(file))'
<1>1. pc \in {"done", "edited"} /\ result = "Ok"
  BY DEF Edit
<1>2. FileOK(file) /\ FLASH_SIZE - 1 <= Len(file) /\ Len(file) \in Nat /\ FLASH_SIZE \in Nat
  <2>1. CASE pc = "done"
    <3>1. FileOK(file) /\ Len(file) = FLASH_SIZE
      BY <1>1, <2>1, GeneratedOK DEF WriteInv
    <3>2. FLASH_SIZE - 1 <= FLASH_SIZE /\ FLASH_SIZE \in Nat
      BY Addresses, SMT
    <3> QED
      BY <3>1, <3>2
  <2>2. CASE pc = "edited"
    BY <2>2, Addresses, SeqFacts DEF FileInv, FileOK
  <2> QED
    BY <1>1, <2>1, <2>2
<1>3. CASE file' \in Damaged(file)
  <2>1. FileOK(file') /\ Len(file') = Len(file)
    BY <1>2, <1>3, DamagedOK
  <2> QED
    BY <1>2, <2>1 DEF FileOK
<1>4. CASE file' = SubSeq(file, 1, FLASH_SIZE - 1)
  <2>1. FLASH_SIZE - 1 \in Nat
    BY Addresses, SMT
  <2>2. FileOK(file') /\ Len(file') = FLASH_SIZE - 1
    BY <1>2, <1>4, <2>1, CutOK
  <2> QED
    BY <2>1, <2>2 DEF FileOK
<1>5. ASSUME NEW addr \in {METADATA_1_ADDR, METADATA_2_ADDR},
             NEW block \in UpdatedBlocks(bytes_to_struct(Bytes(file, addr, addr + 1))),
             file' = set_buf_from_to(file, addr, addr + 1, struct_to_bytes(block))
      PROVE  FileOK(file)' /\ (FLASH_SIZE - 1 <= Len(file))'
  <2>1. Bytes(file, addr, addr + 1)[1] \in MetaWords
    <3> DEFINE to == addr + 1
    <3>1. to \in Nat /\ addr \in Nat /\ addr <= to /\ to <= Len(file) /\ 1 \in 1 .. to - addr
      BY <1>2, MetaAddresses, SMT
    <3>2. file[to] \in MetaWords
      BY <1>2, <3>1 DEF FileOK
    <3> HIDE DEF to
    <3>3. Bytes(file, addr, to)[1] = file[addr + 1]
      BY <1>2, <3>1, BytesFacts DEF FileOK
    <3> QED
      BY <3>2, <3>3 DEF to
  <2>2. block \in BlockType
    BY <2>1, Decoded, Updated
  <2>3. FileOK(file') /\ Len(file') = Len(file)
    BY <1>2, <1>5, <2>2, PatchedOK
  <2> QED
    BY <1>2, <2>3 DEF FileOK
<1> QED
  BY <1>3, <1>4, <1>5 DEF Edit

LEMMA FileStep ==
  ASSUME WriteInv, FileInv, [Next]_vars
  PROVE  FileInv'
<1>1. CASE UNCHANGED file /\ (pc' = pc \/ pc' # "edited")
  BY <1>1 DEF FileInv, FileOK
<1>2. CASE write \/ generate_bootloader \/ generate_image \/ generate_metadata
             \/ read \/ read_image \/ read_return \/ UNCHANGED vars
  <2>1. UNCHANGED file /\ (pc' = pc \/ pc' # "edited")
    BY <1>2 DEF write, generate_bootloader, generate_image, generate_metadata, WriteFails, read,
       read_image, read_return, vars
  <2> QED
    BY <1>1, <2>1
<1>3. CASE write_file
  <2>1. FileOK(data) /\ Len(data) = FLASH_SIZE
    BY <1>3, GeneratedOK DEF write_file, WriteInv
  <2>2. \/ file' = data
        \/ file' \in Damaged(data)
        \/ file' \in {NoFile, <<>>}
        \/ file' = SubSeq(data, 1, METADATA_2_ADDR)
    BY <1>3 DEF write_file
  <2>3. pc' # "edited"
    BY <1>3 DEF write_file, WriteFails
  <2>4. FileOK(<<>>)
    <3>1. <<>> \in Seq(Words(<<>>)) /\ Len(<<>>) = 0
      OBVIOUS
    <3>2. Len(<<>>) <= FLASH_SIZE
      BY <3>1, Addresses
    <3>3. \A addr \in {METADATA_1_ADDR, METADATA_2_ADDR} : ~(addr + 1 <= Len(<<>>))
      BY <3>1, MetaAddresses
    <3> QED
      BY <3>1, <3>2, <3>3 DEF FileOK, IsSeq
  <2>5. FileOK(SubSeq(data, 1, METADATA_2_ADDR))
    BY <2>1, CutOK, Addresses
  <2>6. file' = NoFile \/ FileOK(file')
    BY <2>1, <2>2, <2>4, <2>5, DamagedOK
  <2> QED
    BY <2>3, <2>6 DEF FileInv, FileOK
<1>4. CASE reread
  <2>1. file' \in {file, NoFile} /\ pc' # "edited"
    BY <1>4 DEF reread, WriteFails
  <2> QED
    BY <2>1 DEF FileInv, FileOK
<1>5. CASE Edit
  BY <1>5, EditedOK DEF FileInv
<1> QED
  BY <1>2, <1>3, <1>4, <1>5 DEF Next

-----------------------------------------------------------------------------
(* What `read` has established                                             *)

Checked(n) == metadata[Turn(n).block].images[Turn(n).image]
CheckedBytes(n) ==
  Bytes(file, SLOT_ADDR(Turn(n).image), SLOT_ADDR(Turn(n).image) + Checked(n).length)
Passed(n) ==
  /\ SLOT_ADDR(Turn(n).image) + Checked(n).length <= Len(file)
  /\ is_likely_valid_os_image_buf(CheckedBytes(n)) = "Ok"
  /\ calc_crc(CheckedBytes(n)) = Checked(n).crc

CheckInv ==
  /\ pc = "check" =>
       /\ FileOK(file) /\ Len(file) = FLASH_SIZE /\ idx \in Nat
       /\ metadata = [k \in 1 .. 2 |-> BlockAt(k * MAX_PAGE_SIZE)]
       /\ ~errors => /\ \A k \in 1 .. 2 : metadata[k].is_valid
                     /\ \A n \in Nat : n < idx => Passed(n)
  /\ AcceptedFileBoots

(* Six turns compare every image with both blocks.                         *)
LEMMA TurnsCover ==
  ASSUME NEW i \in Index, NEW k \in 1 .. 2
  PROVE  \E n \in Nat : n < 2 * NUMBER_OF_IMAGES /\ Turn(n).image = i /\ Turn(n).block = k
<1> DEFINE n == 2 * (i - 1) + (k - 1)
<1>1. i \in 1 .. 3 /\ (k = 1 \/ k = 2)
  BY SMT DEF Index, NUMBER_OF_IMAGES
<1>2. n \in Nat /\ n < 2 * NUMBER_OF_IMAGES /\ n \div 2 + 1 = i /\ (n % 2) + 1 = k
  BY <1>1, SMT DEF NUMBER_OF_IMAGES
<1> QED
  BY <1>2 DEF Turn

LEMMA AllPassed ==
  ASSUME CheckInv, pc = "check", idx = 2 * NUMBER_OF_IMAGES, ~errors, metadata[1] = metadata[2]
  PROVE  Bootable
<1>1. /\ FileOK(file) /\ Len(file) = FLASH_SIZE /\ IsSeq(file)
      /\ metadata = [k \in 1 .. 2 |-> BlockAt(k * MAX_PAGE_SIZE)]
      /\ \A k \in 1 .. 2 : metadata[k].is_valid
      /\ \A n \in Nat : n < 2 * NUMBER_OF_IMAGES => Passed(n)
  BY DEF CheckInv, FileOK
<1>2. ASSUME NEW addr \in {METADATA_1_ADDR, METADATA_2_ADDR}
      PROVE  \E k \in 1 .. 2 : BlockAt(addr) = metadata[k]
  <2>1. 1 \in 1 .. 2 /\ 2 \in 1 .. 2
    BY SMT
  <2>2. metadata[1] = BlockAt(METADATA_1_ADDR) /\ metadata[2] = BlockAt(METADATA_2_ADDR)
    BY <1>1, <2>1, BlockPages
  <2> QED
    BY <2>1, <2>2
<1>3. ASSUME NEW addr \in {METADATA_1_ADDR, METADATA_2_ADDR}
      PROVE  BlockAt(addr) = metadata[1]
  <2>1. \A k \in 1 .. 2 : k = 1 \/ k = 2
    BY SMT
  <2> QED
    BY <1>2, <2>1
<1>4. BlockAt(METADATA_1_ADDR) \in BlockType
  <2> DEFINE to == METADATA_1_ADDR + 1
  <2>1. /\ to \in Nat /\ METADATA_1_ADDR \in Nat /\ METADATA_1_ADDR <= to /\ to <= Len(file)
        /\ 1 \in 1 .. to - METADATA_1_ADDR
    BY <1>1, MetaAddresses, Addresses, SMT
  <2>2. file[to] \in MetaWords
    BY <1>1, <2>1 DEF FileOK
  <2> HIDE DEF to
  <2>3. Bytes(file, METADATA_1_ADDR, to)[1] = file[METADATA_1_ADDR + 1]
    BY <1>1, <2>1, BytesFacts
  <2> QED
    BY <2>2, <2>3, Decoded DEF BlockAt, to
<1> DEFINE block == metadata[1]
<1>5. block \in BlockType /\ block.is_valid
  <2>1. 1 \in 1 .. 2
    BY SMT
  <2> QED
    BY <1>1, <1>3, <1>4, <2>1
<1>6. ASSUME NEW i \in Index
      PROVE  /\ Len(ImageAt(block, i)) = block.images[i].length
             /\ calc_crc(ImageAt(block, i)) = block.images[i].crc
             /\ is_likely_valid_os_image_buf(ImageAt(block, i)) = "Ok"
  <2>1. PICK n \in Nat :
          n < 2 * NUMBER_OF_IMAGES /\ Turn(n).image = i /\ Turn(n).block = 1
    <3>1. 1 \in 1 .. 2
      BY SMT
    <3> QED
      BY <3>1, TurnsCover
  <2>2. Passed(n)
    BY <1>1, <2>1
  <2>3. /\ Checked(n) = block.images[i] /\ CheckedBytes(n) = ImageAt(block, i)
        /\ SLOT_ADDR(i) + block.images[i].length <= Len(file)
    BY <2>1, <2>2 DEF Checked, CheckedBytes, ImageAt, Passed
  <2>4. Len(ImageAt(block, i)) = block.images[i].length
    <3>1. block.images[i].length \in Nat
      BY <1>5 DEF BlockType
    <3> DEFINE from == SLOT_ADDR(i)
               n_bytes == block.images[i].length
               to == from + n_bytes
    <3>2. from \in Nat /\ n_bytes \in Nat /\ from + n_bytes <= Len(file)
      BY <2>3, <3>1, Slots
    <3> HIDE DEF from, n_bytes
    <3>3. to \in Nat /\ from <= to /\ to <= Len(file) /\ to - from = n_bytes
      BY <3>2
    <3> HIDE DEF to
    <3>4. Len(Bytes(file, from, to)) = n_bytes
      BY <1>1, <3>2, <3>3, BytesFacts
    <3> QED
      BY <3>4 DEF ImageAt, from, to, n_bytes
  <2> QED
    BY <2>2, <2>3, <2>4 DEF Passed
<1> HIDE DEF block
<1>7. \A addr \in {METADATA_1_ADDR, METADATA_2_ADDR} : BlockAt(addr) = block
  BY <1>3 DEF block
<1> QED
  BY <1>5, <1>6, <1>7 DEF Bootable

LEMMA CheckStep ==
  ASSUME FileInv, CheckInv, [Next]_vars
  PROVE  CheckInv'
<1>1. CASE pc' \notin {"check", "verified"}
  BY <1>1 DEF CheckInv, AcceptedFileBoots
<1>2. CASE write \/ generate_bootloader \/ generate_image \/ generate_metadata
             \/ write_file \/ reread \/ Edit
  <2>1. pc' \notin {"check", "verified"}
    BY <1>2 DEF write, generate_bootloader, generate_image, generate_metadata, write_file,
       reread, Edit, WriteFails
  <2> QED
    BY <1>1, <2>1
<1>3. CASE read
  <2>1. CASE pc' = "verified" /\ result' = "Err"
    BY <2>1 DEF CheckInv, AcceptedFileBoots
  <2>2. CASE pc' = "check"
    <3>1. /\ UNCHANGED file /\ file # NoFile /\ Len(file) = FLASH_SIZE /\ idx' = 0
          /\ metadata' = [k \in 1 .. 2 |->
               bytes_to_struct(Bytes(file, k * MAX_PAGE_SIZE, k * MAX_PAGE_SIZE + 1))]
          /\ errors' = \E k \in 1 .. 2 : ~metadata'[k].is_valid
      BY <1>3, <2>2 DEF read
    <3>2. FileOK(file)' /\ (Len(file) = FLASH_SIZE)'
      BY <3>1 DEF FileInv, FileOK
    <3>3. metadata' = [k \in 1 .. 2 |-> BlockAt(k * MAX_PAGE_SIZE)]'
      BY <3>1 DEF BlockAt
    <3>4. 0 \in Nat /\ \A n \in Nat : ~(n < 0)
      BY SMT
    <3>5. ~errors' => \A k \in 1 .. 2 : metadata'[k].is_valid
      BY <3>1
    <3> QED
      BY <2>2, <3>1, <3>2, <3>3, <3>4, <3>5 DEF CheckInv, AcceptedFileBoots
  <2> QED
    BY <1>3, <2>1, <2>2 DEF read
<1>4. CASE read_image
  <2>1. CASE pc' = "panicked"
    BY <1>1, <2>1
  <2>2. CASE pc' = "check"
    <3>1. UNCHANGED <<file, metadata>> /\ pc = "check" /\ idx' = idx + 1
      BY <1>4, <2>2 DEF read_image
    <3>2. /\ FileOK(file)' /\ (Len(file) = FLASH_SIZE)' /\ idx \in Nat
          /\ metadata' = [k \in 1 .. 2 |-> BlockAt(k * MAX_PAGE_SIZE)]'
      BY <3>1 DEF CheckInv, FileOK, BlockAt
    <3>3. ~errors' => ~errors /\ Passed(idx)
      <4> DEFINE i == Turn(idx).image
                 image == metadata[Turn(idx).block].images[i]
                 bytes == Bytes(file, SLOT_ADDR(i), SLOT_ADDR(i) + image.length)
      <4>1. \/ errors' = TRUE
            \/ /\ SLOT_ADDR(i) + image.length <= Len(file)
               /\ is_likely_valid_os_image_buf(bytes) # "panic"
               /\ \E o \in BOOLEAN : errors' = (errors \/ ImageErrors(bytes, image, o))
        BY <1>4, <2>2 DEF read_image
      <4>2. is_likely_valid_os_image_buf(bytes) \in {"panic", "Ok", "Err"}
        BY DEF is_likely_valid_os_image_buf
      <4>3. \A o \in BOOLEAN : ~ImageErrors(bytes, image, o) =>
              calc_crc(bytes) = image.crc /\ is_likely_valid_os_image_buf(bytes) # "Err"
        BY DEF ImageErrors
      <4>4. image = Checked(idx) /\ bytes = CheckedBytes(idx)
        BY DEF Checked, CheckedBytes
      <4> QED
        BY <4>1, <4>2, <4>3, <4>4 DEF Passed
    <3>4. ASSUME ~errors', NEW n \in Nat, n < idx' PROVE Passed(n)'
      <4>1. n < idx \/ n = idx
        BY <3>1, <3>2, <3>4
      <4>2. Passed(n)
        BY <2>2, <3>1, <3>3, <3>4, <4>1 DEF CheckInv
      <4> QED
        BY <3>1, <4>2 DEF Passed, CheckedBytes, Checked
    <3>5. ~errors' => \A k \in 1 .. 2 : metadata'[k].is_valid
      BY <3>1, <3>3 DEF CheckInv
    <3>6. idx' \in Nat
      BY <3>1, <3>2
    <3> QED
      BY <2>2, <3>2, <3>4, <3>5, <3>6 DEF CheckInv, AcceptedFileBoots
  <2> QED
    BY <1>4, <2>1, <2>2 DEF read_image
<1>5. CASE read_return
  <2>1. /\ pc = "check" /\ idx = 2 * NUMBER_OF_IMAGES /\ UNCHANGED file /\ pc' = "verified"
        /\ result' = IF errors \/ metadata[1] # metadata[2] THEN "Err" ELSE "Ok"
    BY <1>5 DEF read_return
  <2>2. CASE errors \/ metadata[1] # metadata[2]
    BY <2>1, <2>2 DEF CheckInv, AcceptedFileBoots
  <2>3. CASE ~errors /\ metadata[1] = metadata[2]
    <3>1. Bootable
      BY <2>1, <2>3, AllPassed
    <3>2. Bootable'
      BY <2>1, <3>1 DEF Bootable, BlockAt, ImageAt
    <3> QED
      BY <2>1, <3>2 DEF CheckInv, AcceptedFileBoots
  <2> QED
    BY <2>2, <2>3
<1>6. CASE UNCHANGED vars
  <2>1. /\ UNCHANGED <<pc, file, metadata, idx, errors, result>>
        /\ Bootable => Bootable'
        /\ \A n \in Nat : Passed(n) => Passed(n)'
    BY <1>6 DEF vars, Bootable, BlockAt, ImageAt, Passed, CheckedBytes, Checked
  <2> QED
    BY <2>1 DEF CheckInv, AcceptedFileBoots, FileOK, BlockAt
<1> QED
  BY <1>2, <1>3, <1>4, <1>5, <1>6 DEF Next

(* An Ok of `read` (read.rs) means that the file boots without a repair    *)
(* and that every image either block may choose verifies, however the file *)
(* was damaged, cut off or edited since it was written.                    *)
THEOREM AcceptedBoots == Spec => []AcceptedFileBoots
<1>1. Init => WriteInv /\ FileInv /\ CheckInv
  BY DEF Init, WriteInv, FileInv, CheckInv, AcceptedFileBoots
<1>2. WriteInv /\ FileInv /\ CheckInv /\ [Next]_vars => WriteInv' /\ FileInv' /\ CheckInv'
  BY WriteStep, FileStep, CheckStep
<1>3. CheckInv => AcceptedFileBoots
  BY DEF CheckInv
<1> QED
  BY <1>1, <1>2, <1>3, PTL DEF Spec

-----------------------------------------------------------------------------
(* Types                                                                   *)

(* The parts of TypeOK that do not follow from the invariants above        *)
TypeRest ==
  /\ pc \in PcValues
  /\ args = <<>> \/ args \in Bootloaders \X Images \X Images \X Images
  /\ idx \in 0 .. 2 * NUMBER_OF_IMAGES
  /\ Len(metadata) \in 0 .. NUMBER_OF_IMAGES
  /\ edits \in 0 .. MaxEdits
  /\ errors \in BOOLEAN /\ hindered \in BOOLEAN
  /\ result \in {"none", "Ok", "Err"}

LEMMA RestSuffices == WriteInv /\ FileInv /\ TypeRest => TypeOK
<1> SUFFICES ASSUME WriteInv, FileInv, TypeRest PROVE TypeOK
  OBVIOUS
<1>1. pc \in {"images", "save", "reread"} => Len(data) = FLASH_SIZE
  BY DEF WriteInv, Generated
<1>2. file = NoFile \/ Len(file) \in 0 .. FLASH_SIZE
  <2>1. FileOK(file) => Len(file) \in Nat /\ Len(file) <= FLASH_SIZE
    BY SeqFacts DEF FileOK
  <2> QED
    BY <2>1, Addresses DEF FileInv
<1> QED
  BY <1>1, <1>2 DEF TypeRest, TypeOK

LEMMA TypeStep ==
  ASSUME TypeRest, WriteInv, WriteInv', [Next]_vars
  PROVE  TypeRest'
<1>1. pc' \in PcValues /\ result' \in {"none", "Ok", "Err"}
  BY DEF TypeRest, PcValues, Next, vars, WriteFails, write, generate_bootloader, generate_image,
     generate_metadata, write_file, reread, Edit, read, read_image, read_return
<1>2. (args = <<>> \/ args \in Bootloaders \X Images \X Images \X Images)'
  <2>1. write => UNCHANGED args \/ args' \in Bootloaders \X Images \X Images \X Images
    BY DEF write
  <2>2. ~write => UNCHANGED args
    BY DEF Next, vars, generate_bootloader, generate_image,
       generate_metadata, write_file, reread, Edit, read, read_image, read_return
  <2> QED
    BY <2>1, <2>2 DEF TypeRest
<1>3. idx' \in 0 .. 2 * NUMBER_OF_IMAGES
  <2>1. \/ UNCHANGED idx
        \/ idx \in Index /\ idx' = idx + 1
        \/ idx' = 0
        \/ idx < 2 * NUMBER_OF_IMAGES /\ idx' = idx + 1
    BY DEF Next, vars, write, generate_bootloader, generate_image,
       generate_metadata, write_file, reread, Edit, read, read_image, read_return
  <2> QED
    BY <2>1, SMT DEF TypeRest, Index, NUMBER_OF_IMAGES
<1>4. Len(metadata)' \in 0 .. NUMBER_OF_IMAGES
  <2>1. \/ UNCHANGED metadata
        \/ generate_image /\ pc' = "images"
        \/ metadata' = [k \in 1 .. 2 |->
              bytes_to_struct(Bytes(file, k * MAX_PAGE_SIZE, k * MAX_PAGE_SIZE + 1))]
    BY DEF Next, vars, write, generate_bootloader, generate_image,
       generate_metadata, write_file, reread, Edit, read, read_image, read_return
  <2>2. CASE generate_image /\ pc' = "images"
    <3>1. idx' \in 1 .. NUMBER_OF_IMAGES + 1
      BY <2>2 DEF WriteInv
    <3>2. metadata' = [i \in 1 .. idx' - 1 |-> ImageMetadata(args'[i + 1])]
      BY <2>2 DEF WriteInv
    <3>3. idx' - 1 \in 0 .. NUMBER_OF_IMAGES /\ idx' - 1 \in Nat
      <4>1. \A n \in 1 .. NUMBER_OF_IMAGES + 1 :
              n - 1 \in 0 .. NUMBER_OF_IMAGES /\ n - 1 \in Nat
        BY SMT DEF NUMBER_OF_IMAGES
      <4> QED
        BY <3>1, <4>1
    <3>4. metadata' = [i \in 1 .. idx' - 1 |-> metadata'[i]]
      BY <3>2
    <3> QED
      BY <3>3, <3>4, MakeSeq
  <2>3. CASE metadata' = [k \in 1 .. 2 |->
              bytes_to_struct(Bytes(file, k * MAX_PAGE_SIZE, k * MAX_PAGE_SIZE + 1))]
    <3>1. 2 \in Nat /\ 2 \in 0 .. NUMBER_OF_IMAGES
      BY SMT DEF NUMBER_OF_IMAGES
    <3>2. metadata' = [k \in 1 .. 2 |-> metadata'[k]]
      BY <2>3
    <3>3. Len(metadata') = 2
      BY <3>1, <3>2, MakeSeq
    <3> QED
      BY <3>1, <3>3
  <2> QED
    BY <2>1, <2>2, <2>3 DEF TypeRest
<1>5. edits' \in 0 .. MaxEdits
  <2>1. UNCHANGED edits \/ (edits < MaxEdits /\ edits' = edits + 1)
    BY DEF Next, vars, write, generate_bootloader, generate_image,
       generate_metadata, write_file, reread, Edit, read, read_image, read_return
  <2> QED
    BY <2>1, InstructionsAssumption DEF TypeRest
<1>6. errors' \in BOOLEAN /\ hindered' \in BOOLEAN
  <2>1. \/ UNCHANGED hindered
        \/ hindered' = TRUE
        \/ \E o \in BOOLEAN : hindered' = (hindered \/ ~o)
    BY DEF Next, vars, write, generate_bootloader, generate_image,
       generate_metadata, write_file, reread, Edit, read, read_image, read_return
  <2>2. \/ UNCHANGED errors
        \/ errors' = TRUE
        \/ errors' = \E k \in 1 .. 2 : ~metadata'[k].is_valid
        \/ \E bytes, image, o : errors' = (errors \/ ImageErrors(bytes, image, o))
    BY DEF Next, vars, write, generate_bootloader, generate_image,
       generate_metadata, write_file, reread, Edit, read, read_image, read_return
  <2> QED
    BY <2>1, <2>2 DEF TypeRest, ImageErrors
<1> QED
  BY <1>1, <1>2, <1>3, <1>4, <1>5, <1>6 DEF TypeRest

(* The two commands never leave their control points, the loops stay       *)
(* within their bounds, and no buffer outgrows the flash image.            *)
THEOREM BuilderTypeCorrect == Spec => []TypeOK
<1>1. Init => WriteInv /\ FileInv /\ TypeRest
  <2>1. Init => TypeRest
    <3>1. 1 \in 0 .. 2 * NUMBER_OF_IMAGES /\ 0 \in 0 .. NUMBER_OF_IMAGES /\ 0 \in 0 .. MaxEdits
      BY InstructionsAssumption, SMT DEF NUMBER_OF_IMAGES
    <3>2. Len(<<>>) = 0
      OBVIOUS
    <3> QED
      BY <3>1, <3>2 DEF Init, TypeRest, PcValues
  <2> QED
    BY <2>1 DEF Init, WriteInv, FileInv
<1>2. WriteInv /\ FileInv /\ TypeRest /\ [Next]_vars => WriteInv' /\ FileInv' /\ TypeRest'
  BY WriteStep, FileStep, TypeStep
<1> QED
  BY <1>1, <1>2, RestSuffices, PTL DEF Spec
=============================================================================
