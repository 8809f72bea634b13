---------------------------- MODULE ImageBuilder ----------------------------
(***************************************************************************)
(* image-builder: `write` puts a bootloader and three OS images into one   *)
(* flash image and reads the file back, `read` checks such a file, which   *)
(* may have been damaged or edited since.                                  *)
(*                                                                         *)
(* Files are sequences of words of four bytes: Zero, Erased (0xffffffff),  *)
(* a word of some binary, or a whole metadata block, which takes one word  *)
(* here.  A CRC is the sequence of words it covers, so that equal CRCs     *)
(* mean equal data; the empty sequence doubles as CRC 0.  ElfMagic is the  *)
(* word an ELF file begins with.                                           *)
(***************************************************************************)
EXTENDS Naturals, Sequences, FiniteSets

CONSTANTS
  Bootloaders,      \* files that may be given as the bootloader
  Images,           \* files that may be given as OS images
  RamEntries,       \* words that are addresses in RAM
  MAX_PAGE_SIZE, SLOT_SIZE, FLASH_SIZE,     \* in words
  BINARY_MIN_UNIQUE_INSTRUCTIONS,
  MaxEdits,         \* edits of the file after it was written
  Zero, Erased, ElfMagic, BadCrc, NoFile

NUMBER_OF_IMAGES == 3
METADATA_1_ADDR == MAX_PAGE_SIZE
METADATA_2_ADDR == 2 * MAX_PAGE_SIZE
SLOT_1_ADDR == 3 * MAX_PAGE_SIZE
SLOT_ADDR(i) == SLOT_1_ADDR + (i - 1) * SLOT_SIZE
Index == 1 .. NUMBER_OF_IMAGES

(* The static assertions of interface/src/lib.rs *)
ASSUME LayoutAssumption ==
  /\ MAX_PAGE_SIZE \in Nat \ {0, 1}
  /\ SLOT_SIZE \in Nat \ {0} /\ FLASH_SIZE \in Nat
  /\ SLOT_ADDR(NUMBER_OF_IMAGES) + SLOT_SIZE <= FLASH_SIZE
(* Fifteen mnemonics take more than the two words of a vector table.       *)
ASSUME InstructionsAssumption ==
  BINARY_MIN_UNIQUE_INSTRUCTIONS \in Nat \ {0, 1} /\ MaxEdits \in Nat

VARIABLES
  pc,          \* where `write` or `read` is
  args,        \* the four files `write` was given, defaults filled in
  data,        \* the buffer of generate_buffer
  idx,         \* loop counter
  metadata,    \* image_metadata, or the blocks `read` has decoded
  file,        \* the output file
  edits,       \* how often the file has been edited
  errors,      \* `read` has collected an error
  hindered,    \* history: `read` could not read the file or not run objdump
  result       \* of the last command

vars == <<pc, args, data, idx, metadata, file, edits, errors, hindered, result>>

-----------------------------------------------------------------------------
(* Helpers                                                                 *)

calc_crc(bytes) == bytes
Words(bytes) == {bytes[k] : k \in DOMAIN bytes}
ASSUME FilesAssumption == \A f \in Bootloaders \cup Images : f \in Seq(Words(f))
Blank(n) == [k \in 1 .. n |-> Zero]

(* Mutant: the end of the range is taken as inclusive. *)
Bytes_inclusive(buffer, from, to) == SubSeq(buffer, from + 1, to + 1)

(* The bytes [from, to) of a buffer *)
Bytes(buffer, from, to) == SubSeq(buffer, from + 1, to)

(* ImageMetadata, and struct Metadata with its own CRC matching or not *)
ImageMetadata(bytes) == [length |-> Len(bytes), crc |-> calc_crc(bytes)]
Block(version, preferred, images) ==
  [version |-> version, preferred_image |-> preferred, images |-> images, is_valid |-> TRUE]
ConstBlock(version, preferred, length, crc) ==
  [version |-> version, preferred_image |-> preferred,
   images |-> [i \in Index |-> [length |-> length, crc |-> crc]], is_valid |-> FALSE]

struct_to_bytes(block) == << <<block>> >>

(* A block with version 1 is neither all zeros nor all ones.               *)
ASSUME BlocksAssumption ==
  \A images \in [Index -> {ImageMetadata(image) : image \in Images}] :
    <<Block(1, 0, images)>> \notin {Zero, Erased}

(* Zeroed and erased memory decode to blocks too, with an invalid CRC      *)
(* (test_erased_metadata, test_zeroed_metadata); 0xffffffff is any length  *)
(* beyond the file.                                                        *)
bytes_to_struct(bytes) ==
  IF bytes[1] = Zero THEN ConstBlock(0, 0, 0, <<>>)
  ELSE IF bytes[1] = Erased THEN ConstBlock(FLASH_SIZE, FLASH_SIZE, FLASH_SIZE, BadCrc)
  ELSE bytes[1][1]

(* Mutant: a source that is one too long is accepted and cut off. *)
Fits_off_by_one(target, from, to, src) == from + Len(src) <= to + 1 /\ to <= Len(target)

(* set_buf_from_to: the condition and, when it holds, the effect *)
Fits(target, from, to, src) == from + Len(src) <= to /\ to <= Len(target)

(* Mutant: the range is replaced by the source, whatever its length. *)
set_buf_splices(target, from, to, src) ==
  SubSeq(target, 1, from) \o src \o SubSeq(target, to + 1, Len(target))

set_buf_from_to(target, from, to, src) ==
  [k \in DOMAIN target |->
     IF from < k /\ k <= from + Len(src) THEN src[k - from]
     ELSE IF from + Len(src) < k /\ k <= to THEN Zero
     ELSE target[k]]

(* objdump calls 0xffff undefined and decodes everything else here; one    *)
(* percent may be undefined, and an empty file has too few instructions.   *)
(* It is only consulted when the bytes can be written to a temporary file  *)
(* and the program be run on it.                                           *)
is_likely_valid_binary_buf(bytes, objdump_runs) ==
  /\ bytes = <<>> \/ bytes[1] # ElfMagic
  /\ objdump_runs
  /\ 100 * Cardinality({k \in DOMAIN bytes : bytes[k] = Erased}) <= Len(bytes)
  /\ Cardinality(Words(bytes) \ {Erased}) >= BINARY_MIN_UNIQUE_INSTRUCTIONS

(* The second word is the reset vector; reading it from less than two      *)
(* words is an index out of bounds.                                        *)
is_likely_valid_os_image_buf(bytes) ==
  IF Len(bytes) < 2 THEN "panic"
  ELSE IF bytes[2] \in RamEntries THEN "Ok" ELSE "Err"

-----------------------------------------------------------------------------
(* image-builder write                                                     *)

Init ==
  /\ pc = "write"
  /\ args = <<>> /\ data = <<>> /\ idx = 1 /\ metadata = <<>>
  /\ file = NoFile /\ edits = 0 /\ errors = FALSE /\ hindered = FALSE
  /\ result = "none"

WriteFails == pc' = "done" /\ result' = "Err"

(* read_file for the four arguments; images not given repeat the first *)
write ==
  /\ pc = "write"
  /\ \/ /\ \E bootloader \in Bootloaders, image_1, image_2, image_3 \in Images :
             args' = <<bootloader, image_1, image_2, image_3>>
        /\ pc' = "bootloader"
        /\ UNCHANGED result
     \/ WriteFails /\ UNCHANGED args
  /\ UNCHANGED <<data, idx, metadata, file, errors, hindered, edits>>

generate_bootloader ==
  /\ pc = "bootloader"
  /\ \E objdump_runs \in BOOLEAN :
       LET accepted ==
             /\ is_likely_valid_binary_buf(args[1], objdump_runs)
             /\ Fits(Blank(FLASH_SIZE), 0, METADATA_1_ADDR, args[1]) IN
         \/ /\ accepted
            /\ data' = set_buf_from_to(Blank(FLASH_SIZE), 0, METADATA_1_ADDR, args[1])
            /\ pc' = "images"
            /\ UNCHANGED result
         \/ ~accepted /\ WriteFails /\ UNCHANGED data
  /\ UNCHANGED <<args, idx, metadata, file, errors, hindered, edits>>

(* One turn of the loop over image_data *)
ImageAccepted(image, objdump_runs) ==
  /\ Len(image) <= SLOT_SIZE
  /\ is_likely_valid_binary_buf(image, objdump_runs)
  /\ is_likely_valid_os_image_buf(image) = "Ok"

generate_image ==
  /\ pc = "images" /\ idx \in Index
  /\ \E objdump_runs \in BOOLEAN :
       LET image == args[idx + 1]
           addr == SLOT_ADDR(idx)
           accepted == /\ ImageAccepted(image, objdump_runs)
                       /\ Fits(data, addr, addr + Len(image), image) IN
         \/ /\ accepted
            /\ metadata' = Append(metadata, ImageMetadata(image))
            /\ data' = set_buf_from_to(data, addr, addr + Len(image), image)
            /\ idx' = idx + 1
            /\ UNCHANGED <<pc, result>>
         \/ ~accepted /\ WriteFails /\ UNCHANGED <<data, idx, metadata>>
  /\ UNCHANGED <<args, file, errors, hindered, edits>>

generate_metadata ==
  /\ pc = "images" /\ idx = NUMBER_OF_IMAGES + 1
  /\ LET bytes == struct_to_bytes(Block(1, 0, metadata))
         first == set_buf_from_to(data, METADATA_1_ADDR, METADATA_2_ADDR, bytes) IN
       data' = set_buf_from_to(first, METADATA_2_ADDR, SLOT_1_ADDR, bytes)
  /\ pc' = "save"
  /\ UNCHANGED <<args, idx, metadata, file, errors, hindered, result, edits>>

Damaged(bytes) ==
  {[bytes EXCEPT ![k] = word] : k \in DOMAIN bytes, word \in {Zero, Erased}}

(* std::fs::write: it may fail halfway, or succeed on a bad medium *)
write_file ==
  /\ pc = "save"
  /\ \/ file' \in {data} \cup Damaged(data) /\ pc' = "reread" /\ UNCHANGED result
     \/ file' \in {NoFile, <<>>, SubSeq(data, 1, METADATA_2_ADDR)} /\ WriteFails
  /\ UNCHANGED <<args, data, idx, metadata, errors, hindered, edits>>

(* Mutant: any file that can be read back is good. *)
reread_unchecked ==
  /\ pc = "reread"
  /\ \/ /\ pc' = "done" /\ result' = "Ok" /\ UNCHANGED file
     \/ WriteFails /\ UNCHANGED file
  /\ UNCHANGED <<args, data, idx, metadata, errors, hindered, edits>>

(* The file is read back, and removed, if that works, when it differs *)
reread ==
  /\ pc = "reread"
  /\ \/ /\ file = data
        /\ pc' = "done" /\ result' = "Ok"
        /\ UNCHANGED file
     \/ /\ file # data
        /\ file' \in {file, NoFile}
        /\ WriteFails
     \/ WriteFails /\ UNCHANGED file
  /\ UNCHANGED <<args, data, idx, metadata, errors, hindered, edits>>

-----------------------------------------------------------------------------
(* Between `write` and `read`, or between two `read`s: the file is damaged *)
(* (test_hardware.sh overwrites metadata with 0xff), cut off, or gets the  *)
(* metadata of an update.                                                  *)
UpdatedBlocks(block) ==
  {[block EXCEPT !.version = 2], [block EXCEPT !.preferred_image = NUMBER_OF_IMAGES],
   [block EXCEPT !.is_valid = FALSE]}
  \cup {[block EXCEPT !.images[i].length = n] : i \in Index, n \in {0, FLASH_SIZE}}

Edit ==
  /\ pc \in {"done", "edited"} /\ result = "Ok" /\ edits < MaxEdits
  /\ edits' = edits + 1
  /\ file' \in Damaged(file) \cup {SubSeq(file, 1, FLASH_SIZE - 1)}
       \cup UNION {{set_buf_from_to(file, addr, addr + 1, struct_to_bytes(block)) :
                      block \in UpdatedBlocks(bytes_to_struct(Bytes(file, addr, addr + 1)))} :
                     addr \in {METADATA_1_ADDR, METADATA_2_ADDR}}
  /\ pc' = "edited"
  /\ UNCHANGED <<args, data, idx, metadata, errors, hindered, result>>

-----------------------------------------------------------------------------
(* image-builder read                                                      *)

(* Up to the two metadata blocks and their CRCs; read_file may fail for    *)
(* other reasons than that there is no file.                               *)
read ==
  /\ pc \in {"done", "edited"}
  /\ \/ /\ \/ hindered' = TRUE
           \/ file # NoFile /\ Len(file) # FLASH_SIZE /\ UNCHANGED hindered
        /\ pc' = "verified" /\ result' = "Err"
        /\ UNCHANGED <<idx, metadata, errors>>
     \/ /\ file # NoFile /\ Len(file) = FLASH_SIZE
        /\ metadata' = [k \in 1 .. 2 |->
             bytes_to_struct(Bytes(file, k * MAX_PAGE_SIZE, k * MAX_PAGE_SIZE + 1))]
        /\ errors' = \E k \in 1 .. 2 : ~metadata'[k].is_valid
        /\ idx' = 0
        /\ pc' = "check"
        /\ UNCHANGED <<hindered, result>>
  /\ UNCHANGED <<args, data, file, edits>>

(* The images in the outer loop, the two metadata blocks in the inner one *)
Turn(n) == [image |-> n \div 2 + 1, block |-> (n % 2) + 1]

(* Mutant: the CRC of an image is not compared. *)
ImageErrors_no_crc(bytes, image, objdump_runs) ==
  \/ ~is_likely_valid_binary_buf(bytes, objdump_runs)
  \/ is_likely_valid_os_image_buf(bytes) = "Err"

(* What the body of the loops reports *)
ImageErrors(bytes, image, objdump_runs) ==
  \/ calc_crc(bytes) # image.crc
  \/ ~is_likely_valid_binary_buf(bytes, objdump_runs)
  \/ is_likely_valid_os_image_buf(bytes) = "Err"

read_image ==
  /\ pc = "check" /\ idx < 2 * NUMBER_OF_IMAGES
  /\ LET turn == Turn(idx)
         image == metadata[turn.block].images[turn.image]
         start == SLOT_ADDR(turn.image)
         end == start + image.length
         bytes == Bytes(file, start, end) IN
       \/ /\ end > Len(file)
          /\ errors' = TRUE /\ idx' = idx + 1
          /\ UNCHANGED <<pc, hindered>>
       \/ /\ end <= Len(file) /\ is_likely_valid_os_image_buf(bytes) # "panic"
          /\ \E objdump_runs \in BOOLEAN :
               /\ errors' = (errors \/ ImageErrors(bytes, image, objdump_runs))
               /\ hindered' = (hindered \/ ~objdump_runs)
          /\ idx' = idx + 1
          /\ UNCHANGED pc
       \/ /\ end <= Len(file) /\ is_likely_valid_os_image_buf(bytes) = "panic"
          /\ pc' = "panicked"
          /\ UNCHANGED <<errors, hindered, idx>>
  /\ UNCHANGED <<args, data, metadata, file, result, edits>>

read_return ==
  /\ pc = "check" /\ idx = 2 * NUMBER_OF_IMAGES
  /\ result' = IF errors \/ metadata[1] # metadata[2] THEN "Err" ELSE "Ok"
  /\ pc' = "verified"
  /\ UNCHANGED <<args, data, idx, metadata, file, errors, hindered, edits>>

Next ==
  \/ write
  \/ generate_bootloader
  \/ generate_image
  \/ generate_metadata
  \/ write_file
  \/ reread
  \/ Edit
  \/ read
  \/ read_image
  \/ read_return

Spec == Init /\ [][Next]_vars

-----------------------------------------------------------------------------
(* Properties                                                              *)

PcValues == {"write", "bootloader", "images", "save", "reread", "done", "edited", "check",
             "verified", "panicked"}
TypeOK ==
  /\ pc \in PcValues
  /\ args = <<>> \/ args \in Bootloaders \X Images \X Images \X Images
  /\ pc \in {"images", "save", "reread"} => Len(data) = FLASH_SIZE
  /\ idx \in 0 .. 2 * NUMBER_OF_IMAGES
  /\ Len(metadata) \in 0 .. NUMBER_OF_IMAGES
  /\ file = NoFile \/ Len(file) \in 0 .. FLASH_SIZE
  /\ edits \in 0 .. MaxEdits
  /\ errors \in BOOLEAN /\ hindered \in BOOLEAN
  /\ result \in {"none", "Ok", "Err"}

(* What verify_generated_buffer (generate.rs, tests) says of the buffer,   *)
(* of every input that is accepted: both metadata pages describe the       *)
(* images, each file is complete and where the bootloader expects it, and  *)
(* no write has spilled into a neighbour.                                  *)
InRegion(k, start, bytes) == start < k /\ k <= start + Len(bytes)
GeneratedLayout ==
  pc \in {"save", "reread"} =>
    LET images == [i \in Index |-> ImageMetadata(args[i + 1])]
        regions == {<<0, args[1]>>, <<METADATA_1_ADDR, struct_to_bytes(Block(1, 0, images))>>,
                    <<METADATA_2_ADDR, struct_to_bytes(Block(1, 0, images))>>}
                   \cup {<<SLOT_ADDR(i), args[i + 1]>> : i \in Index} IN
      \A k \in 1 .. FLASH_SIZE :
        /\ \A r \in regions : InRegion(k, r[1], r[2]) => data[k] = r[2][k - r[1]]
        /\ (\A r \in regions : ~InRegion(k, r[1], r[2])) => data[k] = Zero

(* A file the bootloader starts from without a repair (internal_select),   *)
(* in which every image it may choose verifies and has its entry point in  *)
(* RAM (verify_image, jump_to_image)                                       *)
BlockAt(addr) == bytes_to_struct(Bytes(file, addr, addr + 1))
ImageAt(block, i) == Bytes(file, SLOT_ADDR(i), SLOT_ADDR(i) + block.images[i].length)
Bootable ==
  \A addr \in {METADATA_1_ADDR, METADATA_2_ADDR} :
    /\ BlockAt(addr).is_valid
    /\ BlockAt(addr).version = BlockAt(METADATA_1_ADDR).version
    /\ \A i \in Index :
         LET bytes == ImageAt(BlockAt(addr), i) IN
           /\ Len(bytes) = BlockAt(addr).images[i].length
           /\ calc_crc(bytes) = BlockAt(addr).images[i].crc
           /\ is_likely_valid_os_image_buf(bytes) = "Ok"

(* "Successfully wrote and verified" (write.rs): whatever the inputs are   *)
(* and whatever the medium does, a file reported as written starts with    *)
(* the whole bootloader and boots all three images.                        *)
WrittenFileBoots ==
  pc = "done" /\ result = "Ok" => Bootable /\ Bytes(file, 0, Len(args[1])) = args[1]

(* A file that `read` accepts boots on the first attempt, however it was   *)
(* damaged or edited since it was written.                                 *)
AcceptedFileBoots == pc = "verified" /\ result = "Ok" => Bootable

(* `read` agrees with `write`: over a file that is still as generated it   *)
(* never panics, and rejects it only when the file could not be read or    *)
(* objdump not be run on it (read_file, get_thumb_instruction_stats).      *)
WrittenFileAccepted ==
  pc \in {"verified", "panicked"} /\ file # NoFile /\ file = data
    => pc = "verified" /\ (result = "Ok" \/ hindered)
=============================================================================
