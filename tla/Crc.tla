-------------------------------- MODULE Crc ---------------------------------
(***************************************************************************)
(* interface/src/crc.rs, bit by bit, and the two users of it in            *)
(* interface/src/lib.rs: Metadata::set_crc puts the CRC of a block behind  *)
(* the block, Metadata::is_valid computes it again from what the flash     *)
(* holds later.                                                            *)
(*                                                                         *)
(* A u32 is the set of its bits that are one, so that ^ is the symmetric   *)
(* difference.  Memory is a set of bits too: bit b of byte k is 8 * k + b. *)
(* The two calls of calc_crc32 run side by side, in the same steps.        *)
(***************************************************************************)
EXTENDS Naturals

CONSTANTS
  Cases,      \* a block each, and the bits that flip after it was written
  Tested      \* the tests of crc.rs: a block and its CRC each

Bits == 0 .. 31

ASSUME CasesAssumption ==
  \A c \in Cases :
    /\ c.block.null \in BOOLEAN /\ c.block.length \in Nat
    /\ \A b \in c.block.bits : b \in Nat /\ b < 8 * c.block.length
    /\ c.damage \subseteq Nat

VARIABLES
  pc,
  block,      \* what set_crc is called for: message, length, or a null pointer
  damage,     \* where the memory differs when is_valid reads it, CRC included
  i, j,       \* the loop counters
  crc         \* the register, of the call in set_crc and of the one in is_valid

vars == <<pc, block, damage, i, j, crc>>

-----------------------------------------------------------------------------
(* Words                                                                   *)

Xor(a, b) == (a \ b) \cup (b \ a)

(* Mutant: shifted the wrong way. *)
shr_left(word) == {b + 1 : b \in word}

(* word >> 1 *)
shr(word) == {b \in Bits : b + 1 \in word}

DEFAULT_POLYNOM == {3, 4, 5, 6, 8, 9, 11, 12, 13, 17, 18, 20, 21, 22, 23, 25, 31}

(* Mutant: the register starts with zero. *)
CRC_INITIAL_VALUE_zero == {}

CRC_INITIAL_VALUE == Bits
CRC_FINAL_XOR_VALUE == Bits

(* Mutant: the polynomial is added whatever is shifted out. *)
Shifted_always(word) == Xor(shr(word), DEFAULT_POLYNOM)

(* The body of the inner loop *)
Shifted(word) == IF 0 \in word THEN Xor(shr(word), DEFAULT_POLYNOM) ELSE shr(word)

(* What each call finds in memory *)
Call == {"set_crc", "is_valid"}
Memory(call) == IF call = "set_crc" THEN block.bits ELSE Xor(block.bits, damage)
Byte(bits, k) == {b \in 0 .. 7 : 8 * k + b \in bits}

-----------------------------------------------------------------------------
Init ==
  /\ \E c \in Cases : block = c.block /\ damage = c.damage
  /\ pc = "call" /\ i = 0 /\ j = 0
  /\ crc = [call \in Call |-> {}]

calc_crc32 ==
  /\ pc = "call"
  /\ IF block.null
     THEN pc' = "return" /\ UNCHANGED crc
     ELSE pc' = "byte" /\ crc' = [call \in Call |-> CRC_INITIAL_VALUE]
  /\ UNCHANGED <<block, damage, i, j>>

next_byte ==
  /\ pc = "byte" /\ i < block.length
  /\ crc' = [call \in Call |-> Xor(crc[call], Byte(Memory(call), i))]
  /\ pc' = "bit" /\ j' = 0
  /\ UNCHANGED <<block, damage, i>>

next_bit ==
  /\ pc = "bit" /\ j < 8
  /\ crc' = [call \in Call |-> Shifted(crc[call])]
  /\ j' = j + 1
  /\ UNCHANGED <<pc, block, damage, i>>

byte_done ==
  /\ pc = "bit" /\ j = 8
  /\ pc' = "byte" /\ i' = i + 1
  /\ UNCHANGED <<block, damage, j, crc>>

return ==
  /\ pc = "byte" /\ i = block.length
  /\ crc' = [call \in Call |-> Xor(crc[call], CRC_FINAL_XOR_VALUE)]
  /\ pc' = "return"
  /\ UNCHANGED <<block, damage, i, j>>

Next ==
  \/ calc_crc32
  \/ next_byte
  \/ next_bit
  \/ byte_done
  \/ return

Spec == Init /\ [][Next]_vars

-----------------------------------------------------------------------------
(* is_valid: the CRC that set_crc has left, as it is read, against the one *)
(* of the block as it is read                                              *)
StoredCrc == Xor(crc["set_crc"], {b \in Bits : 8 * block.length + b \in damage})
is_valid == crc["is_valid"] = StoredCrc

(* Properties                                                              *)

TypeOK ==
  /\ pc \in {"call", "byte", "bit", "return"}
  /\ \E c \in Cases : block = c.block /\ damage = c.damage
  /\ i \in 0 .. block.length
  /\ j \in 0 .. 8
  /\ crc \in [Call -> SUBSET Bits]

(* What the metadata relies on ("a CRC over the previous part of the       *)
(* metadata struct", lib.rs): damage that stays within 32 successive bits, *)
(* wherever it begins, is always noticed, in the block, in its CRC, or     *)
(* across the border; and a block that was left alone stays valid.         *)
WithinWord == \A s, t \in damage : t < s + 32
InMemory == \A s \in damage : s < 8 * block.length + 32
BurstDetected ==
  pc = "return" /\ ~block.null /\ WithinWord /\ InMemory
    => (is_valid <=> damage = {})

(* The tests of crc.rs: the CRCs that another implementation computes, and *)
(* a block that was only erased, or is all zeros, has no CRC that such a   *)
(* flash would hold.                                                       *)
SizeWithoutCrc == 60
Erased == {b \in 0 .. 8 * SizeWithoutCrc : b < 8 * SizeWithoutCrc}
TestsPass ==
  pc = "return" =>
    /\ \A t \in Tested : block = t.block => crc["set_crc"] = t.crc
    /\ block.length = SizeWithoutCrc /\ block.bits \in {{}, Erased}
         => crc["set_crc"] \notin {{}, Bits}
=============================================================================
