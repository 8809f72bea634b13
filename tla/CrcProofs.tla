----------------------------- MODULE CrcProofs ------------------------------
(***************************************************************************)
(* For every block and every length: the register stays a word, and damage *)
(* within 32 successive bits is noticed.                                   *)
(*                                                                         *)
(* The argument follows one set of bits, Ahead: where the registers of the *)
(* two calls differ, together with the damage they have not read yet, both *)
(* counted from the bit that is shifted out next.  Reading a byte leaves   *)
(* it alone, because what moves into the registers leaves the damage still *)
(* to come.  Shifting divides it like a register, because division is      *)
(* linear.  As long as no damage is reached it is the damage itself; from  *)
(* there on it fits a word, and as the polynomial has its highest bit, no  *)
(* division makes a word zero that was not.  At the end what is left ahead *)
(* is the damage to the CRC in memory, so the comparison fails.            *)
(***************************************************************************)
EXTENDS Crc, TLAPS

(* A difference after one more division                                    *)
Below(V) == {p \in Nat : p + 1 \in V}
Divided(V) == IF 0 \in V THEN Xor(Below(V), DEFAULT_POLYNOM) ELSE Below(V)

(* What is left of damage D from bit n on, when all before m has been read *)
Unread(D, n, m) == {p \in Nat : n + p \in D /\ n + p >= m}

-----------------------------------------------------------------------------
(* Words                                                                   *)

(* A bit of the symmetric difference is in one of the two.                 *)
LEMMA XorMember ==
  ASSUME NEW a, NEW b
  PROVE  \A x : x \in Xor(a, b) <=> ~(x \in a <=> x \in b)
  BY DEF Xor

(* Shifting a word leaves a word.                                          *)
LEMMA ShiftedIsWord ==
  ASSUME NEW w \in SUBSET Bits
  PROVE  Shifted(w) \in SUBSET Bits
  BY SMT DEF Shifted, shr, Xor, Bits, DEFAULT_POLYNOM

(* So does adding a byte.                                                  *)
LEMMA ByteIsWord ==
  ASSUME NEW w \in SUBSET Bits, NEW bits, NEW k
  PROVE  Xor(w, Byte(bits, k)) \in SUBSET Bits
<1>1. Byte(bits, k) \in SUBSET Bits
  <2>1. \A p \in 0 .. 7 : p \in 0 .. 31
    BY SMT
  <2> QED  BY <2>1 DEF Byte, Bits
<1> QED  BY <1>1 DEF Xor

(* The loop body of calc_crc32 on two registers is one division of their   *)
(* difference, with whatever is still to come behind the lowest bit.       *)
LEMMA DivisionIsLinear ==
  ASSUME NEW a \in SUBSET Bits, NEW b \in SUBSET Bits,
         NEW R \in SUBSET Nat, 0 \notin R
  PROVE  Xor(Xor(Shifted(a), Shifted(b)), Below(R)) = Divided(Xor(Xor(a, b), R))
<1> DEFINE V == Xor(Xor(a, b), R)
<1>1. \A w \in SUBSET Bits : shr(w) = Below(w)
  BY SMT DEF shr, Below, Bits
<1>2. \A p : p \in Below(V) <=> p \in Xor(Xor(Below(a), Below(b)), Below(R))
  BY XorMember DEF Below
<1>3. 0 \in V <=> ~(0 \in a <=> 0 \in b)
  BY XorMember
<1>4. Shifted(a) = IF 0 \in a THEN Xor(Below(a), DEFAULT_POLYNOM) ELSE Below(a)
  BY <1>1 DEF Shifted
<1>5. Shifted(b) = IF 0 \in b THEN Xor(Below(b), DEFAULT_POLYNOM) ELSE Below(b)
  BY <1>1 DEF Shifted
<1> HIDE DEF V
<1>6. \A p : p \in Xor(Xor(Shifted(a), Shifted(b)), Below(R)) <=> p \in Divided(V)
  <2>1. CASE 0 \in a /\ 0 \in b
    BY <2>1, <1>2, <1>3, <1>4, <1>5, XorMember, SMT DEF Divided
  <2>2. CASE 0 \in a /\ 0 \notin b
    BY <2>2, <1>2, <1>3, <1>4, <1>5, XorMember, SMT DEF Divided
  <2>3. CASE 0 \notin a /\ 0 \in b
    BY <2>3, <1>2, <1>3, <1>4, <1>5, XorMember, SMT DEF Divided
  <2>4. CASE 0 \notin a /\ 0 \notin b
    BY <2>4, <1>2, <1>3, <1>4, <1>5, XorMember, SMT DEF Divided
  <2> QED  BY <2>1, <2>2, <2>3, <2>4
<1> QED  BY <1>6 DEF V

(* No division loses the last difference: the highest bit of the           *)
(* polynomial says whether it was added.                                   *)
LEMMA DivisionKeepsDifference ==
  ASSUME NEW V \in SUBSET Bits, V # {}
  PROVE  Divided(V) \in SUBSET Bits /\ Divided(V) # {}
<1>1. Below(V) \in SUBSET Bits /\ 31 \notin Below(V)
  BY SMT DEF Below, Bits
<1>2. DEFAULT_POLYNOM \in SUBSET Bits /\ 31 \in DEFAULT_POLYNOM
  BY SMT DEF DEFAULT_POLYNOM, Bits
<1>3. CASE 0 \in V
  <2>1. Divided(V) = Xor(Below(V), DEFAULT_POLYNOM)
    BY <1>3 DEF Divided
  <2>2. 31 \in Xor(Below(V), DEFAULT_POLYNOM)
    BY <1>1, <1>2, XorMember
  <2> QED  BY <2>1, <2>2, <1>1, <1>2 DEF Xor
<1>4. CASE 0 \notin V
  <2>1. PICK x \in V : TRUE  OBVIOUS
  <2>2. x \in Nat /\ x # 0
    BY <1>4, SMT DEF Bits
  <2>3. x - 1 \in Below(V)
    BY <2>1, <2>2, SMT DEF Below
  <2> QED  BY <1>1, <1>4, <2>3 DEF Divided
<1> QED  BY <1>3, <1>4

-----------------------------------------------------------------------------
(* Steps of both registers together                                        *)

(* What the two registers know and what they have not read yet, n bits     *)
(* after the first and with all before bit m read                          *)
Ahead(n, m) == Xor(Xor(crc["set_crc"], crc["is_valid"]), Unread(damage, n, m))

(* n and m at each place                                                   *)
Position == IF pc = "bit" THEN 8 * i + j ELSE 8 * i
ReadUpTo == IF pc = "bit" THEN 8 * i + 8 ELSE 8 * i

(* Either no damage has been reached, or it shows in the next 32 bits.     *)
Noticed(V, n) ==
  \/ (\A d \in damage : d >= n) /\ V = {p \in Nat : n + p \in damage}
  \/ V \in SUBSET Bits /\ V # {}

NoticeInv ==
  /\ pc = "call" => i = 0
  /\ damage = {} => crc["set_crc"] = crc["is_valid"]
  /\ pc \in {"byte", "bit"} /\ damage # {} /\ WithinWord
       => Noticed(Ahead(Position, ReadUpTo), Position)
  /\ BurstDetected

(* The block and the damage of a case, as the assumption describes them    *)
LEMMA TypesOfCase ==
  ASSUME TypeOK
  PROVE  /\ block.length \in Nat /\ damage \in SUBSET Nat
         /\ i \in Nat /\ i <= block.length /\ j \in Nat /\ j <= 8
         /\ crc["set_crc"] \in SUBSET Bits /\ crc["is_valid"] \in SUBSET Bits
<1>1. PICK c \in Cases : block = c.block /\ damage = c.damage
  BY DEF TypeOK
<1>2. block.length \in Nat /\ damage \in SUBSET Nat
  BY <1>1, CasesAssumption
<1> QED  BY <1>2, SMT DEF TypeOK, Call

(* The counters stay in range and the registers stay words.                *)
THEOREM CrcTypeCorrect == Spec => []TypeOK
<1> DEFINE Inv == TypeOK /\ (pc = "bit" => i < block.length)
<1>1. Init => Inv
  <2> SUFFICES ASSUME Init PROVE Inv  OBVIOUS
  <2>1. PICK c \in Cases : block = c.block /\ damage = c.damage
    BY DEF Init
  <2>2. block.length \in Nat
    BY <2>1, CasesAssumption
  <2>3. crc \in [Call -> SUBSET Bits]
    BY DEF Init
  <2> QED  BY <2>1, <2>2, <2>3, SMT DEF Init, TypeOK
<1>2. Inv /\ [Next]_vars => Inv'
  <2> SUFFICES ASSUME Inv, [Next]_vars PROVE Inv'  OBVIOUS
  <2>1. block.length \in Nat /\ i \in Nat /\ i <= block.length /\ j \in Nat /\ j <= 8
    BY TypesOfCase
  <2>2. \A call \in Call : crc[call] \in SUBSET Bits
    BY DEF TypeOK
  <2>3. block' = block /\ damage' = damage
    BY DEF Next, calc_crc32, next_byte, next_bit, byte_done, return, vars
  <2>4. CASE calc_crc32
    <3>1. crc' \in [Call -> SUBSET Bits]
      BY <2>4 DEF calc_crc32, TypeOK, CRC_INITIAL_VALUE
    <3> QED  BY <2>4, <3>1, <2>1, <2>3, SMT DEF calc_crc32, TypeOK
  <2>5. CASE next_byte
    <3>1. crc' \in [Call -> SUBSET Bits]
      BY <2>5, <2>2, ByteIsWord DEF next_byte
    <3> QED  BY <2>5, <3>1, <2>1, <2>3, SMT DEF next_byte, TypeOK
  <2>6. CASE next_bit
    <3>1. crc' \in [Call -> SUBSET Bits]
      BY <2>6, <2>2, ShiftedIsWord DEF next_bit
    <3> QED  BY <2>6, <3>1, <2>1, <2>3, SMT DEF next_bit, TypeOK
  <2>7. CASE byte_done
    BY <2>7, <2>1, <2>3, SMT DEF byte_done, TypeOK
  <2>8. CASE return
    <3>1. crc' \in [Call -> SUBSET Bits]
      BY <2>8, <2>2 DEF return, CRC_FINAL_XOR_VALUE, Xor
    <3> QED  BY <2>8, <3>1, <2>1, <2>3, SMT DEF return, TypeOK
  <2>9. CASE UNCHANGED vars
    BY <2>9 DEF vars, TypeOK
  <2> QED  BY <2>4, <2>5, <2>6, <2>7, <2>8, <2>9 DEF Next
<1>3. Inv => TypeOK
  OBVIOUS
<1> QED  BY <1>1, <1>2, <1>3, PTL DEF Spec

-----------------------------------------------------------------------------
(* Reading byte k moves its damage from what is unread to the registers.   *)
LEMMA ByteKeepsAhead ==
  ASSUME NEW a \in SUBSET Bits, NEW b \in SUBSET Bits,
         NEW mem, NEW D \in SUBSET Nat, NEW k \in Nat
  PROVE  Xor(Xor(Xor(a, Byte(mem, k)), Xor(b, Byte(Xor(mem, D), k))),
             Unread(D, 8 * k, 8 * k + 8))
           = Xor(Xor(a, b), Unread(D, 8 * k, 8 * k))
<1>1. \A p : p \in Byte(Xor(mem, D), k)
               <=> ~(p \in Byte(mem, k) <=> p \in Byte(D, k))
  BY DEF Byte, Xor
<1>2. \A p : p \in Unread(D, 8 * k, 8 * k)
               <=> ~(p \in Byte(D, k) <=> p \in Unread(D, 8 * k, 8 * k + 8))
  BY SMT DEF Byte, Unread
<1> QED  BY <1>1, <1>2, SMT DEF Xor

(* The next bit to be shifted out has always been read, so that what is    *)
(* unread only moves one bit closer.                                       *)
LEMMA BitKeepsUnread ==
  ASSUME NEW D \in SUBSET Nat, NEW n \in Nat, NEW m \in Nat, n < m
  PROVE  /\ Unread(D, n, m) \in SUBSET Nat /\ 0 \notin Unread(D, n, m)
         /\ Unread(D, n + 1, m) = Below(Unread(D, n, m))
  BY SMT DEF Unread, Below

(* Once noticed, damage stays noticed: it comes one bit closer or, from    *)
(* where it begins, is divided.                                            *)
LEMMA NoticedOneOn ==
  ASSUME NEW V, NEW n \in Nat, damage \in SUBSET Nat, damage # {}, WithinWord,
         Noticed(V, n)
  PROVE  Noticed(Divided(V), n + 1)
<1>1. CASE V \in SUBSET Bits /\ V # {}
  BY <1>1, DivisionKeepsDifference DEF Noticed
<1>2. CASE (\A d \in damage : d >= n) /\ V = {p \in Nat : n + p \in damage}
  <2>1. CASE n \in damage
    <3>1. \A p \in V : p < 32
      BY <1>2, <2>1, SMT DEF WithinWord
    <3>2. V \in SUBSET Bits
      BY <1>2, <3>1, SMT DEF Bits
    <3>3. 0 \in V
      BY <1>2, <2>1, SMT
    <3> QED  BY <3>2, <3>3, DivisionKeepsDifference DEF Noticed
  <2>2. CASE n \notin damage
    <3>1. 0 \notin V
      BY <1>2, <2>2, SMT
    <3>2. \A d \in damage : d >= n + 1
      BY <1>2, <2>2, SMT
    <3>3. Below(V) = {p \in Nat : (n + 1) + p \in damage}
      BY <1>2, SMT DEF Below
    <3> QED  BY <3>1, <3>2, <3>3 DEF Noticed, Divided
  <2> QED  BY <2>1, <2>2
<1> QED  BY <1>1, <1>2 DEF Noticed

(* When all is read, what is left is the damage to the CRC.                *)
LEMMA NoticedAtEnd ==
  ASSUME NEW V, NEW n \in Nat, damage \in SUBSET Nat, damage # {}, Noticed(V, n)
  PROVE  V # {}
<1>1. CASE (\A d \in damage : d >= n) /\ V = {p \in Nat : n + p \in damage}
  <2>1. PICK d \in damage : TRUE  OBVIOUS
  <2>2. d - n \in V
    BY <1>1, <2>1, SMT
  <2> QED  BY <2>2
<1> QED  BY <1>1 DEF Noticed

(* Damage within 32 successive bits makes is_valid false, wherever it is   *)
(* and however long the block: interface/src/lib.rs, is_valid and set_crc. *)
THEOREM BurstsAreDetected == Spec => []BurstDetected
<1>1. Init => NoticeInv
  BY DEF Init, NoticeInv, BurstDetected, Call
<1>2. TypeOK /\ NoticeInv /\ [Next]_vars => NoticeInv'
  <2> SUFFICES ASSUME TypeOK, NoticeInv, [Next]_vars PROVE NoticeInv'
    OBVIOUS
  <2>1. /\ block.length \in Nat /\ damage \in SUBSET Nat
        /\ i \in Nat /\ i <= block.length /\ j \in Nat /\ j <= 8
        /\ crc["set_crc"] \in SUBSET Bits /\ crc["is_valid"] \in SUBSET Bits
    BY TypesOfCase
  <2>2. block' = block /\ damage' = damage
    BY DEF Next, calc_crc32, next_byte, next_bit, byte_done, return, vars
  <2>3. WithinWord' = WithinWord /\ InMemory' = InMemory
    BY <2>2 DEF WithinWord, InMemory
  <2>4. damage = {} => Memory("set_crc") = Memory("is_valid")
    BY DEF Memory, Xor
  <2>5. CASE calc_crc32
    <3>1. CASE block.null
      BY <3>1, <2>5, <2>2 DEF calc_crc32, NoticeInv, BurstDetected
    <3>2. CASE ~block.null
      <4>1. pc' = "byte" /\ i' = i /\ crc'["set_crc"] = crc'["is_valid"]
        BY <3>2, <2>5 DEF calc_crc32, Call
      <4>2. i = 0
        BY <2>5 DEF calc_crc32, NoticeInv
      <4>3. Position' = 0 /\ ReadUpTo' = 0
        BY <4>1, <4>2, SMT DEF Position, ReadUpTo
      <4>4. Unread(damage, 0, 0) = {p \in Nat : 0 + p \in damage}
        BY SMT DEF Unread
      <4>5. Ahead(Position, ReadUpTo)' = Unread(damage, 0, 0)
        BY <4>1, <4>3, <2>2 DEF Ahead, Xor
      <4>6. \A d \in damage : d >= 0
        BY <2>1, SMT
      <4>7. Noticed(Ahead(Position, ReadUpTo), Position)'
        BY <4>3, <4>4, <4>5, <4>6, <2>2 DEF Noticed
      <4> QED  BY <4>1, <4>7, <2>2, <2>3 DEF NoticeInv, BurstDetected
    <3> QED  BY <3>1, <3>2
  <2>6. CASE next_byte
    <3>1. /\ pc = "byte" /\ pc' = "bit" /\ i' = i /\ j' = 0 /\ i < block.length
          /\ crc'["set_crc"] = Xor(crc["set_crc"], Byte(block.bits, i))
          /\ crc'["is_valid"] = Xor(crc["is_valid"], Byte(Xor(block.bits, damage), i))
      BY <2>6 DEF next_byte, Call, Memory
    <3>2. Position' = 8 * i /\ ReadUpTo' = 8 * i + 8
      BY <3>1, <2>1, SMT DEF Position, ReadUpTo
    <3>3. Position = 8 * i /\ ReadUpTo = 8 * i
      BY <3>1 DEF Position, ReadUpTo
    <3>4. Ahead(Position, ReadUpTo)' = Ahead(Position, ReadUpTo)
      BY <3>1, <3>2, <3>3, <2>1, <2>2, ByteKeepsAhead DEF Ahead
    <3>5. Noticed(Ahead(Position, ReadUpTo), Position)
            => Noticed(Ahead(Position, ReadUpTo), Position)'
      BY <3>2, <3>3, <3>4, <2>2 DEF Noticed
    <3>6. damage = {} => crc'["set_crc"] = crc'["is_valid"]
      BY <3>1, <2>4 DEF NoticeInv, Memory
    <3> QED  BY <3>1, <3>5, <3>6, <2>2, <2>3 DEF NoticeInv, BurstDetected
  <2>7. CASE next_bit
    <3>1. /\ pc = "bit" /\ pc' = "bit" /\ i' = i /\ j' = j + 1 /\ j < 8
          /\ crc'["set_crc"] = Shifted(crc["set_crc"])
          /\ crc'["is_valid"] = Shifted(crc["is_valid"])
      BY <2>7 DEF next_bit, Call
    <3>2. Position' = Position + 1 /\ ReadUpTo' = ReadUpTo
      BY <3>1, <2>1, SMT DEF Position, ReadUpTo
    <3>3. Position \in Nat /\ ReadUpTo \in Nat /\ Position < ReadUpTo
      BY <3>1, <2>1, SMT DEF Position, ReadUpTo
    <3>4. Ahead(Position, ReadUpTo)' = Divided(Ahead(Position, ReadUpTo))
      <4> DEFINE R == Unread(damage, Position, ReadUpTo)
      <4>1. /\ R \in SUBSET Nat /\ 0 \notin R
            /\ Unread(damage, Position + 1, ReadUpTo) = Below(R)
        BY <3>3, <2>1, BitKeepsUnread
      <4> HIDE DEF R
      <4>2. Xor(Xor(Shifted(crc["set_crc"]), Shifted(crc["is_valid"])), Below(R))
              = Divided(Xor(Xor(crc["set_crc"], crc["is_valid"]), R))
        BY <4>1, <2>1, DivisionIsLinear
      <4>3. Ahead(Position, ReadUpTo)'
              = Xor(Xor(Shifted(crc["set_crc"]), Shifted(crc["is_valid"])), Below(R))
        BY <4>1, <3>1, <3>2, <2>2 DEF Ahead
      <4> QED  BY <4>2, <4>3 DEF Ahead, R
    <3>5. damage # {} /\ WithinWord => Noticed(Ahead(Position, ReadUpTo), Position)'
      <4> SUFFICES ASSUME damage # {}, WithinWord
                   PROVE  Noticed(Ahead(Position, ReadUpTo), Position)'
        OBVIOUS
      <4>1. Noticed(Ahead(Position, ReadUpTo), Position)
        BY <3>1 DEF NoticeInv
      <4>2. Noticed(Divided(Ahead(Position, ReadUpTo)), Position + 1)
        BY <4>1, <3>3, <2>1, NoticedOneOn
      <4> QED  BY <4>2, <3>2, <3>4, <2>2 DEF Noticed
    <3> QED  BY <3>1, <3>5, <2>2, <2>3 DEF NoticeInv, BurstDetected
  <2>8. CASE byte_done
    <3>1. pc = "bit" /\ pc' = "byte" /\ i' = i + 1 /\ j = 8 /\ crc' = crc
      BY <2>8 DEF byte_done
    <3>2. Position' = Position /\ ReadUpTo' = ReadUpTo
      BY <3>1, <2>1, SMT DEF Position, ReadUpTo
    <3>3. Ahead(Position, ReadUpTo)' = Ahead(Position, ReadUpTo)
      BY <3>1, <3>2, <2>2 DEF Ahead
    <3> QED  BY <3>1, <3>2, <3>3, <2>2, <2>3 DEF NoticeInv, BurstDetected, Noticed
  <2>9. CASE return
    <3> DEFINE Stored == {b \in Bits : 8 * block.length + b \in damage}
    <3>1. /\ pc = "byte" /\ pc' = "return" /\ i = block.length
          /\ crc'["set_crc"] = Xor(crc["set_crc"], CRC_FINAL_XOR_VALUE)
          /\ crc'["is_valid"] = Xor(crc["is_valid"], CRC_FINAL_XOR_VALUE)
      BY <2>9 DEF return, Call
    <3>2. is_valid' <=> Xor(crc["set_crc"], crc["is_valid"]) = Stored
      BY <3>1, <2>2 DEF is_valid, StoredCrc, Xor
    <3>3. damage = {} => is_valid'
      BY <3>2 DEF NoticeInv, Xor
    <3>4. damage # {} /\ WithinWord /\ InMemory => ~is_valid'
      <4> SUFFICES ASSUME damage # {}, WithinWord, InMemory PROVE ~is_valid'
        OBVIOUS
      <4>1. Noticed(Ahead(Position, ReadUpTo), Position)
        BY <3>1 DEF NoticeInv
      <4>2. Position \in Nat /\ Position = 8 * block.length /\ ReadUpTo = Position
        BY <3>1, <2>1, SMT DEF Position, ReadUpTo
      <4>3. Ahead(Position, ReadUpTo) # {}
        BY <4>1, <4>2, <2>1, NoticedAtEnd
      <4>4. Unread(damage, Position, ReadUpTo) = Stored
        BY <4>2, <2>1, SMT DEF Unread, InMemory, Bits
      <4> HIDE DEF Stored
      <4>5. Xor(Xor(crc["set_crc"], crc["is_valid"]), Stored) # {}
        BY <4>3, <4>4 DEF Ahead
      <4> QED  BY <4>5, <3>2 DEF Xor
    <3>5. damage = {} => crc'["set_crc"] = crc'["is_valid"]
      BY <3>1 DEF NoticeInv
    <3> QED  BY <3>1, <3>3, <3>4, <3>5, <2>2, <2>3 DEF NoticeInv, BurstDetected
  <2>10. CASE UNCHANGED vars
    BY <2>10 DEF vars, NoticeInv, BurstDetected, Noticed, Ahead, Position, ReadUpTo,
                 WithinWord, InMemory, is_valid, StoredCrc
  <2> QED  BY <2>5, <2>6, <2>7, <2>8, <2>9, <2>10 DEF Next
<1>3. NoticeInv => BurstDetected
  BY DEF NoticeInv
<1> QED  BY <1>1, <1>2, <1>3, CrcTypeCorrect, PTL DEF Spec
=============================================================================
