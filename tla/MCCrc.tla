------------------------------- MODULE MCCrc --------------------------------
(* The blocks of the tests in crc.rs, and damage to them                   *)
EXTENDS Crc, Sequences

(* The bits that are one in a sequence of bytes, and in one written as hex *)
(* digits, the first digit first                                           *)
OneBits(n, width) == {b \in 0 .. width - 1 : (n \div 2^b) % 2 = 1}
BitsOf(bytes) ==
  UNION {{8 * (k - 1) + b : b \in OneBits(bytes[k], 8)} : k \in 1 .. Len(bytes)}
Word(high, low) == OneBits(low, 16) \cup {b + 16 : b \in OneBits(high, 16)}

Block(bytes) == [null |-> FALSE, length |-> Len(bytes), bits |-> BitsOf(bytes)]
Null == [null |-> TRUE, length |-> 0, bits |-> {}]
Aengelke == Block(<<97, 101, 110, 103, 101, 108, 107, 101>>)
Counting == Block(<<0, 1, 2, 3>>)
Amogus == Block(<<97, 109, 111, 103, 117, 115>>)
Filled(bits) == [null |-> FALSE, length |-> SizeWithoutCrc, bits |-> bits]

MCTested ==
  {[block |-> Null, crc |-> {}],
   [block |-> Block(<<>>), crc |-> {}],
   [block |-> Aengelke, crc |-> Word(30985, 59332)],
   [block |-> Counting, crc |-> Word(55603, 6819)],
   [block |-> Amogus, crc |-> Word(17295, 23216)]}

(* Every single bit, whole words, and their two ends, of the short blocks; *)
(* a word at the border to the CRC of the long ones                        *)
Damages(b) ==
  LET n == 8 * b.length
  IN {{}} \cup {{s} : s \in 0 .. n + 31}
       \cup {s .. s + 31 : s \in 0 .. n}
       \cup {{s, s + 31} : s \in 0 .. n}

MCCases ==
  UNION {[block : {b}, damage : Damages(b)] :
           b \in {Null, Block(<<>>), Counting, Amogus}}
    \cup [block : {Aengelke}, damage : {{}, {0}, 50 .. 81}]
    \cup [block : {Filled({}), Filled(Erased)}, damage : {{}, {7}, 465 .. 496}]
=============================================================================
