------------------------------ MODULE BitArray -------------------------------
(***************************************************************************)
(* Packed arrays of bits (bb_bit_array/_src), numbered within a byte from  *)
(* its least or from its most significant bit.  A byte is the set of the   *)
(* weights (exponents of two) of its bits that are set.  The bits of the   *)
(* last byte past num_bits are memory that nobody has set to anything.     *)
(***************************************************************************)
EXTENDS Integers

CONSTANTS
  ByteBits,  \* bits of a byte, 8 in the code
  Bytes      \* bytes of the array

VARIABLE bits  \* [byte, numBits, found]: the array, its size, the last result

vars == bits

Numberings == {"LSB", "MSB"}

\* lsb_bit_mask, msb_bit_mask
Mask(numbering, offset) ==
  IF numbering = "LSB" THEN offset % ByteBits ELSE ByteBits - 1 - (offset % ByteBits)

Bit_Is_True(numbering, offset) ==
  Mask(numbering, offset) \in bits.byte[offset \div ByteBits]

Changed(numbering, offset, set) ==
  LET mask == {Mask(numbering, offset)}
  IN  [bits EXCEPT !.found = <<"none">>,
                   !.byte[offset \div ByteBits] = IF set THEN @ \union mask ELSE @ \ mask]

Init == bits \in [byte : [0 .. Bytes - 1 -> SUBSET (0 .. ByteBits - 1)],
                  numBits : ((Bytes - 1) * ByteBits + 1) .. (Bytes * ByteBits),
                  found : {<<"none">>}]

Bit_Set(numbering, offset, set) == bits' = Changed(numbering, offset, set)

Bit_Toggle(numbering, offset) ==
  bits' = Changed(numbering, offset, ~ Bit_Is_True(numbering, offset))

\* The search runs over whole bytes, past num_bits too.
Searched(numbering) == {o \in 0 .. Bytes * ByteBits - 1 : Bit_Is_True(numbering, o)}

\* The array and the result of a search; the bit that is consumed may be one
\* past num_bits, for which the result is -1.
Found(numbering, consume) ==
  LET set   == Searched(numbering)
      first == CHOOSE o \in set : \A p \in set : o =< p
  IN  IF set = {} THEN [bits EXCEPT !.found = <<"first", numbering, -1>>]
      ELSE [IF consume THEN Changed(numbering, first, FALSE) ELSE bits
              EXCEPT !.found = <<"first", numbering, IF first < bits.numBits THEN first ELSE -1>>]

Bit_Find_First(numbering, consume) == bits' = Found(numbering, consume)

\* The offset after current in the direction, starting over at the other end.
Advance(current, up) ==
  LET next == IF up THEN current + 1 ELSE current - 1
  IN  CASE next < 0              -> bits.numBits - 1
        [] next >= bits.numBits  -> 0
        [] OTHER                 -> next

\* The n-th bit tried; the last of them, number num_bits, counts as no result.
NextBit(numbering, current, up) ==
  LET tried[n \in 0 .. bits.numBits] == IF n = 0 THEN current ELSE Advance(tried[n - 1], up)
      hits  == {n \in 1 .. bits.numBits - 1 : Bit_Is_True(numbering, tried[n])}
  IN  IF hits = {} THEN -1 ELSE tried[CHOOSE n \in hits : \A h \in hits : n =< h]

Bit_Find_Next_Bit(numbering, current, up) ==
  bits' = [bits EXCEPT !.found = <<"next", numbering, NextBit(numbering, current, up), current, up>>]

Next ==
  \E numbering \in Numberings :
    \/ \E offset \in 0 .. bits.numBits - 1 :
         \/ \E set \in BOOLEAN : Bit_Set(numbering, offset, set)
         \/ Bit_Toggle(numbering, offset)
         \/ \E up \in BOOLEAN : Bit_Find_Next_Bit(numbering, offset, up)
    \/ \E consume \in BOOLEAN : Bit_Find_First(numbering, consume)

Spec == Init /\ [][Next]_vars

-----------------------------------------------------------------------------
\* The members of an array as one number each, by the documented layout of the bytes.
Members(array, numbering) ==
  {o \in 0 .. array.numBits - 1 :
     (IF numbering = "LSB" THEN o % ByteBits ELSE ByteBits - 1 - (o % ByteBits))
        \in array.byte[o \div ByteBits]}

(* FirstIsLeast: a search finds the least member, or that there is none; it *)
(* consumes that member and no other, whatever the bits past the end hold.  *)
FirstIsLeast ==
  \A numbering \in Numberings, consume \in BOOLEAN :
    LET members == Members(bits, numbering)
        after   == Found(numbering, consume)
        result  == after.found[3]
    IN  /\ IF members = {} THEN result = -1
           ELSE result \in members /\ \A o \in members : result =< o
        /\ Members(after, numbering) = members \ (IF consume THEN {result} ELSE {})

(* NextIsNearest: the search from a bit finds the nearest other member in   *)
(* the direction asked for, across the end of the array.                    *)
NextIsNearest ==
  bits.found[1] = "next" =>
    LET Ahead(o) == IF bits.found[5] THEN (o - bits.found[4]) % bits.numBits
                                     ELSE (bits.found[4] - o) % bits.numBits
        others   == Members(bits, bits.found[2]) \ {bits.found[4]}
        result   == bits.found[3]
    IN  IF others = {} THEN result = -1
        ELSE result \in others /\ \A o \in others : Ahead(result) =< Ahead(o)
=============================================================================
