---------------------------- MODULE Conversions ------------------------------
(***************************************************************************)
(* Binary coded decimals and scaling (bb_conversions/_src/conversions.c),  *)
(* the order of the bytes of a number (bb_convert_endian), and strings of  *)
(* hexadecimal digits (bb_hex_string).  A word has MaxDigits nibbles of    *)
(* four bits, a number that is put into bytes four bytes of a smaller      *)
(* radix.  The bit operations of the code are written as the arithmetic    *)
(* they do.  A call is [word, digits], [number, bytes], [input, old_min,   *)
(* old_max, new_min, new_max] or [data, size, at, char]: data to convert,  *)
(* the size its reader passes, and a character to overwrite.               *)
(***************************************************************************)
EXTENDS CInt, FiniteSetsExt, Sequences, SequencesExt

CONSTANTS
  MaxDigits,  \* MAX_BCD_DIGITS_NUM, 8 in the code
  ByteRadix,  \* values of a byte, 256 in the code
  Radix,      \* of a hexadecimal digit, 16 in the code
  MaxBytes,   \* of the data in a string
  Other       \* a character that is no upper case digit

Words == 0 .. 16 ^ MaxDigits - 1

BCDCalls == [word : Words, digits : 0 .. MaxDigits + 1]

Nibble(word, n) == (word \div 16 ^ n) % 16

\* A num_digits out of range means all of them.
Digits(num_digits) == IF num_digits \in 1 .. MaxDigits THEN num_digits ELSE MaxDigits

\* BCD_To_Hex
BCD_To_Hex(word, num_digits) ==
  MapThenSumSet(LAMBDA n : Nibble(word, n) * 10 ^ n, 0 .. Digits(num_digits) - 1)

\* From limit on, all digits are nine.
Hex_To_BCD(value, num_digits) ==
  LET n == Digits(num_digits)
  IN  IF value >= 10 ^ n - 1
      THEN MapThenSumSet(LAMBDA i : 9 * 16 ^ i, 0 .. n - 1)
      ELSE MapThenSumSet(LAMBDA i : ((value % 10 ^ (i + 1)) \div 10 ^ i) * 16 ^ i, 0 .. n - 1)

\* Every nibble counts, whatever num_digits of the callers.
Is_BCD(word) == \A n \in 0 .. MaxDigits - 1 : Nibble(word, n) =< 9

\* The digits below the first that is not limit; all of them if there is none.
Carried(word, limit, num_digits) ==
  {n \in 0 .. Digits(num_digits) - 1 : \A i \in 0 .. n : Nibble(word, i) = limit}

\* UINT32_MAX for a word that is no BCD.
BCD_Increment(word, num_digits) ==
  LET carried == Carried(word, 9, num_digits)
      cleared == word - MapThenSumSet(LAMBDA n : 9 * 16 ^ n, carried)
  IN  IF ~ Is_BCD(word) THEN 16 ^ MaxDigits - 1
      ELSE IF Cardinality(carried) = Digits(num_digits) THEN cleared
      ELSE cleared + 16 ^ Cardinality(carried)

BCD_Decrement(word, num_digits) ==
  LET carried == Carried(word, 0, num_digits)
      filled  == word + MapThenSumSet(LAMBDA n : 9 * 16 ^ n, carried)
  IN  IF ~ Is_BCD(word) THEN 16 ^ MaxDigits - 1
      ELSE IF Cardinality(carried) = Digits(num_digits) THEN filled
      ELSE filled - 16 ^ Cardinality(carried)

Scale(c) ==
  LET old_range == ToInt(c.old_max - c.old_min)
  IN  Quot(ToInt(ToInt((c.input - c.old_min) * (c.new_max - c.new_min)) + Quot(old_range, 2)),
           old_range) + c.new_min

-----------------------------------------------------------------------------
(* convert_endian.c: the functions with a width in their name, for 2, 3 and *)
(* 4 bytes, are the Fixed ones.  Bytes that do not fit are lost.            *)
NumberCalls == [number : 0 .. ByteRadix ^ 4 - 1, bytes : 1 .. 4]

ByteOf(number, n) == (number \div ByteRadix ^ n) % ByteRadix

Util_Put_Big_Endian(src, num_bytes)    == [i \in 1 .. num_bytes |-> ByteOf(src, num_bytes - i)]
Util_Put_Little_Endian(src, num_bytes) == [i \in 1 .. num_bytes |-> ByteOf(src, i - 1)]

Util_Get_Big_Endian(src) ==
  MapThenSumSet(LAMBDA i : src[i] * ByteRadix ^ (Len(src) - i), DOMAIN src)
Util_Get_Little_Endian(src) ==
  MapThenSumSet(LAMBDA i : src[i] * ByteRadix ^ (i - 1), DOMAIN src)

Fixed_Get_Big_Endian(src)    == FoldLeft(LAMBDA v, byte : v * ByteRadix + byte, 0, src)
Fixed_Get_Little_Endian(src) == FoldRight(LAMBDA byte, v : v * ByteRadix + byte, src, 0)

AllBytes(src) == <<ByteOf(src, 0), ByteOf(src, 1), ByteOf(src, 2), ByteOf(src, 3)>>
Fixed_Put_Little_Endian(src, width) == SubSeq(AllBytes(src), 1, width)
Fixed_Put_Big_Endian(src, width)    == SubSeq(Reverse(AllBytes(src)), 5 - width, 4)

-----------------------------------------------------------------------------
(* hex_string.c: blocks of data as strings of digits with a checksum.  A    *)
(* byte has two digits of a radix that is sixteen in the code.  A string is *)
(* a sequence of characters; a character is a digit or Other.               *)
Byte  == Radix * Radix
Chars == (0 .. Radix - 1) \union {Other}

HexCalls == UNION {[data : [1 .. n -> 0 .. Byte - 1], size : -(MaxBytes + 2) .. MaxBytes,
                    at : 0 .. 2 * n + 2, char : Chars] : n \in 0 .. MaxBytes}

Bin_To_Hex(byte) == <<byte \div Radix, byte % Radix>>

\* An invalid digit counts as zero, and is an error.
Value(char) == IF char = Other THEN 0 ELSE char
Hex_To_Bin(hi, lo) == (Value(hi) * Radix) + Value(lo)

SumOf(data) == FoldLeft(LAMBDA sum, byte : (sum + byte) % Byte, 0, data)

\* The last byte is the complement of the sum.
Bin_To_Hex_String(data) ==
  FlattenSeq([i \in DOMAIN data |-> Bin_To_Hex(data[i])]) \o Bin_To_Hex(Byte - 1 - SumOf(data))

Hex_String_Size(bin_size) == bin_size * 2 + 2

\* A size below zero is minus that of a buffer: the string may be shorter.
Fits(str, size) ==
  IF size >= 0 THEN Hex_String_Size(size) = Len(str) ELSE - Hex_String_Size(size) >= Len(str)

\* The checksum makes the sum complete and no digit is wrong.
Valid(str) ==
  /\ SumOf([i \in 1 .. Len(str) \div 2 |-> Hex_To_Bin(str[2 * i - 1], str[2 * i])]) = Byte - 1
  /\ Other \notin Range(str)

\* [valid, data]: what it returns, and what the buffer holds. Strings have their checksum.
Hex_String_To_Bin(str, size) ==
  IF ~ Fits(str, size) THEN [valid |-> FALSE, data |-> <<>>]
  ELSE [valid |-> Valid(str),
        data  |-> [i \in 1 .. (Len(str) - 2) \div 2 |-> Hex_To_Bin(str[2 * i - 1], str[2 * i])]]

-----------------------------------------------------------------------------
(* CodesAgree: a value is read back from its code, or the largest one that  *)
(* the digits can hold; the code is always one of decimals.                 *)
CodesAgree(c) ==
  LET bcd == Hex_To_BCD(c.word, c.digits)
      top == 10 ^ Digits(c.digits) - 1
  IN  /\ Is_BCD(bcd)
      /\ BCD_To_Hex(bcd, c.digits) = IF c.word > top THEN top ELSE c.word

(* StepsInDecimal: an increment counts the digits up by one, modulo a power *)
(* of ten, leaves the digits above alone, and a decrement takes it back.    *)
StepsInDecimal(c) ==
  Is_BCD(c.word) =>
    LET n    == Digits(c.digits)
        next == BCD_Increment(c.word, c.digits)
    IN  /\ Is_BCD(next)
        /\ BCD_To_Hex(next, n) = (BCD_To_Hex(c.word, n) + 1) % 10 ^ n
        /\ next \div 16 ^ n = c.word \div 16 ^ n
        /\ BCD_Decrement(next, c.digits) = c.word

(* BytesReadBack: a number is read back from its bytes as far as they hold  *)
(* it, in either order, whichever functions wrote and read them; the orders *)
(* are each other's reverse.                                                *)
BytesReadBack(c) ==
  LET big    == Util_Put_Big_Endian(c.number, c.bytes)
      little == Util_Put_Little_Endian(c.number, c.bytes)
      held   == c.number % ByteRadix ^ c.bytes
  IN  /\ Util_Get_Big_Endian(big) = held /\ Util_Get_Little_Endian(little) = held
      /\ Fixed_Get_Big_Endian(big) = held /\ Fixed_Get_Little_Endian(little) = held
      /\ big = Fixed_Put_Big_Endian(c.number, c.bytes)
      /\ little = Fixed_Put_Little_Endian(c.number, c.bytes)
      /\ big = Reverse(little)

(* ScalesToNearest: a value of an old range goes to the new value nearest   *)
(* to its place, the ends of the range to the ends.                         *)
ScalesToNearest(c) ==
  c.old_min < c.old_max /\ c.new_min =< c.new_max /\ c.input \in c.old_min .. c.old_max
    /\ (c.old_max - c.old_min) * (c.new_max - c.new_min + 1) =< IntMax =>
       LET range == c.old_max - c.old_min
           exact == ((c.input - c.old_min) * (c.new_max - c.new_min)) + (c.new_min * range)
       IN  /\ Scale(c) \in c.new_min .. c.new_max
           /\ 2 * Magnitude((Scale(c) * range) - exact) =< range

(* ReadsBack: a string of data is read back as these data, if the size that *)
(* the reader gave is theirs or a sufficient one, and never is more data    *)
(* put into the buffer than the reader has room for.                        *)
ReadsBack(c) ==
  LET n    == Len(c.data)
      room == IF c.size < 0 THEN - c.size ELSE c.size
      read == Hex_String_To_Bin(Bin_To_Hex_String(c.data), c.size)
  IN  /\ c.size = n \/ (c.size < 0 /\ room >= n + 2) => read = [valid |-> TRUE, data |-> c.data]
      /\ Len(read.data) =< room

(* FindsWrongDigit: a string in which one character is another is refused,  *)
(* in the data and in the checksum.                                         *)
FindsWrongDigit(c) ==
  LET str == Bin_To_Hex_String(c.data)
  IN  c.at \in DOMAIN str /\ str[c.at] # c.char =>
        ~ Hex_String_To_Bin([str EXCEPT ![c.at] = c.char], Len(c.data)).valid
=============================================================================
