---------------------------- MODULE ByteDataBuffer ----------------------------
(***************************************************************************)
(* The byte data buffer of bb_byte_data_buffer: typed values and strings   *)
(* are written one after the other into a buffer that grows by blocks, and *)
(* read back in the same order.  A byte is a digit of base Base here, so   *)
(* that a value of w bytes has few cases; the order of the digits is the   *)
(* network order of the code.                                              *)
(***************************************************************************)
EXTENDS Integers, Sequences, SequencesExt

CONSTANTS
  Base,       \* values of a byte
  Widths,     \* sizes of the integers that are written (1, 2, 4, 8 bytes)
  Block,      \* ALLOCATION_BLOCK_SIZE
  MaxLength,  \* bound: bytes of data
  MaxString,  \* bound: characters of a string
  Reserves    \* lengths asked of BDB_Guarantee_Min_Buffer_Length

VARIABLE bdb  \* BDB_T

vars == bdb

Byte == 0 .. Base - 1
Power(w) == Base ^ w

(* mBufLen, the data (mBufDataLen is its length), mBufPos, mWritable; lost  *)
(* says that an allocation failed and the buffer is gone.                   *)
Buffer(size, data, writable) ==
  [size |-> size, data |-> data, pos |-> 0, writable |-> writable, lost |-> FALSE]

\* Calculate_Block_Count
Blocks(n) == ((n + Block) - 1) \div Block

\* Check_Buffer
Grown(b, n) == IF b.size >= n THEN b ELSE [b EXCEPT !.size = Blocks(n) * Block]

Left(b) == Len(b.data) - b.pos

-----------------------------------------------------------------------------
\* Writing.

(* All writes: the buffer grows, the bytes replace what is at the position, *)
(* and the data gets longer only if they reach beyond its end.              *)
Put(b, bytes) ==
  IF ~ b.writable THEN b
  ELSE [Grown(b, b.pos + Len(bytes)) EXCEPT
          !.data = SubSeq(@, 1, b.pos) \o bytes
                   \o SubSeq(@, b.pos + Len(bytes) + 1, Len(@)),
          !.pos = @ + Len(bytes)]

\* BDB_Write_U8 ... BDB_Write_I64: most significant byte first.
Digits(v, w) == [i \in 1 .. w |-> ((v % Power(w)) \div Power(w - i)) % Base]

WriteInt(b, v, w) == Put(b, Digits(v, w))

\* BDB_Write_Full_String: the length in four bytes, the characters, a zero.
WriteString(b, str, max) ==
  LET s == SubSeq(str, 1, IF Len(str) < max THEN Len(str) ELSE max)
  IN  Put(Put(WriteInt(b, Len(s), 4), s), <<0>>)

-----------------------------------------------------------------------------
\* Reading; a read that would pass the end of the data returns nothing.

\* BDB_Read_Bytes, _P_Bytes, _Chars
Take(b, n) == IF n <= Left(b)
              THEN [b |-> [b EXCEPT !.pos = @ + n],
                    bytes |-> SubSeq(b.data, b.pos + 1, b.pos + n)]
              ELSE [b |-> b, bytes |-> << >>]

Number(bytes) ==
  LET upto[i \in Nat] == IF i = 0 THEN 0 ELSE Base * upto[i - 1] + bytes[i]
  IN  upto[Len(bytes)]

\* BDB_Read_U8 ... BDB_Read_U64
ReadUnsigned(b, w) ==
  LET t == Take(b, w) IN [b |-> t.b, value |-> Number(t.bytes)]

\* BDB_Read_I8 ... BDB_Read_I64
ReadSigned(b, w) ==
  LET r == ReadUnsigned(b, w)
  IN  IF 2 * r.value >= Power(w) THEN [r EXCEPT !.value = @ - Power(w)] ELSE r

(* BDB_Read_String into max characters: what does not fit is skipped, and a *)
(* skip is not compared with the end of the data.                           *)
ReadString(b, max) ==
  LET len == ReadUnsigned(b, 4)
      short == Take(len.b, max - 1)
      whole == Take(len.b, len.value + 1)
  IN  IF max = 0 THEN [b |-> [len.b EXCEPT !.pos = @ + len.value + 1], str |-> << >>]
      ELSE IF len.value >= max
      THEN [b |-> [short.b EXCEPT !.pos = @ + (len.value - (max - 1)) + 1],
            str |-> short.bytes]
      ELSE [b |-> whole.b, str |-> SubSeq(whole.bytes, 1, len.value)]

\* BDB_Read_P_String: the check leaves the terminator out.
ReadPString(b) ==
  LET len == ReadUnsigned(b, 4)
  IN  IF len.value > Left(len.b) THEN [b |-> len.b, str |-> << >>]
      ELSE [b |-> [len.b EXCEPT !.pos = @ + len.value + 1],
            str |-> SubSeq(b.data, len.b.pos + 1, len.b.pos + len.value)]

\* BDB_Read_Alloc_String
ReadAllocString(b) ==
  LET len == ReadUnsigned(b, 4)
      t == Take(len.b, len.value + 1)
  IN  [b |-> t.b, str |-> SubSeq(t.bytes, 1, Len(t.bytes) - 1)]

-----------------------------------------------------------------------------
Strings == UNION {[1 .. n -> Byte \ {0}] : n \in 0 .. MaxString}

\* BDB_Init, BDB_Populate with the bytes of a message that was received.
Init == \/ bdb = Buffer(Block, << >>, TRUE)
        \/ \E str \in Strings :
             LET b == WriteString(Buffer(Block, << >>, TRUE), str, MaxString)
             IN  bdb = Buffer(Len(b.data), b.data, FALSE)

Room(n) == bdb.pos + n <= MaxLength

(* A string is read where one was written: the length in front of it can be *)
(* believed.                                                                *)
StringAhead == /\ Left(bdb) >= 4
               /\ LET n == ReadUnsigned(bdb, 4).value
                  IN  /\ n + 5 <= Left(bdb)
                      /\ bdb.data[bdb.pos + 4 + n + 1] = 0

Usable == ~ bdb.lost

Next ==
  /\ Usable
  /\ \/ \E w \in Widths : Room(w) /\ \E v \in {0, 1, Power(w) - 2, Power(w) - 1} :
          bdb' = WriteInt(bdb, v, w)
     \/ \E s \in Strings : Room(Len(s) + 5) /\ bdb' = WriteString(bdb, s, MaxString)
     \/ \E w \in Widths : bdb' = ReadUnsigned(bdb, w).b
     \/ /\ StringAhead
        /\ \/ \E max \in 0 .. MaxString : bdb' = ReadString(bdb, max).b
           \/ bdb' = ReadPString(bdb).b
           \/ bdb' = ReadAllocString(bdb).b
     \/ \E p \in 0 .. Len(bdb.data) : bdb' = [bdb EXCEPT !.pos = p]    \* BDB_Seek
     \/ bdb' = [bdb EXCEPT !.pos = 0]                                  \* BDB_Rewind
     \/ /\ bdb.writable
        /\ \/ bdb' = [bdb EXCEPT !.pos = 0, !.data = << >>]            \* BDB_Erase
           \/ \E n \in Reserves : bdb' = Grown(bdb, n)
           \/ \E s \in Strings : bdb' = [Grown(bdb, Len(s)) EXCEPT     \* Copy_Buffer_Data
                                           !.pos = 0, !.data = s]
           \/ /\ bdb.size < MaxLength       \* realloc() fails in Check_Buffer
              /\ bdb' = [bdb EXCEPT !.size = 0, !.lost = TRUE]

Spec == Init /\ [][Next]_vars

-----------------------------------------------------------------------------
(* DataFits: the data never ends beyond the memory of the buffer, nor the   *)
(* position beyond the data.                                                *)
DataFits == Usable => Len(bdb.data) <= bdb.size /\ bdb.pos <= Len(bdb.data)

(* ReadsWhatWasWritten: from any state of the buffer, an integer of any     *)
(* width that is written is read back, signed and unsigned, from the place  *)
(* where it was written; the position is then behind it and the bytes on    *)
(* both sides are as they were.                                             *)
Back(b) == [b EXCEPT !.pos = bdb.pos]

Untouched(b) ==
  /\ SubSeq(b.data, 1, bdb.pos) = SubSeq(bdb.data, 1, bdb.pos)
  /\ SubSeq(b.data, b.pos + 1, Len(b.data))
       = SubSeq(bdb.data, b.pos + 1, Len(bdb.data))

ReadsWhatWasWritten ==
  Usable /\ bdb.writable =>
    \A w \in Widths \ {8} : \A v \in - (Power(w) \div 2) .. (Power(w) - 1) :
      LET b == WriteInt(bdb, v, w)
          u == ReadUnsigned(Back(b), w)
          i == ReadSigned(Back(b), w)
      IN  /\ u = [b |-> b, value |-> v % Power(w)] /\ Untouched(b)
          /\ v < Power(w) \div 2 => i = [b |-> b, value |-> v]

(* StringsKeepStep: a string that is written is read back by each of the    *)
(* three readers, cut to the room the caller has; whatever that room, all   *)
(* leave the position behind the string, so that the next item is found.    *)
StringsKeepStep ==
  Usable /\ bdb.writable =>
    \A s \in Strings, max \in 0 .. MaxString :
      LET b == WriteString(bdb, s, MaxString)
          r == ReadString(Back(b), max)
      IN  /\ r.b = b
          /\ r.str = SubSeq(s, 1, IF Len(s) < max THEN Len(s)
                                  ELSE IF max = 0 THEN 0 ELSE max - 1)
          /\ ReadPString(Back(b)) = [b |-> b, str |-> s]
          /\ ReadAllocString(Back(b)) = [b |-> b, str |-> s]
          /\ Untouched(b)
=============================================================================
