------------------------------- MODULE Strings -------------------------------
(***************************************************************************)
(* Strings of characters: copying into buffers of a limited size, words    *)
(* and comparison (bb_string_resource/_src/string_resource.c), and their   *)
(* encodings (bb_cpp_char_utils/_src/char_utils.cpp and                    *)
(* bb_convert_8859_1_to_utf8).  A string in memory is a sequence that ends *)
(* with NUL, a buffer a sequence of all its characters.  Encoded strings   *)
(* are sequences of bytes or of wide characters (of 32 bits), without the  *)
(* NUL.                                                                    *)
(***************************************************************************)
EXTENDS Integers, Sequences, SequencesExt, FiniteSetsExt

CONSTANTS
  Blank, Small, Capital, \* characters; the second and the third are one letter
  MaxString,             \* bound: length of a source string
  Buffers,               \* sizes of destinations
  WideChars,             \* wide characters, the illegal ones among them
  Bytes                  \* bytes of an encoded string; not 0

NUL  == 0
Text == {Blank, Small, Capital}

StringsOf(chars, max) == UNION {[1 .. n -> chars] : n \in 0 .. max}
Stored(str) == Append(str, NUL)

\* str_char_is_blank of the caller; NUL has to be blank: Length_Next_Word does
\* not look for the end.
IsBlank(char) == char \in {Blank, NUL}

LastBuffer == Max(Buffers)

\* One cell behind the largest buffer is seen.
CopyCalls == [dest : [1 .. LastBuffer + 1 -> {NUL, Small}], size : Buffers,
              src : StringsOf({Blank, Capital}, MaxString), max_chars : 0 .. MaxString + 1]
SplitCalls == [src : StringsOf({Blank, Small}, MaxString + 3), size : Buffers]
CompareCalls == [s1 : StringsOf(Text, MaxString - 1), s2 : StringsOf(Text, MaxString - 1)]
ExchangeCalls == [at1 : 1 .. 6, at2 : 1 .. 6, n : 0 .. 3]
WideCalls == [src : StringsOf(WideChars, 2), size : 0 .. 10]
ByteCalls == [src : StringsOf(Bytes, 4), size : 0 .. 6]

-----------------------------------------------------------------------------
(* string_resource.c *)

Safe_Strlen(s, max_size) ==
  LET ends == {n \in 0 .. max_size - 1 : n < Len(s) /\ s[n + 1] = NUL}
  IN  IF ends = {} THEN max_size ELSE Min(ends)

\* dest with the characters at the offset
Written(dest, offset, chars) ==
  [i \in DOMAIN dest |-> IF i - offset \in DOMAIN chars THEN chars[i - offset] ELSE dest[i]]

\* strncpy stops behind the NUL of src and fills with NUL.
Strncpy(src, n) == [i \in 1 .. n |-> IF i <= Safe_Strlen(src, n) THEN src[i] ELSE NUL]

CopiedAt(dest, offset, src, size) ==
  LET length == Safe_Strlen(src, size)
  IN  IF size = 0 THEN dest
      ELSE Written(dest, offset,
                   Stored(Strncpy(src, IF size > length THEN length ELSE size - 1)))

Str_Full_Copy(dest, src, size) == CopiedAt(dest, 0, src, size)

Str_Append(dest, length, size, src, src_length) ==
  CopiedAt(dest, length, src,
           IF length + src_length >= size THEN size - length ELSE src_length + 1)

\* A destination without a NUL gets one.
Concatenated(dest, src, src_length, size) ==
  LET length == Safe_Strlen(dest, size)
  IN  IF size = 0 THEN dest
      ELSE IF length >= size THEN [dest EXCEPT ![size] = NUL]
      ELSE Str_Append(dest, length, size, src, src_length)

Str_Full_Concat(dest, src, size) == Concatenated(dest, src, Len(src) - 1, size)
Str_Partial_Concat(dest, src, max_chars, size) ==
  Concatenated(dest, src, Safe_Strlen(src, max_chars), size)

Str_Partial_Copy(dest, src, max_chars, size) ==
  IF size = 0 THEN dest
  ELSE Written(dest, 0, Stored(Strncpy(src, IF size > max_chars THEN max_chars ELSE size - 1)))

\* Positions in a stored string.
Start_Of_Next_Word(src, at) ==
  Min({i \in at .. Len(src) : i = Len(src) \/ ~ IsBlank(src[i])})
Length_Next_Word(src, at, max) ==
  Max({n \in 0 .. max : at + n <= Len(src) /\ \A i \in at .. at + n - 1 : ~ IsBlank(src[i])})

\* [text, at]: the words collected so far, and where the next one starts
RECURSIVE Words(_, _, _, _)
Words(src, at, text, size) ==
  LET length == Length_Next_Word(src, at, size)
      room   == size - Len(text)
      after  == at + length
      space  == IF room > length /\ IsBlank(src[after]) THEN <<Blank>> ELSE <<>>
  IN  IF length = 0 \/ length > room THEN [text |-> text, at |-> at]
      ELSE Words(src, Start_Of_Next_Word(src, after),
                 text \o SubSeq(src, at, after - 1) \o space, size)

\* With break_on_word; without it the code leaves an empty string.
Str_Get_Sub_String(src, size) ==
  LET w == Words(src, Start_Of_Next_Word(src, 1), <<>>, size)
  IN  [w EXCEPT !.text = IF @ # <<>> /\ IsBlank(Last(@)) THEN Front(@) ELSE @]

Str_Is_Blank_String(src) == src[Start_Of_Next_Word(src, 1)] = NUL

Lower(char) == IF char = Capital THEN Small ELSE char
Sign(n) == IF n < 0 THEN -1 ELSE IF n > 0 THEN 1 ELSE 0

\* The last position looked at is that of the NUL of the shorter one.
util_stricmp(s1, s2) ==
  LET least   == Min({Len(s1), Len(s2)})
      differ  == {i \in 1 .. least : Lower(s1[i]) # Lower(s2[i])}
      first   == Min(differ)
  IN  IF differ = {} THEN Sign(Len(s1) - Len(s2))
      ELSE Sign(Lower(s1[first]) - Lower(s2[first]))

\* Areas that overlap stay as they are.
memexch(memory, at1, at2, n) ==
  LET low  == Min({at1, at2})
      high == Max({at1, at2})
  IN  IF low + n > high THEN memory
      ELSE [i \in DOMAIN memory |->
              CASE i \in low .. low + n - 1   -> memory[i + high - low]
                [] i \in high .. high + n - 1 -> memory[i - (high - low)]
                [] OTHER                      -> memory[i]]

-----------------------------------------------------------------------------
(* char_utils.cpp *)

MAX_UTF8_CHAR == \h10FFFF

\* The bytes that the room in a buffer is compared with; an illegal character counts.
Room(wc) == CASE wc <= \h7F -> 1 [] wc <= \h7FF -> 2 [] wc <= \hFFFF -> 3 [] OTHER -> 4

\* The last count bytes of a character have six bits each.
Tail6(wc, count) == [i \in 1 .. count |-> \h80 + ((wc \div (64 ^ (count - i))) % 64)]

Encoded(wc) ==
  CASE wc > MAX_UTF8_CHAR -> <<>>
    [] wc <= \h7F -> <<wc>>
    [] OTHER -> LET n == Room(wc)
                IN  <<(CASE n = 2 -> \hC0 [] n = 3 -> \hE0 [] n = 4 -> \hF0)
                      + (wc \div (64 ^ (n - 1)))>> \o Tail6(wc, n - 1)

UTIL_Append_Wchar_To_UTF8(src) == FlattenSeq([i \in DOMAIN src |-> Encoded(src[i])])

UTIL_Calculate_UTF8_Length(src) ==
  FoldLeft(LAMBDA sum, wc : sum + (IF wc > MAX_UTF8_CHAR THEN 0 ELSE Room(wc)), 0, src)

\* Into a buffer: it ends with the first character that does not fit with a NUL.
UTIL_Convert_Wchar_To_UTF8(src, dst_length) ==
  LET next(d, wc) ==
        IF d.full \/ dst_length - Len(d.bytes) <= Room(wc) THEN [d EXCEPT !.full = TRUE]
        ELSE [d EXCEPT !.bytes = @ \o Encoded(wc)]
  IN  FoldLeft(next, [bytes |-> <<>>, full |-> FALSE], src).bytes

\* The low six bits of the bytes behind the first one
Joined(high, rest) == FoldLeft(LAMBDA v, b : (v * 64) + (b % 64), high, rest)

\* Any byte up to DF that is no single character is the first one of two.
RECURSIVE UTIL_Append_UTF8_To_Wstring(_)
UTIL_Append_UTF8_To_Wstring(src) ==
  IF src = <<>> THEN <<>>
  ELSE LET b == Head(src)
           n == CASE b <= \h7F -> 1 [] b <= \hDF -> 2 [] b <= \hEF -> 3 [] OTHER -> 4
           high == CASE n = 1 -> b [] n = 2 -> b % 32 [] n = 3 -> b % 16 [] n = 4 -> b % 8
       IN  IF n > Len(src) THEN <<>>
           ELSE <<Joined(high, SubSeq(src, 2, n))>>
                  \o UTIL_Append_UTF8_To_Wstring(SubSeq(src, n + 1, Len(src)))

\* The number of bytes that the first one announces; 0 if it cannot be a first one.
Announced(b) == CASE b < \h80 -> 1 [] b \div 32 = 6 -> 2 [] b \div 16 = 14 -> 3
                  [] b \div 8 = 30 -> 4 [] OTHER -> 0

\* [ok, wide]: at the end an incomplete character is dropped, whatever it is made of.
RECURSIVE CharToWide(_)
CharToWide(src) ==
  IF src = <<>> THEN [ok |-> TRUE, wide |-> <<>>]
  ELSE LET n    == Announced(Head(src))
           rest == SubSeq(src, 2, n)
           high == CASE n <= 1 -> Head(src) [] n = 2 -> Head(src) % 32
                     [] n = 3 -> Head(src) % 16 [] n = 4 -> Head(src) % 8
       IN  IF n > Len(src) THEN [ok |-> TRUE, wide |-> <<>>]
           ELSE IF n = 0 \/ \E i \in DOMAIN rest : rest[i] \div 64 # 2
           THEN [ok |-> FALSE, wide |-> <<>>]
           ELSE LET others == CharToWide(SubSeq(src, n + 1, Len(src)))
                IN  [others EXCEPT !.wide = <<Joined(high, rest)>> \o @]

\* What is no UTF-8 is taken for Latin 1.
UTIL_C_String_To_Wstring(src) ==
  LET decoded == CharToWide(src) IN IF decoded.ok THEN decoded.wide ELSE src

Convert_8859_1_To_UTF8(src, size) ==
  LET next(d, b) ==
        LET code == IF b < \h80 THEN <<b>> ELSE <<\hC0 + (b \div 64), \h80 + (b % 64)>>
        IN  IF d.full \/ Len(d.bytes) + Len(code) >= size THEN [d EXCEPT !.full = TRUE]
            ELSE [d EXCEPT !.bytes = @ \o code]
  IN  FoldLeft(next, [bytes |-> <<>>, full |-> FALSE], src).bytes

-----------------------------------------------------------------------------
(* CopyFits: a string of dest_size characters receives the longest part of  *)
(* what it should hold that fits in with a NUL, and nothing is written      *)
(* behind dest_size, whatever the buffer held before (string_resource.h).   *)
CopyFits(c) ==
  LET src    == Stored(c.src)
      some   == SubSeq(c.src, 1, Min({c.max_chars, Len(c.src)}))
      before == SubSeq(c.dest, 1, Safe_Strlen(c.dest, c.size))
      Holds(dest, wanted) ==
        LET held == SubSeq(wanted, 1, Min({Len(wanted), c.size - 1}))
        IN  /\ c.size > 0 => SubSeq(dest, 1, Len(held) + 1) = Stored(held)
            /\ \A i \in c.size + 1 .. Len(dest) : dest[i] = c.dest[i]
  IN  /\ Holds(Str_Full_Copy(c.dest, src, c.size), c.src)
      /\ Holds(Str_Partial_Copy(c.dest, src, c.max_chars, c.size), some)
      /\ Holds(Str_Full_Concat(c.dest, src, c.size), before \o c.src)
      /\ Holds(Str_Partial_Concat(c.dest, src, c.max_chars, c.size), before \o some)

\* A text with one blank between two words
Normal(text) ==
  LET word == {i \in DOMAIN text : text[i] # Blank}
      kept == word \cup {i \in DOMAIN text : /\ i - 1 \in word
                                             /\ \E j \in word : j > i}
      order == SetToSortSeq(kept, <)
  IN  [i \in DOMAIN order |-> text[order[i]]]

(* SplitsAtWords: no word is lost, doubled or broken between the part that  *)
(* is cut off and the rest, unless one is longer than the part may be; the  *)
(* part is as long as it can be, and a text that is not blank gets shorter. *)
SplitsAtWords(c) ==
  LET src  == Stored(c.src)
      cut  == Str_Get_Sub_String(src, c.size)
      rest == SubSeq(c.src, cut.at, Len(c.src))
  IN  /\ Len(cut.text) <= c.size
      /\ Str_Is_Blank_String(src) => cut.text = <<>> /\ rest = <<>>
      /\ ~ Str_Is_Blank_String(src) /\ c.size > 0 => Len(rest) < Len(c.src)
      /\ rest # <<>> /\ c.size > 0 =>
           Len(cut.text) + 1 + Length_Next_Word(src, cut.at, c.size) > c.size
      /\ (\A i \in 1 .. Len(src) : Length_Next_Word(src, i, c.size + 1) <= c.size) =>
           /\ Normal(cut.text) = cut.text
           /\ Normal(cut.text \o <<Blank>> \o rest) = Normal(c.src)

(* OrdersWithoutCase: the comparison is the order of the dictionary on the  *)
(* strings in small letters, and equal strings differ only in case.         *)
OrdersWithoutCase(c) ==
  LET l1 == [i \in DOMAIN c.s1 |-> Lower(c.s1[i])]
      l2 == [i \in DOMAIN c.s2 |-> Lower(c.s2[i])]
      Before(a, b) == \/ IsStrictPrefix(a, b)
                      \/ \E i \in DOMAIN a \cap DOMAIN b :
                           SubSeq(a, 1, i - 1) = SubSeq(b, 1, i - 1) /\ a[i] < b[i]
  IN  util_stricmp(c.s1, c.s2) = IF l1 = l2 THEN 0 ELSE IF Before(l1, l2) THEN -1 ELSE 1

(* ExchangesOrLeaves: two areas are exchanged as a whole and back again, or *)
(* nothing is touched because they overlap.                                 *)
ExchangesOrLeaves(c) ==
  LET memory == [i \in 1 .. 9 |-> i]
      after  == memexch(memory, c.at1, c.at2, c.n)
      Area(mem, at) == SubSeq(mem, at, at + c.n - 1)
  IN  /\ memexch(after, c.at1, c.at2, c.n) = memory
      /\ after = memory \/ (/\ Area(after, c.at1) = Area(memory, c.at2)
                            /\ Area(after, c.at2) = Area(memory, c.at1))
      /\ c.at1 + c.n <= c.at2 => Area(after, c.at1) = Area(memory, c.at2)

(* WideReadsBack: UTF-8 made of wide characters is read back as these by    *)
(* both readers, has the length foretold, and what a buffer of any size     *)
(* holds of it is the characters that fit, none of them cut.                *)
WideReadsBack(c) ==
  LET legal(s) == SelectSeq(s, LAMBDA wc : wc <= MAX_UTF8_CHAR)
      bytes    == UTIL_Append_Wchar_To_UTF8(c.src)
      buffer   == UTIL_Convert_Wchar_To_UTF8(c.src, c.size)
  IN  /\ UTIL_Append_UTF8_To_Wstring(bytes) = legal(c.src)
      /\ UTIL_C_String_To_Wstring(bytes) = legal(c.src)
      /\ UTIL_Calculate_UTF8_Length(c.src) = Len(bytes)
      /\ Len(buffer) <= Max({c.size - 1, 0})
      /\ \E k \in 0 .. Len(c.src) :
           /\ buffer = UTIL_Append_Wchar_To_UTF8(SubSeq(c.src, 1, k))
           /\ k < Len(c.src) => Len(buffer) + Room(c.src[k + 1]) >= c.size
      /\ \A n \in 0 .. Len(bytes) :
           \A read \in {UTIL_Append_UTF8_To_Wstring(SubSeq(bytes, 1, n)),
                        UTIL_C_String_To_Wstring(SubSeq(bytes, 1, n))} :
             IsPrefix(read, legal(c.src))

(* LatinReadsBack: a Latin 1 string that was converted to UTF-8 is read as  *)
(* itself, as much of it as a buffer had room for; and no string has more   *)
(* wide characters than the array for them, which has one for each byte.    *)
LatinReadsBack(c) ==
  LET utf8 == Convert_8859_1_To_UTF8(c.src, c.size)
      read == UTIL_C_String_To_Wstring(utf8)
  IN  /\ Len(utf8) <= Max({c.size - 1, 0}) /\ IsPrefix(read, c.src)
      /\ Len(read) < Len(c.src) => Len(utf8) + 2 >= c.size
      /\ Len(UTIL_C_String_To_Wstring(c.src)) <= Len(c.src)
=============================================================================
