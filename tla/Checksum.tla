------------------------------ MODULE Checksum -------------------------------
(***************************************************************************)
(* A block of memory whose checksum is carried along by every write        *)
(* (bb_checksum/_src/checksum.c): Chks_Write adds to the checksum what the *)
(* bytes it writes differ by, Chks_Update sums the block anew, Chks_Verify *)
(* compares.  Other code may change the block behind them.                 *)
(***************************************************************************)
EXTENDS Integers, FiniteSetsExt

CONSTANTS
  Radix,   \* values of a byte, 256 in the code
  Modulus, \* values of a checksum, 65536 in the code
  Size,    \* bytes of the block
  Offsets  \* checksum_offset, with which a sum starts

VARIABLE block  \* [data, offset, checksum, foreign]

vars == block

Data == [0 .. Size - 1 -> 0 .. Radix - 1]

\* Chks_Sum_Bytes over a whole block
Chks_Sum_Bytes(data) == MapThenSumSet(LAMBDA i : data[i], DOMAIN data) % Modulus

Sum(data, offset) == (offset + Chks_Sum_Bytes(data)) % Modulus

\* foreign is ghost: the block was changed other than by Chks_Write since the last sum.
Init == block \in {[data |-> data, offset |-> offset,
                    checksum |-> Sum(data, offset), foreign |-> FALSE] :
                      data \in Data, offset \in Offsets}

\* What the 16 bits of delta hold after the loop.
Delta(old, new) == MapThenSumSet(LAMBDA i : new[i] - old[i], DOMAIN new) % Modulus

\* The bytes of source from first on, count of them, at the same place of the block.
Chks_Write(first, count, source) ==
  LET data == [i \in DOMAIN block.data |->
                 IF i \in first .. first + count - 1 THEN source[i] ELSE block.data[i]]
  IN  block' = [block EXCEPT !.data = data,
                             !.checksum = (@ + Delta(block.data, data)) % Modulus]

Chks_Update == block' = [block EXCEPT !.checksum = Sum(block.data, block.offset), !.foreign = FALSE]

Chks_Verify == Sum(block.data, block.offset) = block.checksum

\* A byte changes that was not written through Chks_Write.
Corrupt(i, value) ==
  /\ ~ block.foreign /\ value # block.data[i]
  /\ block' = [block EXCEPT !.data[i] = value, !.foreign = TRUE]

Next == \/ \E first \in 0 .. Size - 1, source \in Data :
             \E count \in 1 .. Size - first : Chks_Write(first, count, source)
        \/ Chks_Update
        \/ \E i \in 0 .. Size - 1, value \in 0 .. Radix - 1 : Corrupt(i, value)

Spec == Init /\ [][Next]_vars

-----------------------------------------------------------------------------
(* VerifiesWrites: a block that only Chks_Write changes verifies, and one   *)
(* in which one byte was changed otherwise does not, whatever Chks_Write    *)
(* wrote in between, over that byte too.                                    *)
VerifiesWrites == Chks_Verify <=> ~ block.foreign
=============================================================================
