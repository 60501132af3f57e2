-------------------------------- MODULE CInt --------------------------------
(***************************************************************************)
(* The integer arithmetic of C that the utilities rely on: two's           *)
(* complement integers of IntBits bits, as the builds have them (a signed  *)
(* overflow, undefined in C, wraps there), and a division that truncates   *)
(* towards zero.                                                           *)
(***************************************************************************)
EXTENDS Integers

CONSTANT IntBits  \* 32 in the code; fewer in the instances

IntMax == 2 ^ (IntBits - 1) - 1
IntMin == - IntMax - 1
Ints   == IntMin .. IntMax

\* What an int holds after n is assigned to it.
ToInt(n) == ((n - IntMin) % 2 ^ IntBits) + IntMin

Magnitude(n) == IF n < 0 THEN - n ELSE n

\* a / b and a % b
Quot(a, b) ==
  LET q == Magnitude(a) \div Magnitude(b) IN IF (a < 0) = (b < 0) THEN q ELSE - q

Rem(a, b) == a - (b * Quot(a, b))
=============================================================================
