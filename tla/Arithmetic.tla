----------------------------- MODULE Arithmetic ------------------------------
(***************************************************************************)
(* Functions on numbers, with the intermediate results of the code kept in *)
(* integers of IntBits bits: those that wrap a value around a range        *)
(* (bb_limit_check/_src/limit_check.c), the linear interpolation           *)
(* (bb_interpolate/_src/interpolate.c), and the points in time by which    *)
(* every timeout of the library is turned into an absolute time and every  *)
(* receive with a timeout finds out how much of it is left                 *)
(* (common/xsal_i_time.c, POSIX).                                          *)
(***************************************************************************)
EXTENDS CInt, Sequences

CONSTANTS
  XS,         \* the tables of x, increasing
  Ys,         \* the values in the tables of y
  IndexBits,  \* width of the signed index: 8 in Interpolate_I8 and _U8, else 16
  MsPerSec,   \* 1000 in the code
  NsPerMs,    \* 1000000 in the code
  LastSecond, \* the times of a call are below it
  LastOffset, \* and the durations up to this
  TimeBits    \* the width of a uint32_t

-----------------------------------------------------------------------------
(* Wrapping around a range.  A call is a record [value, delta, min, max]    *)
(* that satisfies the functions' preconditions.                             *)

WrapCalls ==
  {c \in [value : Ints, delta : 0 .. IntMax, min : Ints, max : Ints] : c.min < c.max}

\* The whole turns that lie in distance.
Turns(distance, range) == ToInt(Quot(ToInt(distance), range) * range)

Util_Wrap_Check_With_Offset(value, min, max) ==
  LET range == ToInt(max - min)
  IN  CASE value < min -> ToInt(range + value + Turns(min - value, range))
        [] value > max -> ToInt(value - range - Turns(value - 1 - max, range))
        [] OTHER       -> value

\* Both directions drop whole turns only from a delta above one turn.
Reduced(delta, full_wrap) == IF delta > full_wrap THEN Rem(delta, full_wrap) ELSE delta

Increment_Delta_With_Wrap_Check(base, delta, min, max) ==
  LET actual == Reduced(delta, ToInt(ToInt(max - min) + 1))
  IN  IF ToInt(base + actual) > max
      THEN ToInt(min + ToInt(actual - (max - base) - 1)) ELSE ToInt(base + actual)

Decrement_Delta_With_Wrap_Check(base, delta, min, max) ==
  LET actual == Reduced(delta, ToInt(ToInt(max - min) + 1))
  IN  IF ToInt(base - actual) < min
      THEN ToInt(max - ToInt(actual - (base - min) - 1)) ELSE ToInt(base - actual)

-----------------------------------------------------------------------------
(* The code computes the range, the distance to it and the sum in an int.   *)
(* Beyond these conditions the results are wrong; the properties are about  *)
(* the calls within them.                                                   *)
RangeFits(c)    == c.max - c.min < IntMax
DistanceFits(c) == c.min - c.value \in Ints /\ c.value - 1 - c.max \in Ints
StepFits(c)     == c.min - c.delta \in Ints /\ c.max + c.delta \in Ints

(* WrapsIntoRange: the wrapped value is in the range and differs from the   *)
(* given one by whole multiples of max - min, however far away it was.      *)
WrapsIntoRange(c) ==
  RangeFits(c) /\ DistanceFits(c) =>
    LET wrapped == Util_Wrap_Check_With_Offset(c.value, c.min, c.max)
    IN  /\ wrapped \in c.min .. c.max
        /\ (wrapped - c.value) % (c.max - c.min) = 0

(* StepsAroundRange: an increment of delta is delta steps of the next value *)
(* that starts over at min, and a decrement takes them back.                *)
StepsAroundRange(c) ==
  c.value \in c.min .. c.max /\ RangeFits(c) /\ StepFits(c) =>
    LET up == Increment_Delta_With_Wrap_Check(c.value, c.delta, c.min, c.max)
    IN  /\ up = c.min + ((c.value - c.min + c.delta) % (c.max - c.min + 1))
        /\ Decrement_Delta_With_Wrap_Check(up, c.delta, c.min, c.max) = c.value

-----------------------------------------------------------------------------
(* The interpolation.  The six functions of the code differ in the types of *)
(* x, y and the index of the table only; here they are one operator, with   *)
(* the widths as parameters.  A call is [x, xs, ys]: xs an increasing       *)
(* sequence of points, ys their values.                                     *)

\* Strictly increasing by the way the tables are used; n_points >= 2 is required.
TableCalls == UNION {[x : (xs[1] - 1) .. (xs[Len(xs)] + 1), xs : {xs}, ys : [DOMAIN xs -> Ys]] : xs \in XS}

\* The index counts from zero and overflows: then the unsigned comparison with
\* n_points ends the search, and the last point stands for all beyond.
LastIndex == 2 ^ (IndexBits - 1) - 1

\* The first point that is not below x, or n_points. (With all of them below x the
\* code compares x with the element after the table; the bound decides all the same.)
Position(x, xs) ==
  LET hits == {i \in 0 .. Len(xs) - 1 : i =< LastIndex /\ xs[i + 1] >= x}
  IN  IF hits = {} THEN Len(xs) ELSE CHOOSE i \in hits : \A h \in hits : i =< h

\* Between the points i - 1 and i, counted from zero.
Line(x, i, xs, ys) ==
  Quot(ToInt((ys[i + 1] - ys[i]) * (x - xs[i])), xs[i + 1] - xs[i]) + ys[i]

Interpolated(x, xs, ys) ==
  LET i == Position(x, xs)
  IN  CASE i = 0       -> ys[1]
        [] i = Len(xs) -> ys[Len(ys)]
        [] OTHER       -> Line(x, i, xs, ys)

-----------------------------------------------------------------------------
(* A table whose size the index can count and whose largest product an int  *)
(* can hold.  Tables beyond are accepted and interpolated wrongly.          *)
Countable(xs) == Len(xs) - 1 =< LastIndex
Multipliable(xs, ys) ==
  \A i \in 2 .. Len(xs) : Magnitude(ys[i] - ys[i - 1]) * (xs[i] - xs[i - 1]) =< IntMax

(* PassesThroughPoints: at each point of the table the value is the one of  *)
(* the table; before the first and after the last point it stays constant.  *)
PassesThroughPoints(c) ==
  Countable(c.xs) /\ Multipliable(c.xs, c.ys) =>
    LET y == Interpolated(c.x, c.xs, c.ys)
        n == Len(c.xs)
    IN  /\ \A i \in 1 .. n : c.x = c.xs[i] => y = c.ys[i]
        /\ c.x < c.xs[1] => y = c.ys[1]
        /\ c.x > c.xs[n] => y = c.ys[n]

(* KeepsDirection: between two points the value is never outside of theirs, *)
(* and it follows the direction of the table from one x to the next.        *)
KeepsDirection(c) ==
  Countable(c.xs) /\ Multipliable(c.xs, c.ys) =>
    \A i \in 2 .. Len(c.xs) :
      c.x \in c.xs[i - 1] .. (c.xs[i] - 1) =>
        LET Y(x)  == Interpolated(x, c.xs, c.ys)
            rises == c.ys[i] >= c.ys[i - 1]
            lo    == IF rises THEN c.ys[i - 1] ELSE c.ys[i]
            hi    == IF rises THEN c.ys[i] ELSE c.ys[i - 1]
        IN  /\ Y(c.x) \in lo .. hi
            /\ IF rises THEN Y(c.x) =< Y(c.x + 1) ELSE Y(c.x) >= Y(c.x + 1)

-----------------------------------------------------------------------------
(* Points in time.  A call is [from, to, offset], two normalized times and a *)
(* duration in ms.                                                         *)

NsPerSec == MsPerSec * NsPerMs
Times == [sec : 0 .. LastSecond - 1, nsec : 0 .. NsPerSec - 1]
TimeCalls == [from : Times, to : Times, offset : 0 .. LastOffset]

\* Mutant: a sum of exactly one second is left in the nanoseconds.
AddOffsetCarriesLate(time, offset) ==
  LET nsec  == (offset % MsPerSec) * NsPerMs
      carry == IF time.nsec + nsec > NsPerSec THEN 1 ELSE 0
  IN  [sec |-> time.sec + (offset \div MsPerSec) + carry, nsec |-> (time.nsec + nsec) - (carry * NsPerSec)]

SAL_I_Time_Add_Offset(time, offset) ==
  LET nsec  == (offset % MsPerSec) * NsPerMs
      carry == IF time.nsec + nsec >= NsPerSec THEN 1 ELSE 0
  IN  [sec |-> time.sec + (offset \div MsPerSec) + carry, nsec |-> (time.nsec + nsec) - (carry * NsPerSec)]

SAL_I_Time_Diff(from, to) ==
  (((to.sec - from.sec) * MsPerSec) + Quot(to.nsec - from.nsec, NsPerMs)) % 2 ^ TimeBits

Ns(time) == time.sec * NsPerSec + time.nsec

(* DeadlineIsExact: the deadline of a timeout is a time that the calls of   *)
(* the operating system accept, and it is exactly the timeout away.         *)
DeadlineIsExact(c) ==
  LET deadline == SAL_I_Time_Add_Offset(c.from, c.offset)
  IN  /\ deadline.nsec \in 0 .. NsPerSec - 1
      /\ Ns(deadline) = Ns(c.from) + (c.offset * NsPerMs)

(* ElapsedIsClose: the milliseconds between two times are off by less than  *)
(* one, also when the second changed in between; those of a deadline are    *)
(* the timeout it was made from.                                            *)
ElapsedIsClose(c) ==
  /\ Ns(c.from) =< Ns(c.to) /\ Ns(c.to) - Ns(c.from) < NsPerMs * 2 ^ TimeBits
       => Magnitude((SAL_I_Time_Diff(c.from, c.to) * NsPerMs) - (Ns(c.to) - Ns(c.from))) < NsPerMs
  /\ SAL_I_Time_Diff(c.from, SAL_I_Time_Add_Offset(c.from, c.offset)) = c.offset % 2 ^ TimeBits
=============================================================================
