--------------------------- MODULE CheckedInteger ---------------------------
(***************************************************************************)
(* base::internal::CheckedIntegerImpl<Tag, T>                              *)
(* (src/kwctoolkit/base/checked_integer.h) in a build with assertions: the *)
(* operations on integers whose assertions are to stop the program before  *)
(* a result that T cannot represent comes about.  The assertions compute   *)
(* with T themselves, and so must not overflow either.  The types are      *)
(* given by their limits; only those as wide as int or wider compile,      *)
(* because the sum of two narrower ones is an int and is not accepted.     *)
(***************************************************************************)
EXTENDS Integers

Type(min, max) == [min |-> min, max |-> max, signed |-> min < 0]
Signed(max) == Type(-max - 1, max)
Unsigned(max) == Type(0, max)

Values(T) == T.min..T.max
Fits(T, n) == n \in Values(T)

(* Arithmetic of an unsigned type wraps. *)
Wrapped(T, n) == n % (T.max + 1)

-----------------------------------------------------------------------------
(* What the assertion of an operation may come to: overflow in a signed     *)
(* type is undefined, and then it may hold and it may fail.                 *)
Holds(T, bound, condition) == IF Fits(T, bound) THEN {condition} ELSE BOOLEAN

AssertIncrement(T, x) == {x < T.max}
AssertDecrement(T, x) == {x > T.min}
AssertNegate(T, x) == {x # T.min}

(* Faulty variant: the other bound is asserted. *)
AssertAddOneSided(T, x, y) ==
  IF ~T.signed THEN {Wrapped(T, x + y) >= x}
  ELSE Holds(T, T.max - x, y <= T.max - x)

AssertAdd(T, x, y) ==
  IF ~T.signed THEN {Wrapped(T, x + y) >= x}
  ELSE IF x > 0 THEN Holds(T, T.max - x, y <= T.max - x)
  ELSE Holds(T, T.min - x, y >= T.min - x)

(* 0 - min in the second bound cannot be represented. *)
AssertSubtract(T, x, y) ==
  IF ~T.signed THEN {Wrapped(T, x - y) <= x}
  ELSE IF x > 0 THEN Holds(T, x - T.max, y >= x - T.max)
  ELSE Holds(T, x - T.min, y <= x - T.min)

-----------------------------------------------------------------------------
(* Assertions that hold exactly when the result can be represented; the     *)
(* bound of 0 - y overflows, whatever y is.                                 *)
Exact(T, outcomes, result) == outcomes = {Fits(T, result)}

AdditionExact(T, x, y) == Exact(T, AssertAdd(T, x, y), x + y)
SubtractionExact(T, x, y) ==
  IF T.signed /\ x = 0 THEN AssertSubtract(T, x, y) = BOOLEAN
  ELSE Exact(T, AssertSubtract(T, x, y), x - y)
StepsExact(T, x) ==
  /\ Exact(T, AssertIncrement(T, x), x + 1)
  /\ Exact(T, AssertDecrement(T, x), x - 1)
  /\ T.signed => Exact(T, AssertNegate(T, x), -x)

ChecksExact(T, x, y) ==
  AdditionExact(T, x, y) /\ SubtractionExact(T, x, y) /\ StepsExact(T, x)
=============================================================================
