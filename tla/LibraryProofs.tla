---------------------------- MODULE LibraryProofs ----------------------------
(***************************************************************************)
(* Theorems about the parts of Library.                                    *)
(*                                                                         *)
(* A program that uses Results: for any number of variables and objects, a *)
(* value or an error has exactly one owner where Results are not copied,   *)
(* and the specialisations discard none unless an assertion fails.         *)
(* Address::fromString is such a program; what its variables hold at each  *)
(* of its lines gives what it answers.  So does, for ReadPNG and WritePNG, *)
(* what is on the heap at each line and how often each row was filled.     *)
(*                                                                         *)
(* The assertions of CheckedInteger are exact whatever the width of the    *)
(* type.  What an assertion computes in the type is a sum or a difference  *)
(* of two of its values: it is at most one modulus away from them when the *)
(* type is unsigned, and has to be shown to fit when it is signed.         *)
(*                                                                         *)
(* Base64 is taken group by group: three bytes are four places in the      *)
(* alphabet, and the last group is a group with zeros in it.               *)
(***************************************************************************)
EXTENDS Library, TLAPS

(* Types and ownership are inductive together: the former say which tags   *)
(* come with an object.                                                    *)
IndInv == TypeOK /\ ExclusiveOwnership

USE DEF Tags, Owners, Holds, Live, None, Empty, Asserted, Drop

LEMMA InitInv == Init => IndInv
<1> SUFFICES ASSUME Init PROVE IndInv
  OBVIOUS
<1>1. TypeOK
  BY ObjectsAssumption, VariantsAssumption DEF Init, TypeOK
<1>2. ExclusiveOwnership
  BY ObjectsAssumption DEF Init, ExclusiveOwnership
<1> QED
  BY <1>1, <1>2 DEF IndInv

LEMMA MakeInv ==
  ASSUME IndInv, NEW s \in Slots, NEW o \in Objects, NEW tag \in {"success", "error"},
         tag = "success" => variant # "void", Make(s, o, tag)
  PROVE  IndInv'
<1>1. TypeOK'
  BY ObjectsAssumption DEF IndInv, TypeOK, Make
<1>2. ExclusiveOwnership'
  BY ObjectsAssumption DEF IndInv, TypeOK, ExclusiveOwnership, Make
<1> QED
  BY <1>1, <1>2 DEF IndInv

LEMMA MakeDefaultInv ==
  ASSUME IndInv, NEW s \in Slots, MakeDefault(s)
  PROVE  IndInv'
<1>1. TypeOK'
  BY ObjectsAssumption DEF IndInv, TypeOK, MakeDefault
<1>2. ExclusiveOwnership'
  BY ObjectsAssumption DEF IndInv, TypeOK, ExclusiveOwnership, MakeDefault
<1> QED
  BY <1>1, <1>2 DEF IndInv

LEMMA MoveConstructInv ==
  ASSUME IndInv, NEW s \in Slots, NEW from \in Slots, MoveConstruct(s, from)
  PROVE  IndInv'
<1>1. TypeOK'
  BY ObjectsAssumption DEF IndInv, TypeOK, MoveConstruct
<1>2. ExclusiveOwnership'
  BY ObjectsAssumption DEF IndInv, TypeOK, ExclusiveOwnership, MoveConstruct
<1> QED
  BY <1>1, <1>2 DEF IndInv

LEMMA MoveAssignInv ==
  ASSUME IndInv, NEW s \in Slots, NEW from \in Slots, MoveAssign(s, from)
  PROVE  IndInv'
<1>1. TypeOK'
  BY ObjectsAssumption DEF IndInv, TypeOK, MoveAssign
<1>2. \A t \in Slots : slot'[t] = IF t = from THEN Empty
                               ELSE IF t = s THEN slot[from] ELSE slot[t]
  BY DEF IndInv, TypeOK, MoveAssign
<1>3. \A o \in Objects :
        owner'[o] = IF Holds(s) /\ o = slot[s].object THEN "dropped" ELSE owner[o]
  BY DEF IndInv, TypeOK, MoveAssign
<1>4. variant # "copied" =>
        \A t, u \in Slots :
          Holds(t)' /\ slot'[t].object = slot'[u].object => t = u
  BY <1>2 DEF IndInv, TypeOK, ExclusiveOwnership
<1>5. ASSUME variant # "copied", NEW o \in Objects
      PROVE  owner'[o] = "result" <=> \E t \in Slots : slot'[t].object = o
  <2>1. owner[o] = "result" <=> \E t \in Slots : slot[t].object = o
    BY <1>5 DEF IndInv, ExclusiveOwnership
  <2>2. CASE slot[s].object = o
    <3>1. \A t \in Slots : slot[t].object = o => t = s
      BY <1>5, <2>2, ObjectsAssumption DEF IndInv, ExclusiveOwnership
    <3>2. \A t \in Slots : slot'[t].object # o
      BY <1>2, <3>1, ObjectsAssumption
    <3>3. owner'[o] = "dropped"
      BY <1>3, <2>2, ObjectsAssumption
    <3> QED
      BY <3>2, <3>3
  <2>3. CASE slot[s].object # o
    <3>1. owner'[o] = owner[o]
      BY <1>3, <2>3
    <3>2. ASSUME NEW t \in Slots, slot[t].object = o
          PROVE  \E u \in Slots : slot'[u].object = o
      <4>1. CASE t = from
        BY <1>2, <2>3, <3>2, <4>1
      <4>2. CASE t # from
        BY <1>2, <2>3, <3>2, <4>2
      <4> QED
        BY <4>1, <4>2
    <3>3. ASSUME NEW t \in Slots, slot'[t].object = o
          PROVE  \E u \in Slots : slot[u].object = o
      BY <1>2, <3>3, ObjectsAssumption
    <3> QED
      BY <2>1, <3>1, <3>2, <3>3
  <2> QED
    BY <2>2, <2>3
<1>6. ExclusiveOwnership'
  BY <1>4, <1>5 DEF ExclusiveOwnership, MoveAssign
<1> QED
  BY <1>1, <1>6 DEF IndInv

LEMMA CopyAssignInv ==
  ASSUME IndInv, NEW s \in Slots, NEW from \in Slots, CopyAssign(s, from)
  PROVE  IndInv'
<1>1. TypeOK'
  BY ObjectsAssumption DEF IndInv, TypeOK, CopyAssign
<1>2. ExclusiveOwnership'
  BY DEF ExclusiveOwnership, CopyAssign
<1> QED
  BY <1>1, <1>2 DEF IndInv

LEMMA GetSuccessInv ==
  ASSUME IndInv, NEW s \in Slots, GetSuccess(s)
  PROVE  IndInv'
<1>1. slot[s].object \in Objects
  BY DEF IndInv, TypeOK, GetSuccess, MayGetSuccess
<1>2. TypeOK'
  BY <1>1, ObjectsAssumption DEF IndInv, TypeOK, GetSuccess
<1>3. ExclusiveOwnership'
  BY <1>1, ObjectsAssumption DEF IndInv, TypeOK, ExclusiveOwnership, GetSuccess
<1> QED
  BY <1>2, <1>3 DEF IndInv

LEMMA GetErrorInv ==
  ASSUME IndInv, NEW s \in Slots, GetError(s)
  PROVE  IndInv'
<1>1. slot[s].tag = "error" => slot[s].object \in Objects
  BY DEF IndInv, TypeOK
<1>2. TypeOK'
  BY <1>1, ObjectsAssumption DEF IndInv, TypeOK, GetError
<1>3. ExclusiveOwnership'
  BY <1>1, ObjectsAssumption DEF IndInv, TypeOK, ExclusiveOwnership, GetError
<1> QED
  BY <1>2, <1>3 DEF IndInv

LEMMA DestroyInv ==
  ASSUME IndInv, NEW s \in Slots, Destroy(s)
  PROVE  IndInv'
<1>1. TypeOK'
  BY ObjectsAssumption DEF IndInv, TypeOK, Destroy
<1>2. ExclusiveOwnership'
  BY ObjectsAssumption DEF IndInv, TypeOK, ExclusiveOwnership, Destroy
<1> QED
  BY <1>1, <1>2 DEF IndInv

LEMMA UnchangedInv ==
  ASSUME IndInv, UNCHANGED <<variant, slot, owner, made>>, failed' \in BOOLEAN
  PROVE  IndInv'
BY DEF IndInv, TypeOK, ExclusiveOwnership

LEMMA NextInv ==
  ASSUME IndInv, [Next]_vars
  PROVE  IndInv'
<1>1. CASE Next
  <2> PICK s \in Slots :
        \/ \E o \in Objects : MakeSuccess(s, o) \/ MakeError(s, o)
        \/ MakeDefault(s)
        \/ \E from \in Slots :
             MoveConstruct(s, from) \/ MoveAssign(s, from) \/ CopyAssign(s, from)
        \/ GetSuccess(s) \/ GetError(s) \/ Destroy(s)
        \/ Abort(s)
    BY <1>1 DEF Next
  <2>1. ASSUME NEW o \in Objects, MakeSuccess(s, o) PROVE IndInv'
    BY <2>1, MakeInv DEF MakeSuccess
  <2>2. ASSUME NEW o \in Objects, MakeError(s, o) PROVE IndInv'
    BY <2>2, MakeInv DEF MakeError
  <2>3. CASE MakeDefault(s)
    BY <2>3, MakeDefaultInv
  <2>4. ASSUME NEW from \in Slots, MoveConstruct(s, from) PROVE IndInv'
    BY <2>4, MoveConstructInv
  <2>5. ASSUME NEW from \in Slots, MoveAssign(s, from) PROVE IndInv'
    BY <2>5, MoveAssignInv
  <2>6. ASSUME NEW from \in Slots, CopyAssign(s, from) PROVE IndInv'
    BY <2>6, CopyAssignInv
  <2>7. CASE GetSuccess(s)
    BY <2>7, GetSuccessInv
  <2>8. CASE GetError(s)
    BY <2>8, GetErrorInv
  <2>9. CASE Destroy(s)
    BY <2>9, DestroyInv
  <2>10. CASE Abort(s)
    BY <2>10, UnchangedInv DEF Abort, AssertionFails
  <2> QED
    BY <2>1, <2>2, <2>3, <2>4, <2>5, <2>6, <2>7, <2>8, <2>9, <2>10
<1>2. CASE UNCHANGED vars
  BY <1>2, UnchangedInv DEF vars, IndInv, TypeOK
<1> QED
  BY <1>1, <1>2

(* No operation on Results makes a tag disagree with what it comes with, or *)
(* gives an object a second owner where Results are not copied.             *)
THEOREM Invariance == Spec => []IndInv
<1>1. IndInv /\ [Next]_vars => IndInv'
  BY NextInv
<1> QED
  BY <1>1, InitInv, PTL DEF Spec

(* Every variable keeps its type: a tag that says there is an object comes *)
(* with one.                                                               *)
THEOREM TypeCorrect == Spec => []TypeOK
<1>1. IndInv => TypeOK
  BY DEF IndInv
<1> QED
  BY <1>1, Invariance, PTL

(* A value or an error is in one Result at most, and in one as long as it  *)
(* has not been received: for every specialisation, moved about in any     *)
(* order, as long as no Result is copied.                                  *)
THEOREM Ownership == Spec => []ExclusiveOwnership
<1>1. IndInv => ExclusiveOwnership
  BY DEF IndInv
<1> QED
  BY <1>1, Invariance, PTL

-----------------------------------------------------------------------------
(* Without "fallback", an object is dropped by no operation whose          *)
(* assertion holds: operator= and ~Result find the Result empty, and       *)
(* getError finds an error or an empty Result.                             *)
LEMMA HandlingStep ==
  ASSUME IndInv, EnforcesHandling, [Next]_vars
  PROVE  EnforcesHandling'
<1> SUFFICES ASSUME variant' \notin {"copied", "fallback"}
             PROVE  NothingDiscarded'
  BY DEF EnforcesHandling
<1>1. variant' = variant
  BY DEF Next, MakeSuccess, MakeError, Make, MakeDefault, MoveConstruct,
         MoveAssign, CopyAssign, GetSuccess, GetError, Destroy, Abort,
         AssertionFails, vars
<1>2. variant \in {"pointer", "void"} /\ NothingDiscarded
  BY <1>1, VariantsAssumption DEF IndInv, TypeOK, EnforcesHandling
<1> USE DEF NothingDiscarded
<1>3. CASE Next
  <2> PICK s \in Slots :
        \/ \E o \in Objects : MakeSuccess(s, o) \/ MakeError(s, o)
        \/ MakeDefault(s)
        \/ \E from \in Slots :
             MoveConstruct(s, from) \/ MoveAssign(s, from) \/ CopyAssign(s, from)
        \/ GetSuccess(s) \/ GetError(s) \/ Destroy(s)
        \/ Abort(s)
    BY <1>3 DEF Next
  <2>1. ASSUME NEW o \in Objects, MakeSuccess(s, o) \/ MakeError(s, o)
        PROVE  NothingDiscarded'
    BY <1>2, <2>1 DEF MakeSuccess, MakeError, Make, IndInv, TypeOK
  <2>2. ASSUME NEW from \in Slots,
               MoveConstruct(s, from) \/ MoveAssign(s, from) \/ CopyAssign(s, from)
        PROVE  NothingDiscarded'
    BY <1>2, <2>2 DEF MoveConstruct, MoveAssign, CopyAssign, MayAssign
  <2>3. CASE MakeDefault(s) \/ Abort(s)
    BY <1>2, <2>3 DEF MakeDefault, Abort, AssertionFails
  <2>4. CASE GetSuccess(s)
    BY <1>2, <2>4 DEF GetSuccess, IndInv, TypeOK
  <2>5. CASE GetError(s)
    <3>1. slot[s].tag # "error" => ~Holds(s)
      BY <1>2, <2>5 DEF GetError, MayGetError, IndInv, TypeOK
    <3> QED
      BY <1>2, <2>5, <3>1 DEF GetError, IndInv, TypeOK
  <2>6. CASE Destroy(s)
    BY <1>2, <2>6 DEF Destroy, MayDestroy
  <2> QED
    BY <2>1, <2>2, <2>3, <2>4, <2>5, <2>6
<1>4. CASE UNCHANGED vars
  BY <1>2, <1>4 DEF vars
<1> QED
  BY <1>3, <1>4

(* A program built with assertions either receives every value and every   *)
(* error or aborts, unless it copies Results or uses the fallback.         *)
THEOREM Handling == Spec => []EnforcesHandling
<1>1. Init => EnforcesHandling
  BY DEF Init, EnforcesHandling, NothingDiscarded
<1>2. IndInv /\ EnforcesHandling /\ [Next]_vars => EnforcesHandling'
  BY HandlingStep
<1> QED
  BY <1>1, <1>2, Invariance, PTL DEF Spec

-----------------------------------------------------------------------------
(* What leaves a Result leaves it under the tag it was put in with.  The   *)
(* proof needs of the other invariants that tags and objects agree.        *)
MadeInv ==
  /\ ReceivedAsMade
  /\ \A o \in Objects : owner[o] = "new" => \A s \in Slots : slot[s].object # o

LEMMA MakeMade ==
  ASSUME IndInv, MadeInv, NEW s \in Slots, NEW o \in Objects,
         NEW tag \in {"success", "error"}, Make(s, o, tag)
  PROVE  MadeInv'
<1> USE DEF MadeInv, ReceivedAsMade, IndInv, TypeOK
<1>1. \A p \in Objects :
        /\ owner'[p] = IF p = o THEN "result" ELSE owner[p]
        /\ made'[p] = IF p = o THEN tag ELSE made[p]
  BY DEF Make
<1>2. \A t \in Slots :
        slot'[t] = IF t = s THEN [tag |-> tag, object |-> o] ELSE slot[t]
  BY DEF Make
<1>3. \A t \in Slots : slot[t].object # o
  BY DEF Make
<1> HIDE DEF TypeOK
<1>4. \A p \in Objects : owner'[p] \in {"success", "error"} => owner'[p] = made'[p]
  BY <1>1
<1>5. \A p \in Objects, t \in Slots : slot'[t].object = p => slot'[t].tag = made'[p]
  BY <1>1, <1>2, <1>3
<1>6. \A p \in Objects : owner'[p] = "new" => \A t \in Slots : slot'[t].object # p
  BY <1>1, <1>2
<1> QED
  BY <1>4, <1>5, <1>6

LEMMA MadeStep ==
  ASSUME IndInv, MadeInv, [Next]_vars
  PROVE  MadeInv'
<1> USE DEF MadeInv, ReceivedAsMade, IndInv, TypeOK
<1>1. CASE Next
  <2> PICK s \in Slots :
        \/ \E o \in Objects : MakeSuccess(s, o) \/ MakeError(s, o)
        \/ MakeDefault(s)
        \/ \E from \in Slots :
             MoveConstruct(s, from) \/ MoveAssign(s, from) \/ CopyAssign(s, from)
        \/ GetSuccess(s) \/ GetError(s) \/ Destroy(s)
        \/ Abort(s)
    BY <1>1 DEF Next
  <2>1. ASSUME NEW o \in Objects, MakeSuccess(s, o) \/ MakeError(s, o)
        PROVE  MadeInv'
    BY <2>1, MakeMade DEF MakeSuccess, MakeError
  <2>2. CASE MakeDefault(s)
    BY <2>2, ObjectsAssumption DEF MakeDefault
  <2>3. ASSUME NEW from \in Slots, MoveConstruct(s, from) PROVE MadeInv'
    BY <2>3, ObjectsAssumption DEF MoveConstruct
  <2>4. ASSUME NEW from \in Slots, MoveAssign(s, from) PROVE MadeInv'
    BY <2>4, ObjectsAssumption DEF MoveAssign
  <2>5. ASSUME NEW from \in Slots, CopyAssign(s, from) PROVE MadeInv'
    BY <2>5, ObjectsAssumption DEF CopyAssign
  <2>6. CASE GetSuccess(s)
    BY <2>6, ObjectsAssumption DEF GetSuccess, MayGetSuccess
  <2>7. CASE GetError(s)
    BY <2>7, ObjectsAssumption DEF GetError
  <2>8. CASE Destroy(s)
    BY <2>8, ObjectsAssumption DEF Destroy
  <2>9. CASE Abort(s)
    BY <2>9 DEF Abort, AssertionFails
  <2> QED
    BY <2>1, <2>2, <2>3, <2>4, <2>5, <2>6, <2>7, <2>8, <2>9
<1>2. CASE UNCHANGED vars
  BY <1>2 DEF vars
<1> QED
  BY <1>1, <1>2

(* No specialisation, moved or copied, ever hands out an error as a        *)
(* success or a success as an error.                                       *)
THEOREM Received == Spec => []ReceivedAsMade
<1>1. Init => MadeInv
  BY ObjectsAssumption DEF Init, MadeInv, ReceivedAsMade
<1>2. IndInv /\ MadeInv /\ [Next]_vars => MadeInv'
  BY MadeStep
<1>3. MadeInv => ReceivedAsMade
  BY DEF MadeInv
<1> QED
  BY <1>1, <1>2, <1>3, Invariance, PTL DEF Spec

HIDE DEF Tags, Owners, Holds, Live, None, Empty, Asserted, Drop

-----------------------------------------------------------------------------
(* Sums and differences of two remainders wrap at most once. *)
LEMMA RemainderOf ==
  ASSUME NEW m \in Nat, m > 0, NEW n \in Int
  PROVE  /\ n \in 0..(m - 1) => n % m = n
         /\ n \in m..(2 * m - 1) => n % m = n - m
         /\ n \in (-m)..(-1) => n % m = n + m
OBVIOUS

LEMMA SignedLimits ==
  ASSUME NEW max \in Nat
  PROVE  /\ Integer!Signed(max).min = -max - 1
         /\ Integer!Signed(max).max = max
         /\ Integer!Signed(max).signed = TRUE
         /\ Integer!Values(Integer!Signed(max)) = (-max - 1)..max
<1>1. (-max - 1 < 0) = TRUE
  OBVIOUS
<1>2. Integer!Signed(max).signed = (-max - 1 < 0)
  BY Zenon DEF Integer!Signed, Integer!Type
<1>3. Integer!Signed(max).min = -max - 1 /\ Integer!Signed(max).max = max
  BY DEF Integer!Signed, Integer!Type
<1> QED BY Zenon, <1>1, <1>2, <1>3 DEF Integer!Values

LEMMA UnsignedLimits ==
  ASSUME NEW max \in Nat
  PROVE  /\ Integer!Unsigned(max).min = 0
         /\ Integer!Unsigned(max).max = max
         /\ Integer!Unsigned(max).signed = FALSE
         /\ Integer!Values(Integer!Unsigned(max)) = 0..max
<1>1. (0 < 0) = FALSE
  OBVIOUS
<1>2. Integer!Unsigned(max).signed = (0 < 0)
  BY Zenon DEF Integer!Unsigned, Integer!Type
<1>3. Integer!Unsigned(max).min = 0 /\ Integer!Unsigned(max).max = max
  BY DEF Integer!Unsigned, Integer!Type
<1> QED BY Zenon, <1>1, <1>2, <1>3 DEF Integer!Values

-----------------------------------------------------------------------------
(* The assertions of CheckedIntegerImpl for a signed type hold exactly when *)
(* the result can be represented, and no bound they compute overflows but   *)
(* that of 0 - y (checked_integer.h:159-201), for int, long and every other *)
(* width in two's complement.                                               *)
THEOREM SignedExact ==
  ASSUME NEW max \in Nat,
         NEW x \in Integer!Values(Integer!Signed(max)),
         NEW y \in Integer!Values(Integer!Signed(max))
  PROVE  Integer!ChecksExact(Integer!Signed(max), x, y)
<1> DEFINE T == Integer!Signed(max)
<1>1. /\ T.min = -max - 1 /\ T.max = max /\ T.signed = TRUE
      /\ Integer!Values(T) = (-max - 1)..max
  BY SignedLimits
<1>2. /\ x \in Int /\ -max - 1 <= x /\ x <= max
      /\ y \in Int /\ -max - 1 <= y /\ y <= max
  BY <1>1
<1> HIDE DEF T
<1>3. Integer!AdditionExact(T, x, y)
  <2>1. CASE x > 0
    <3>1. Integer!Fits(T, T.max - x)
      BY <1>1, <1>2, <2>1 DEF Integer!Fits
    <3>2. (y <= T.max - x) = Integer!Fits(T, x + y)
      BY <1>1, <1>2, <2>1 DEF Integer!Fits
    <3> QED
      BY Zenon, <1>1, <2>1, <3>1, <3>2 DEF Integer!AdditionExact, Integer!AssertAdd,
             Integer!Holds, Integer!Exact
  <2>2. CASE ~(x > 0)
    <3>1. Integer!Fits(T, T.min - x)
      BY <1>1, <1>2, <2>2 DEF Integer!Fits
    <3>2. (y >= T.min - x) = Integer!Fits(T, x + y)
      BY <1>1, <1>2, <2>2 DEF Integer!Fits
    <3> QED
      BY Zenon, <1>1, <2>2, <3>1, <3>2 DEF Integer!AdditionExact, Integer!AssertAdd,
             Integer!Holds, Integer!Exact
  <2> QED BY <2>1, <2>2
<1>4. Integer!SubtractionExact(T, x, y)
  <2>1. CASE x > 0
    <3>1. Integer!Fits(T, x - T.max)
      BY <1>1, <1>2, <2>1 DEF Integer!Fits
    <3>2. (y >= x - T.max) = Integer!Fits(T, x - y)
      BY <1>1, <1>2, <2>1 DEF Integer!Fits
    <3>3. x # 0
      BY <1>2, <2>1
    <3> QED
      BY Zenon, <1>1, <2>1, <3>1, <3>2, <3>3
      DEF Integer!SubtractionExact, Integer!AssertSubtract, Integer!Holds, Integer!Exact
  <2>2. CASE x < 0
    <3>1. Integer!Fits(T, x - T.min)
      BY <1>1, <1>2, <2>2 DEF Integer!Fits
    <3>2. (y <= x - T.min) = Integer!Fits(T, x - y)
      BY <1>1, <1>2, <2>2 DEF Integer!Fits
    <3>3. x # 0 /\ ~(x > 0)
      BY <1>2, <2>2
    <3> QED
      BY Zenon, <1>1, <3>1, <3>2, <3>3 DEF Integer!SubtractionExact,
             Integer!AssertSubtract, Integer!Holds, Integer!Exact
  <2>3. CASE x = 0
    <3>1. ~Integer!Fits(T, x - T.min)
      BY <1>1, <1>2, <2>3 DEF Integer!Fits
    <3>2. ~(x > 0)
      BY <2>3
    <3> QED
      BY Zenon, <1>1, <2>3, <3>1, <3>2 DEF Integer!SubtractionExact,
             Integer!AssertSubtract, Integer!Holds
  <2> QED BY <1>2, <2>1, <2>2, <2>3
<1>5. Integer!StepsExact(T, x)
  <2>1. /\ (x < T.max) = Integer!Fits(T, x + 1)
        /\ (x > T.min) = Integer!Fits(T, x - 1)
        /\ (x # T.min) = Integer!Fits(T, -x)
    BY <1>1, <1>2 DEF Integer!Fits
  <2> QED
    BY Zenon, <2>1 DEF Integer!StepsExact, Integer!AssertIncrement,
           Integer!AssertDecrement, Integer!AssertNegate, Integer!Exact
<1> QED
  BY <1>3, <1>4, <1>5 DEF Integer!ChecksExact, T

(* For an unsigned type they are tests for a sum or a difference that has   *)
(* wrapped, and so exact as well (checked_integer.h:140-157).               *)
THEOREM UnsignedExact ==
  ASSUME NEW max \in Nat,
         NEW x \in Integer!Values(Integer!Unsigned(max)),
         NEW y \in Integer!Values(Integer!Unsigned(max))
  PROVE  Integer!ChecksExact(Integer!Unsigned(max), x, y)
<1> DEFINE T == Integer!Unsigned(max)
<1>1. /\ T.min = 0 /\ T.max = max /\ T.signed = FALSE
      /\ Integer!Values(T) = 0..max
  BY UnsignedLimits
<1>2. x \in Nat /\ x <= max /\ y \in Nat /\ y <= max
  BY <1>1
<1> HIDE DEF T
<1>3. Integer!AdditionExact(T, x, y)
  <2>1. (x + y) % (max + 1) = IF x + y <= max THEN x + y ELSE x + y - (max + 1)
    BY <1>2, RemainderOf
  <2>2. (Integer!Wrapped(T, x + y) >= x) = Integer!Fits(T, x + y)
    BY <1>1, <1>2, <2>1 DEF Integer!Wrapped, Integer!Fits
  <2> QED
    BY Zenon, <1>1, <2>2 DEF Integer!AdditionExact, Integer!AssertAdd, Integer!Exact
<1>4. Integer!SubtractionExact(T, x, y)
  <2>1. (x - y) % (max + 1) = IF y <= x THEN x - y ELSE x - y + (max + 1)
    BY <1>2, RemainderOf
  <2>2. (Integer!Wrapped(T, x - y) <= x) = Integer!Fits(T, x - y)
    BY <1>1, <1>2, <2>1 DEF Integer!Wrapped, Integer!Fits
  <2> QED
    BY Zenon, <1>1, <2>2 DEF Integer!SubtractionExact, Integer!AssertSubtract,
           Integer!Exact
<1>5. Integer!StepsExact(T, x)
  <2>1. /\ (x < T.max) = Integer!Fits(T, x + 1)
        /\ (x > T.min) = Integer!Fits(T, x - 1)
    BY <1>1, <1>2 DEF Integer!Fits
  <2> QED
    BY Zenon, <1>1, <2>1 DEF Integer!StepsExact, Integer!AssertIncrement,
           Integer!AssertDecrement, Integer!Exact
<1> QED
  BY <1>3, <1>4, <1>5 DEF Integer!ChecksExact, T

-----------------------------------------------------------------------------
(* fromString is a program of the operations of Result, and the other parts *)
(* use no Result: what has been shown for every program holds of Library.   *)
LEMMA LibraryInitIsInit == LibraryInit => Init
<1> SUFFICES ASSUME LibraryInit PROVE Init
  OBVIOUS
<1>1. CASE part = "results"
  BY <1>1 DEF LibraryInit
<1>2. CASE part = "fromString"
  BY <1>2 DEF LibraryInit, AddressInit
<1>3. CASE part = "images"
  BY <1>3 DEF LibraryInit, NoResults
<1>4. CASE part \notin {"results", "fromString", "images"}
  BY <1>4 DEF LibraryInit, NoResults
<1> QED
  BY <1>1, <1>2, <1>3, <1>4

LEMMA LeaveScopeIsStep ==
  ASSUME NEW s \in Slots, NEW from, NEW to, LeaveScope(s, from, to)
  PROVE  [Next]_vars
<1>1. CASE Live(s) /\ Destroy(s)
  BY <1>1 DEF Next
<1>2. CASE Live(s) /\ AssertionFails(MayDestroy(s))
  BY <1>2 DEF Next, Abort
<1>3. CASE ~Live(s)
  BY <1>3 DEF LeaveScope
<1> QED
  BY <1>1, <1>2, <1>3 DEF LeaveScope

LEMMA AddressNextIsStep ==
  ASSUME AddressNext
  PROVE  [Next]_vars
<1>1. from_v4 \in Slots /\ from_v6 \in Slots /\ returned \in Slots
  BY AddressAssumption
<1>2. ASSUME NEW s \in Slots, NEW version, Parse(version, s) PROVE Next
  BY <1>2 DEF Parse, Next
<1>3. CASE ParseIPv4 \/ ParseIPv6
  BY <1>1, <1>2, <1>3 DEF ParseIPv4, ParseIPv6
<1>4. CASE TakeIPv4 \/ TakeIPv6
  BY <1>1, <1>4 DEF TakeIPv4, TakeIPv6, Next
<1>5. CASE DropError \/ TakeError
  BY <1>1, <1>5 DEF DropError, TakeError, Next
<1>6. CASE Return
  BY <1>1, <1>6 DEF Return, Next
<1>7. CASE \/ LeaveScope(from_v6, "leaves IPv6", "leaves IPv4")
           \/ LeaveScope(from_v4, "leaves IPv4", "has returned")
  BY <1>1, <1>7, LeaveScopeIsStep
<1> QED
  BY <1>3, <1>4, <1>5, <1>6, <1>7 DEF AddressNext

LEMMA LibraryNextIsStep ==
  ASSUME [LibraryNext]_<<part, inputs, vars, program, imageVars>>
  PROVE  [Next]_vars
<1>1. CASE AddressNext
  BY <1>1, AddressNextIsStep
<1>2. CASE Next \/ UNCHANGED vars
  BY <1>2
<1> QED
  BY <1>1, <1>2 DEF LibraryNext, Ask

(* Every step of Library is one of a program that uses Results or leaves    *)
(* all of them alone: the calls that fromString makes are in the order of   *)
(* its lines, but they are calls that a program may make.                   *)
THEOREM LibraryUsesResults == LibrarySpec => Spec
<1> QED
  BY LibraryInitIsInit, LibraryNextIsStep, PTL DEF LibrarySpec, Spec

(* In every part of Library an object has one owner, and none is discarded  *)
(* unless an assertion fails or the specialisation asserts nothing.         *)
THEOREM LibraryOwnership == LibrarySpec => [](ExclusiveOwnership /\ EnforcesHandling)
<1> QED
  BY LibraryUsesResults, Ownership, Handling, PTL

-----------------------------------------------------------------------------
(* Address::fromString.  At every line it is known what is in each of its   *)
(* variables, and no other is in use; the text decides which line it is.    *)
Tagged(v4, v6, r) ==
  /\ slot[from_v4].tag = v4 /\ slot[from_v6].tag = v6 /\ slot[returned].tag = r
  /\ \A s \in Slots \ {from_v4, from_v6, returned} : slot[s].tag = "none"

Tried(r) ==
  \/ text = "IPv4" /\ Tagged("empty", "none", r)
  \/ text = "IPv6" /\ Tagged("empty", "empty", r)

Progress ==
  \/ at = "tries IPv4" /\ Tagged("none", "none", "none")
  \/ at = "has IPv4" /\ text = "IPv4" /\ Tagged("success", "none", "none")
  \/ at = "tries IPv6" /\ text # "IPv4" /\ Tagged("error", "none", "none")
  \/ at = "has IPv6" /\ text = "IPv6" /\ Tagged("error", "success", "none")
  \/ at = "has none" /\ text = "neither" /\ Tagged("error", "error", "none")
  \/ at = "drops error" /\ text = "IPv6" /\ Tagged("error", "empty", "none")
  \/ at = "returns address" /\ Tried("none")
  \/ at = "returns error" /\ text = "neither" /\ Tagged("error", "empty", "none")
  \/ at = "leaves IPv6" /\ Tried("success")
  \/ at = "leaves IPv6" /\ text = "neither" /\ Tagged("error", "empty", "error")
  \/ at = "leaves IPv4" /\ text \in {"IPv4", "IPv6"} /\ Tagged("empty", "none", "success")
  \/ at = "leaves IPv4" /\ text = "neither" /\ Tagged("error", "none", "error")
  \/ at = "has returned" /\ text \in {"IPv4", "IPv6"} /\ Tagged("none", "none", "success")
  \/ at = "has returned" /\ text = "neither" /\ Tagged("error", "none", "error")

AddressInv ==
  /\ variant = "fallback"
  /\ text \in Texts
  /\ failed <=> at = "has returned" /\ text = "neither"
  /\ NothingDiscarded
  /\ Progress

FromStringInv ==
  IF part = "fromString" THEN AddressInv ELSE at = "tries IPv4"

(* An operation changes one variable and discards nothing. *)
Becomes(s, tag) ==
  /\ slot'[s].tag = tag
  /\ \A t \in Slots \ {s} : slot'[t].tag = slot[t].tag
  /\ variant' = variant /\ failed' = failed /\ NothingDiscarded'

LEMMA MakeBecomes ==
  ASSUME IndInv, NothingDiscarded, NEW s \in Slots, NEW o \in Objects, NEW tag,
         Make(s, o, tag)
  PROVE  Becomes(s, tag)
BY DEF IndInv, TypeOK, NothingDiscarded, Make, Becomes

LEMMA ParseBecomes ==
  ASSUME IndInv, AddressInv, NEW s \in Slots, NEW version, Parse(version, s)
  PROVE  Becomes(s, IF text = version THEN "success" ELSE "error")
<1> PICK o \in Objects : IF text = version THEN MakeSuccess(s, o) ELSE MakeError(s, o)
  BY DEF Parse
<1>1. NothingDiscarded
  BY DEF AddressInv
<1>2. CASE text = version
  BY <1>1, <1>2, MakeBecomes DEF MakeSuccess
<1>3. CASE text # version
  BY <1>1, <1>3, MakeBecomes DEF MakeError
<1> QED
  BY <1>2, <1>3

LEMMA GetSuccessBecomes ==
  ASSUME IndInv, AddressInv, NEW s \in Slots, GetSuccess(s)
  PROVE  Becomes(s, "empty")
<1>1. variant = "fallback" /\ NothingDiscarded
  BY DEF AddressInv
<1>2. slot' = [slot EXCEPT ![s] = [tag |-> "empty", object |-> NoObject]]
  BY <1>1 DEF GetSuccess, Empty
<1>3. owner' = [owner EXCEPT ![slot[s].object] = "success"]
  BY DEF GetSuccess
<1>4. variant' = variant /\ failed' = failed
  BY DEF GetSuccess
<1> QED
  BY <1>1, <1>2, <1>3, <1>4 DEF IndInv, TypeOK, NothingDiscarded, Becomes

LEMMA GetErrorBecomes ==
  ASSUME IndInv, AddressInv, NEW s \in Slots, slot[s].tag = "error", GetError(s)
  PROVE  Becomes(s, "empty")
<1>1. variant = "fallback" /\ NothingDiscarded
  BY DEF AddressInv
<1>2. slot' = [slot EXCEPT ![s] = [tag |-> "empty", object |-> NoObject]]
  BY <1>1 DEF GetError, Empty
<1>3. owner' = [owner EXCEPT ![slot[s].object] = "error"]
  BY DEF GetError
<1>4. variant' = variant /\ failed' = failed
  BY DEF GetError
<1> QED
  BY <1>1, <1>2, <1>3, <1>4 DEF IndInv, TypeOK, NothingDiscarded, Becomes

(* The destructor of a variable whose object was received passes, and that  *)
(* of one that still has an object aborts.                                  *)
LEMMA LeaveScopeBecomes ==
  ASSUME IndInv, AddressInv, NEW s \in Slots, NEW from, NEW to, LeaveScope(s, from, to)
  PROVE  /\ slot[s].tag = "none" => UNCHANGED vars
         /\ slot[s].tag = "empty" => Becomes(s, "none")
         /\ slot[s].tag \in {"success", "error"} =>
              failed' = TRUE /\ UNCHANGED <<variant, slot, owner, made>>
<1>1. variant = "fallback" /\ NothingDiscarded
  BY DEF AddressInv
<1>2. MayDestroy(s) <=> slot[s].tag = "empty"
  BY <1>1 DEF MayDestroy
<1>3. CASE slot[s].tag = "none"
  BY <1>3 DEF LeaveScope, Live
<1>4. CASE slot[s].tag = "empty"
  <2>1. Destroy(s)
    BY <1>2, <1>4 DEF LeaveScope, Live, AssertionFails
  <2>2. slot' = [slot EXCEPT ![s] = [tag |-> "none", object |-> NoObject]]
    BY <2>1 DEF Destroy, None
  <2>3. slot[s].object = NoObject
    BY <1>4 DEF IndInv, TypeOK, Holds
  <2>4. owner' = owner /\ variant' = variant /\ failed' = failed
    BY <2>1, <2>3 DEF Destroy, Drop, Holds
  <2>5. Becomes(s, "none")
    BY <1>1, <2>2, <2>4 DEF IndInv, TypeOK, NothingDiscarded, Becomes
  <2> QED
    BY <1>4, <2>5
<1>5. CASE slot[s].tag \in {"success", "error"}
  <2>1. AssertionFails(MayDestroy(s))
    BY <1>2, <1>5 DEF LeaveScope, Live, Destroy, Asserted
  <2> QED
    BY <1>5, <2>1 DEF AssertionFails
<1> QED
  BY <1>3, <1>4, <1>5 DEF IndInv, TypeOK, Tags

-----------------------------------------------------------------------------
LEMMA SlotsDiffer ==
  /\ from_v4 \in Slots /\ from_v6 \in Slots /\ returned \in Slots
  /\ from_v4 # from_v6 /\ from_v4 # returned /\ from_v6 # returned
BY AddressAssumption

(* What becomes of the three variables when one of them changes. *)
LEMMA TaggedStep ==
  ASSUME NEW v4, NEW v6, NEW r, NEW tag, Tagged(v4, v6, r)
  PROVE  /\ Becomes(from_v4, tag) => Tagged(tag, v6, r)'
         /\ Becomes(from_v6, tag) => Tagged(v4, tag, r)'
         /\ Becomes(returned, tag) => Tagged(v4, v6, tag)'
BY SlotsDiffer DEF Tagged, Becomes

LEMMA AddressStep ==
  ASSUME IndInv, AddressInv, AddressNext
  PROVE  AddressInv'
<1> USE SlotsDiffer
<1>1. text' = text
  BY DEF AddressNext, ParseIPv4, ParseIPv6, TakeIPv4, TakeIPv6, DropError, TakeError,
         Return, LeaveScope, GoesTo
<1>2. SUFFICES /\ variant' = variant /\ NothingDiscarded' /\ Progress'
               /\ failed' <=> at' = "has returned" /\ text = "neither"
  BY <1>1 DEF AddressInv
<1>3. variant = "fallback" /\ NothingDiscarded /\ text \in {"IPv4", "IPv6", "neither"}
      /\ (failed <=> at = "has returned" /\ text = "neither")
  BY DEF AddressInv, Texts
<1>4. CASE ParseIPv4
  <2>1. Tagged("none", "none", "none")
    BY <1>4 DEF AddressInv, Progress, ParseIPv4
  <2>2. Becomes(from_v4, IF text = "IPv4" THEN "success" ELSE "error")
    BY <1>4, ParseBecomes DEF ParseIPv4
  <2>3. Tagged(IF text = "IPv4" THEN "success" ELSE "error", "none", "none")'
    BY <1>1, <2>1, <2>2, TaggedStep
  <2>4. at' = IF text = "IPv4" THEN "has IPv4" ELSE "tries IPv6"
    BY <1>4 DEF ParseIPv4, GoesTo
  <2>5. Progress'
    BY <1>1, <2>3, <2>4 DEF Progress
  <2> QED
    BY <1>3, <1>4, <2>2, <2>4, <2>5 DEF Becomes, ParseIPv4
<1>5. CASE ParseIPv6
  <2>1. Tagged("error", "none", "none") /\ text # "IPv4"
    BY <1>5 DEF AddressInv, Progress, ParseIPv6
  <2>2. Becomes(from_v6, IF text = "IPv6" THEN "success" ELSE "error")
    BY <1>5, ParseBecomes DEF ParseIPv6
  <2>3. Tagged("error", IF text = "IPv6" THEN "success" ELSE "error", "none")'
    BY <1>1, <2>1, <2>2, TaggedStep
  <2>4. at' = IF text = "IPv6" THEN "has IPv6" ELSE "has none"
    BY <1>5 DEF ParseIPv6, GoesTo
  <2>5. Progress'
    BY <1>1, <1>3, <2>1, <2>3, <2>4 DEF Progress
  <2> QED
    BY <1>3, <1>5, <2>2, <2>4, <2>5 DEF Becomes, ParseIPv6
<1>6. CASE TakeIPv4
  <2>1. Tagged("success", "none", "none") /\ text = "IPv4"
    BY <1>6 DEF AddressInv, Progress, TakeIPv4
  <2>2. Becomes(from_v4, "empty") /\ at' = "returns address"
    BY <1>6, GetSuccessBecomes DEF TakeIPv4, GoesTo
  <2>3. Tagged("empty", "none", "none")'
    BY <2>1, <2>2, TaggedStep
  <2>4. Progress'
    BY <1>1, <2>1, <2>2, <2>3 DEF Progress, Tried
  <2> QED
    BY <1>3, <1>6, <2>2, <2>4 DEF Becomes, TakeIPv4
<1>7. CASE TakeIPv6
  <2>1. Tagged("error", "success", "none") /\ text = "IPv6"
    BY <1>7 DEF AddressInv, Progress, TakeIPv6
  <2>2. Becomes(from_v6, "empty") /\ at' = "drops error"
    BY <1>7, GetSuccessBecomes DEF TakeIPv6, GoesTo
  <2>3. Tagged("error", "empty", "none")'
    BY <2>1, <2>2, TaggedStep
  <2>4. Progress'
    BY <1>1, <2>1, <2>2, <2>3 DEF Progress
  <2> QED
    BY <1>3, <1>7, <2>2, <2>4 DEF Becomes, TakeIPv6
<1>8. CASE DropError
  <2>1. Tagged("error", "empty", "none") /\ text = "IPv6"
    BY <1>8 DEF AddressInv, Progress, DropError
  <2>2. Becomes(from_v4, "empty") /\ at' = "returns address"
    BY <1>8, <2>1, GetErrorBecomes DEF DropError, GoesTo, Tagged
  <2>3. Tagged("empty", "empty", "none")'
    BY <2>1, <2>2, TaggedStep
  <2>4. Progress'
    BY <1>1, <2>1, <2>2, <2>3 DEF Progress, Tried
  <2> QED
    BY <1>3, <1>8, <2>2, <2>4 DEF Becomes, DropError
<1>9. CASE TakeError
  <2>1. Tagged("error", "error", "none") /\ text = "neither"
    BY <1>9 DEF AddressInv, Progress, TakeError
  <2>2. Becomes(from_v6, "empty") /\ at' = "returns error"
    BY <1>9, <2>1, GetErrorBecomes DEF TakeError, GoesTo, Tagged
  <2>3. Tagged("error", "empty", "none")'
    BY <2>1, <2>2, TaggedStep
  <2>4. Progress'
    BY <1>1, <2>1, <2>2, <2>3 DEF Progress
  <2> QED
    BY <1>3, <1>9, <2>2, <2>4 DEF Becomes, TakeError
<1>10. CASE Return /\ at = "returns address"
  <2> PICK o \in Objects : MakeSuccess(returned, o)
    BY <1>10 DEF Return
  <2>1. Becomes(returned, "success") /\ at' = "leaves IPv6"
    BY <1>3, <1>10, MakeBecomes DEF MakeSuccess, Return, GoesTo
  <2>2. Tried("none")
    BY <1>10 DEF AddressInv, Progress
  <2>3. Tried("success")'
    BY <1>1, <2>1, <2>2, TaggedStep DEF Tried
  <2>4. Progress'
    BY <1>1, <2>1, <2>3 DEF Progress
  <2> QED
    BY <1>3, <1>10, <2>1, <2>4 DEF Becomes
<1>11. CASE Return /\ at = "returns error"
  <2> PICK o \in Objects : MakeError(returned, o)
    BY <1>11 DEF Return
  <2>1. Becomes(returned, "error") /\ at' = "leaves IPv6"
    BY <1>3, <1>11, MakeBecomes DEF MakeError, Return, GoesTo
  <2>2. Tagged("error", "empty", "none") /\ text = "neither"
    BY <1>11 DEF AddressInv, Progress
  <2>3. Tagged("error", "empty", "error")'
    BY <2>1, <2>2, TaggedStep
  <2>4. Progress'
    BY <1>1, <2>1, <2>2, <2>3 DEF Progress
  <2> QED
    BY <1>3, <1>11, <2>1, <2>4 DEF Becomes
<1>12. CASE LeaveScope(from_v6, "leaves IPv6", "leaves IPv4")
  <2>1. at = "leaves IPv6" /\ at' = "leaves IPv4"
    BY <1>12 DEF LeaveScope, GoesTo
  <2>2. CASE text = "IPv4"
    <3>1. Tagged("empty", "none", "success")
      BY <2>1, <2>2 DEF AddressInv, Progress, Tried
    <3>2. UNCHANGED vars
      BY <1>12, <3>1, LeaveScopeBecomes DEF Tagged
    <3>3. Tagged("empty", "none", "success")'
      BY <3>1, <3>2 DEF vars, Tagged
    <3> QED
      BY <1>1, <1>3, <2>1, <2>2, <3>2, <3>3 DEF vars, NothingDiscarded, Progress
  <2>3. CASE text = "IPv6"
    <3>1. Tagged("empty", "empty", "success")
      BY <2>1, <2>3 DEF AddressInv, Progress, Tried
    <3>2. Becomes(from_v6, "none")
      BY <1>12, <3>1, LeaveScopeBecomes DEF Tagged
    <3>3. Tagged("empty", "none", "success")'
      BY <3>1, <3>2, TaggedStep
    <3> QED
      BY <1>1, <1>3, <2>1, <2>3, <3>2, <3>3 DEF Becomes, Progress
  <2>4. CASE text = "neither"
    <3>1. Tagged("error", "empty", "error")
      BY <2>1, <2>4 DEF AddressInv, Progress, Tried
    <3>2. Becomes(from_v6, "none")
      BY <1>12, <3>1, LeaveScopeBecomes DEF Tagged
    <3>3. Tagged("error", "none", "error")'
      BY <3>1, <3>2, TaggedStep
    <3> QED
      BY <1>1, <1>3, <2>1, <2>4, <3>2, <3>3 DEF Becomes, Progress
  <2> QED
    BY <1>3, <2>2, <2>3, <2>4
<1>13. CASE LeaveScope(from_v4, "leaves IPv4", "has returned")
  <2>1. at = "leaves IPv4" /\ at' = "has returned"
    BY <1>13 DEF LeaveScope, GoesTo
  <2>2. CASE text \in {"IPv4", "IPv6"}
    <3>1. Tagged("empty", "none", "success")
      BY <2>1, <2>2 DEF AddressInv, Progress
    <3>2. Becomes(from_v4, "none")
      BY <1>13, <3>1, LeaveScopeBecomes DEF Tagged
    <3>3. Tagged("none", "none", "success")'
      BY <3>1, <3>2, TaggedStep
    <3> QED
      BY <1>1, <1>3, <2>1, <2>2, <3>2, <3>3 DEF Becomes, Progress
  <2>3. CASE text = "neither"
    <3>1. Tagged("error", "none", "error")
      BY <2>1, <2>3 DEF AddressInv, Progress
    <3>2. failed' = TRUE /\ UNCHANGED <<variant, slot, owner, made>>
      BY <1>13, <3>1, LeaveScopeBecomes DEF Tagged
    <3>3. Tagged("error", "none", "error")'
      BY <3>1, <3>2 DEF Tagged
    <3> QED
      BY <1>1, <1>3, <2>1, <2>3, <3>2, <3>3 DEF NothingDiscarded, Progress
  <2> QED
    BY <1>3, <2>2, <2>3
<1> QED
  BY <1>4, <1>5, <1>6, <1>7, <1>8, <1>9, <1>10, <1>11, <1>12, <1>13
  DEF AddressNext, Return

LEMMA FromStringInit == LibraryInit => FromStringInv
<1> SUFFICES ASSUME LibraryInit PROVE FromStringInv
  OBVIOUS
<1>1. CASE part = "fromString"
  <2>1. AddressInit
    BY <1>1 DEF LibraryInit
  <2>2. AddressInv
    BY <2>1, SlotsDiffer
    DEF AddressInit, Init, AddressInv, NothingDiscarded, Progress, Tagged, None
  <2> QED
    BY <1>1, <2>2 DEF FromStringInv
<1>2. CASE part = "results"
  BY <1>2 DEF LibraryInit, FromStringInv
<1>3. CASE part = "images"
  BY <1>3 DEF LibraryInit, FromStringInv, NoResults
<1>4. CASE part \notin {"results", "fromString", "images"}
  BY <1>4 DEF LibraryInit, FromStringInv, NoResults
<1> QED
  BY <1>1, <1>2, <1>3, <1>4

LEMMA FromStringStep ==
  ASSUME IndInv, FromStringInv, [LibraryNext]_<<part, inputs, vars, program, imageVars>>
  PROVE  FromStringInv'
<1>1. part' = part
  BY DEF LibraryNext, Ask
<1>2. CASE part = "fromString"
  <2>1. AddressInv
    BY <1>2 DEF FromStringInv
  <2>2. CASE AddressNext
    BY <1>1, <1>2, <2>1, <2>2, AddressStep DEF FromStringInv
  <2>3. CASE UNCHANGED <<vars, program>>
    <3>1. AddressInv'
      BY <2>1, <2>3 DEF vars, program, AddressInv, NothingDiscarded, Progress, Tried,
             Tagged
    <3> QED
      BY <1>1, <1>2, <3>1 DEF FromStringInv
  <2> QED
    BY <1>2, <2>2, <2>3 DEF LibraryNext, Ask
<1>3. CASE part # "fromString"
  <2>1. at' = at
    BY <1>3 DEF LibraryNext, Ask, program
  <2> QED
    BY <1>1, <1>3, <2>1 DEF FromStringInv
<1> QED
  BY <1>2, <1>3

(* fromString answers every text with an address or aborts for one that is  *)
(* none: where it returns, all its Results but the one returned are gone    *)
(* and nothing that was in them is lost.                                    *)
THEOREM FromStringIsExact == LibrarySpec => []FromStringAnswers
<1>1. IndInv /\ FromStringInv /\ [LibraryNext]_<<part, inputs, vars, program, imageVars>>
        => FromStringInv'
  BY FromStringStep
<1>2. FromStringInv => FromStringAnswers
  <2> SUFFICES ASSUME FromStringInv, at = "has returned" PROVE FromStringAnswers
    BY DEF FromStringAnswers
  <2>1. AddressInv
    BY DEF FromStringInv
  <2> QED
    BY <2>1, SlotsDiffer
    DEF AddressInv, Texts, Progress, Tried, Tagged, FromStringAnswers, Live
<1>3. LibrarySpec => []IndInv
  BY LibraryUsesResults, Invariance, PTL
<1> QED
  BY <1>1, <1>2, <1>3, FromStringInit, PTL DEF LibrarySpec

-----------------------------------------------------------------------------
(* ReadPNG and WritePNG.  At every line of the two it is known what is on    *)
(* the heap, and how often each row of the buffer was filled: after n whole  *)
(* passes and y rows of the next, the first y were filled once more.         *)
LEMMA PictureTypes ==
  ASSUME NEW p \in Pictures
  PROVE  /\ p.width \in Nat /\ p.width > 0
         /\ p.height \in Nat /\ p.height > 0
         /\ p.passes \in Nat /\ p.passes > 0
         /\ p.alpha \in BOOLEAN
<1>1. {p.width, p.height, p.passes} \subseteq Nat \ {0} /\ p.alpha \in BOOLEAN
  BY ImageAssumption
<1> QED
  BY <1>1

LEMMA TimesGrows ==
  ASSUME NEW h \in Nat, h > 0, NEW q \in Int
  PROVE  /\ q >= 1 => q * h >= h
         /\ q <= -1 => q * h <= -h
         /\ q * h \in Int
<1>1. q >= 1 => (q - 1) * h >= 0
  OBVIOUS
<1>2. q <= -1 => (-1 - q) * h >= 0
  OBVIOUS
<1> QED
  BY <1>1, <1>2

LEMMA RemainderAt ==
  ASSUME NEW h \in Nat, h > 0, NEW n \in Nat, NEW y \in 0..(h - 1)
  PROVE  (n * h + y) % h = y
<1> DEFINE a == n * h + y
<1>1. a \in Nat /\ n * h \in Nat
  OBVIOUS
<1>2. PICK q, r : q = a \div h /\ r = a % h
  OBVIOUS
<1>3. q \in Int /\ r \in 0..(h - 1) /\ a = h * q + r
  BY <1>1, <1>2
<1>4. (q - n) * h = y - r
  BY <1>3
<1>5. y - r < h /\ y - r > -h
  BY <1>3
<1>6. q - n \in Int /\ (q - n >= 1 \/ q - n <= -1 \/ q = n)
  BY <1>3
<1>7. q = n
  BY <1>4, <1>5, <1>6, TimesGrows
<1>8. r = y
  BY <1>3, <1>7
<1> QED
  BY <1>2, <1>8

LEMMA LastLine ==
  ASSUME NEW h \in Nat, h > 0, NEW p \in Nat, NEW n \in 0..(p - 1), NEW y \in 0..(h - 1)
  PROVE  n * h + y + 1 = p * h <=> n + 1 = p /\ y + 1 = h
<1>1. n * h \in Nat /\ p * h \in Nat /\ (p - n - 1) * h = p * h - n * h - h
  OBVIOUS
<1>2. CASE n + 1 = p
  BY <1>1, <1>2
<1>3. CASE n + 1 # p
  <2>1. p - n - 1 \in Int /\ p - n - 1 >= 1
    BY <1>3
  <2>2. (p - n - 1) * h >= h
    BY <2>1, TimesGrows
  <2> QED
    BY <1>1, <1>3, <2>2
<1> QED
  BY <1>2, <1>3

Filled(n, y) ==
  \A r \in 0..(picture.height - 1) : rows[r] = IF r < y THEN n + 1 ELSE n

Untouched == lines = 0 /\ Filled(0, 0)

Filling ==
  \E n \in 0..(picture.passes - 1), y \in 0..(picture.height - 1) :
    lines = n * picture.height + y /\ Filled(n, y)

Bytes == 3 * picture.width * picture.height

ReadInv ==
  \/ step = "starts" /\ heap = {} /\ Untouched
  \/ step = "creates info" /\ heap = {"png"} /\ Untouched
  \/ step = "creates end info" /\ heap = {"png", "info"} /\ Untouched
  \/ step = "reads info" /\ heap = Structures \cup {"data"} /\ Untouched
  \/ step = "reads rows" /\ heap = Structures \cup {"data", "rgb"} /\ Filling
  \/ /\ step = "reads end" /\ heap = Structures \cup {"data", "rgb"}
     /\ Filled(picture.passes, 0)
  \/ step = "returned" /\ result = "image" /\ heap = {} /\ Filled(picture.passes, 0)
     /\ pixels = [k \in 0..((Bytes % Word) - 1) |-> ByteAt(k)]
  \/ step = "returned" /\ result = "error" /\ ~trapped
     /\ heap \in {{}, {"png"}, {"png", "info"}, Structures}
  \/ step = "returned" /\ result = "error" /\ trapped
     /\ heap \in {Structures \cup {"data"}, Structures \cup {"data", "rgb"}}

WriteInv ==
  \/ step = "starts" /\ heap = {} /\ lines = 0
  \/ step = "creates info" /\ heap = {"png"} /\ lines = 0
  \/ step = "writes header" /\ heap = {"png", "info"} /\ lines = 0
  \/ step = "writes rows" /\ heap = {"png", "info"} /\ lines < picture.height
  \/ step = "writes end" /\ heap = {"png", "info"} /\ lines = picture.height
  \/ step = "returned" /\ heap \subseteq {"info"} /\ (heap # {} => trapped)
     /\ result \in {"true", "false"} /\ (result = "true" => lines = picture.height)

ImageInv ==
  /\ call \in {"ReadPNG", "WritePNG"} /\ keep_alpha \in BOOLEAN /\ picture \in Pictures
  /\ lines \in Nat
  /\ rows \in [0..(picture.height - 1) -> Nat]
  /\ step # "returned" => result = "none" /\ trapped = FALSE
  /\ call = "ReadPNG" => ReadInv
  /\ call = "WritePNG" => WriteInv

(* What has been read is the picture unless an alpha channel was kept in    *)
(* the rows or the number of bytes does not fit.                            *)
LEMMA PictureIff ==
  ASSUME picture \in Pictures, keep_alpha \in BOOLEAN,
         rows \in [0..(picture.height - 1) -> Nat], Filled(picture.passes, 0),
         pixels = [k \in 0..((Bytes % Word) - 1) |-> ByteAt(k)]
  PROVE  IsPicture <=> /\ ~has_alpha \/ picture.width * picture.height = 1
                       /\ Bytes < Word
<1> DEFINE w == picture.width
           h == picture.height
           line == 3 * w
           whole == [k \in 0..(line * h - 1) |->
                       [y |-> k \div line, x |-> (k % line) \div 3, channel |-> k % 3]]
<1>1. w \in Nat /\ w > 0 /\ h \in Nat /\ h > 0
  BY PictureTypes
<1>2. PICK area : area = w * h
  OBVIOUS
<1>3. area \in Nat /\ area > 0
  <2>1. w * h >= h
    BY <1>1, TimesGrows
  <2> QED
    BY <1>1, <1>2, <2>1
<1>4. Bytes = 3 * area /\ line * h = 3 * area
  BY <1>1, <1>2 DEF Bytes
<1>5. Word \in Nat /\ Word > 0
  BY ImageAssumption
<1>6. IsPicture <=> pixels = whole
  <2>1. \A y \in DOMAIN rows : rows[y] = picture.passes
    BY DEF Filled
  <2> QED
    BY <2>1 DEF IsPicture
<1>7. PICK stored : stored = (3 * area) % Word
  OBVIOUS
<1>8. /\ stored \in Nat /\ stored <= 3 * area
      /\ stored = 3 * area <=> 3 * area < Word
  <2>1. stored \in 0..(Word - 1)
    BY <1>3, <1>5, <1>7
  <2>2. 3 * area \in 0..(Word - 1) => stored = 3 * area
    BY <1>3, <1>5, <1>7, RemainderOf
  <2> QED
    BY <1>3, <1>5, <2>1, <2>2
<1>9. pixels = [k \in 0..(stored - 1) |-> ByteAt(k)]
  BY <1>4, <1>7
<1>10. DOMAIN pixels = 0..(stored - 1) /\ DOMAIN whole = 0..(3 * area - 1)
  BY <1>4, <1>9
<1>11. ASSUME pixels = whole PROVE stored = 3 * area
  <2>1. 0..(stored - 1) = 0..(3 * area - 1)
    BY <1>10, <1>11
  <2>2. 3 * area - 1 \in 0..(3 * area - 1)
    BY <1>3
  <2>3. 3 * area - 1 \in 0..(stored - 1)
    BY <2>1, <2>2
  <2> QED
    BY <1>3, <1>8, <2>3
<1>12. CASE stored # 3 * area
  BY <1>4, <1>6, <1>8, <1>11, <1>12
<1>13. ASSUME stored = 3 * area
       PROVE  pixels = whole <=> ~has_alpha \/ area = 1
  <2>1. CASE ~has_alpha
    <3>1. channels = 3 /\ stride = line
      BY <2>1 DEF channels, stride
    <3>2. \A k \in 0..(3 * area - 1) :
            ByteAt(k) = [y |-> k \div line, x |-> (k % line) \div 3, channel |-> k % 3]
      BY <3>1 DEF ByteAt
    <3>3. pixels = [k \in 0..(3 * area - 1) |->
                      [y |-> k \div line, x |-> (k % line) \div 3, channel |-> k % 3]]
      BY <1>9, <1>13, <3>2
    <3> QED
      BY <1>4, <2>1, <3>3
  <2>2. CASE has_alpha
    <3>1. channels = 4 /\ stride = 4 * w
      BY <2>2 DEF channels, stride
    <3>2. CASE area = 1
      <4>1. w = 1 /\ h = 1
        <5>1. w >= 2 => (w - 1) * h >= h
          BY <1>1, TimesGrows
        <5>2. (w - 1) * h = area - h
          BY <1>1, <1>2
        <5>3. w = 1
          BY <1>1, <1>3, <3>2, <5>1, <5>2
        <5> QED
          BY <1>1, <1>2, <3>2, <5>3
      <4>2. stride = 4 /\ line = 3
        BY <3>1, <4>1
      <4> HIDE DEF line
      <4>3. ASSUME NEW k \in 0..2
            PROVE  ByteAt(k) =
                     [y |-> k \div line, x |-> (k % line) \div 3, channel |-> k % 3]
        <5>1. k = 0 \/ k = 1 \/ k = 2
          BY <4>3
        <5>2. k \div 4 = 0 /\ k \div 3 = 0 /\ k % 4 = k /\ k % 3 = k
          BY <5>1
        <5>3. (k % 4) \div 4 = 0 /\ (k % 3) \div 3 = 0
          BY <5>2
        <5> QED
          BY <3>1, <4>2, <5>2, <5>3, Zenon DEF ByteAt
      <4>4. 0..(stored - 1) = 0..2 /\ 0..(line * h - 1) = 0..2
        BY <1>13, <3>2, <4>1, <4>2
      <4>5. pixels = whole
        BY <1>9, <4>3, <4>4, Zenon
      <4> QED
        BY <3>2, <4>5
    <3>3. CASE area # 1
      <4>1. 3 \in 0..(3 * area - 1)
        BY <1>3, <3>3
      <4>2. whole[3].channel = 3 % 3
        BY <1>4, <4>1
      <4>3. pixels[3].channel = 3 % 4
        <5>1. pixels[3] = ByteAt(3)
          BY <1>9, <1>13, <4>1
        <5>2. ByteAt(3).channel = 3 % channels
          BY DEF ByteAt
        <5> QED
          BY <3>1, <5>1, <5>2
      <4>4. 3 % 4 # 3 % 3
        OBVIOUS
      <4>5. pixels # whole
        BY <4>2, <4>3, <4>4, Zenon
      <4> QED
        BY <2>2, <3>3, <4>5
    <3> QED
      BY <3>2, <3>3
  <2> QED
    BY <2>1, <2>2
<1> QED
  BY <1>2, <1>4, <1>6, <1>8, <1>12, <1>13

-----------------------------------------------------------------------------
LEMMA ImageInitInv == ImageInit => ImageInv
<1> SUFFICES ASSUME ImageInit PROVE ImageInv
  OBVIOUS
<1>1. picture.height \in Nat /\ picture.height > 0
  BY PictureTypes DEF ImageInit
<1>2. rows \in [0..(picture.height - 1) -> Nat]
  BY DEF ImageInit
<1>3. Untouched
  BY <1>1 DEF ImageInit, Untouched, Filled
<1>4. ReadInv /\ WriteInv
  BY <1>3 DEF ImageInit, ReadInv, WriteInv
<1> QED
  BY <1>2, <1>4 DEF ImageInit, ImageInv

(* The parts of the invariant that say nothing of the line that is reached. *)
LEMMA ImageFrame ==
  ASSUME ImageInv, UNCHANGED <<input, rows>>
  PROVE  /\ call' \in {"ReadPNG", "WritePNG"} /\ keep_alpha' \in BOOLEAN
         /\ picture' \in Pictures
         /\ rows' \in [0..(picture'.height - 1) -> Nat]
         /\ Filled(0, 0) => Filled(0, 0)'
         /\ Filled(picture.passes, 0) => Filled(picture.passes, 0)'
BY DEF ImageInv, input, Filled

LEMMA CreateReadStep ==
  ASSUME ImageInv, CreateRead
  PROVE  ImageInv'
<1>1. UNCHANGED <<input, rows, lines>> /\ call = "ReadPNG" /\ ReadInv
  BY DEF CreateRead, Continue, ReturnError, Leave, ImageInv
<1>2. Untouched
  BY <1>1 DEF ReadInv, CreateRead, Continue
<1>3. Untouched'
  BY <1>1, <1>2, ImageFrame DEF Untouched
<1>4. CASE Continue("starts", "creates info", {"png"})
  <2>1. ReadInv'
    BY <1>1, <1>3, <1>4 DEF ReadInv, Continue
  <2> QED
    BY <1>1, <1>4, <2>1, ImageFrame DEF ImageInv, Continue, input
<1>5. CASE Continue("creates info", "creates end info", {"info"})
  <2>1. ReadInv'
    BY <1>1, <1>3, <1>5 DEF ReadInv, Continue
  <2> QED
    BY <1>1, <1>5, <2>1, ImageFrame DEF ImageInv, Continue, input
<1>6. CASE Continue("creates end info", "reads info", {"end_info", "data"})
  <2>1. ReadInv'
    BY <1>1, <1>3, <1>6 DEF ReadInv, Continue, Structures
  <2> QED
    BY <1>1, <1>6, <2>1, ImageFrame DEF ImageInv, Continue, input
<1>7. CASE step \in {"starts", "creates info", "creates end info"} /\ ReturnError
  <2>1. heap' \in {{}, {"png"}, {"png", "info"}}
    BY <1>1, <1>7 DEF ReadInv, ReturnError, Leave, InScope
  <2>2. ReadInv'
    BY <1>1, <1>7, <2>1 DEF ReadInv, ReturnError, Leave, ImageInv
  <2> QED
    BY <1>1, <1>7, <2>2, ImageFrame DEF ImageInv, ReturnError, Leave, input
<1> QED
  BY <1>4, <1>5, <1>6, <1>7 DEF CreateRead

LEMMA ReadInfoStep ==
  ASSUME ImageInv, ReadInfo
  PROVE  ImageInv'
<1>1. UNCHANGED <<input, rows, lines>> /\ call = "ReadPNG" /\ ReadInv
  BY DEF ReadInfo, Continue, ReturnError, Leave, ImageInv
<1>2. Untouched /\ heap = Structures \cup {"data"}
  BY <1>1 DEF ReadInv, ReadInfo
<1>3. CASE Continue("reads info", "reads rows", {"rgb"})
  <2>1. Filling'
    <3>1. /\ picture.height \in Nat /\ picture.height > 0
          /\ picture.passes \in Nat /\ picture.passes > 0
      BY PictureTypes DEF ImageInv
    <3>2. lines' = 0 * picture.height + 0 /\ 0 \in 0..(picture.passes - 1)
          /\ 0 \in 0..(picture.height - 1) /\ picture' = picture
      BY <1>1, <1>2, <3>1 DEF Untouched, input
    <3>3. Filled(0, 0)'
      BY <1>1, <1>2, ImageFrame DEF Untouched
    <3> QED
      BY <3>2, <3>3 DEF Filling
  <2>2. ReadInv'
    BY <1>2, <1>3, <2>1 DEF ReadInv, Continue, Structures
  <2> QED
    BY <1>1, <1>3, <2>2, ImageFrame DEF ImageInv, Continue, input
<1>4. CASE ReturnError
  <2>1. heap' = Structures
    BY <1>2, <1>4 DEF ReturnError, Leave, InScope, Structures
  <2>2. ReadInv'
    BY <1>4, <2>1 DEF ReadInv, ReturnError, Leave, ImageInv, ReadInfo
  <2> QED
    BY <1>1, <1>4, <2>2, ImageFrame DEF ImageInv, ReturnError, Leave, input
<1> QED
  BY <1>3, <1>4 DEF ReadInfo

LEMMA ReadRowStep ==
  ASSUME ImageInv, ReadRow
  PROVE  ImageInv'
<1>1. PICK h \in Nat, p \in Nat : /\ h = picture.height /\ h > 0
                                 /\ p = picture.passes /\ p > 0
  BY PictureTypes DEF ImageInv
<1>2. h \in Nat /\ h > 0 /\ p \in Nat /\ p > 0
  BY <1>1
<1>3. /\ UNCHANGED <<input, heap, result, pixels, trapped>>
      /\ call = "ReadPNG" /\ picture' = picture
  BY DEF ReadRow, input
<1>4. Filling /\ heap = Structures \cup {"data", "rgb"} /\ step = "reads rows"
  BY DEF ReadRow, ImageInv, ReadInv
<1>5. PICK n \in 0..(p - 1), y \in 0..(h - 1) : lines = n * h + y /\ Filled(n, y)
  BY <1>4, <1>1 DEF Filling
<1>6. n \in Nat /\ n < p /\ y \in Nat /\ y < h
  BY <1>2
<1>7. RowOf(lines) = y
  <2>1. n \in Nat
    BY <1>6
  <2>2. (n * h + y) % h = y
    BY <1>2, <2>1, RemainderAt
  <2> QED
    BY <1>5, <1>1, <2>2 DEF RowOf
<1>8. lines' = n * h + y + 1
  BY <1>5 DEF ReadRow
<1>9. rows \in [0..(h - 1) -> Nat]
  BY <1>1 DEF ImageInv
<1>10. rows' = [rows EXCEPT ![y] = rows[y] + 1]
  BY <1>7 DEF ReadRow
<1>11. \A r \in 0..(h - 1) : rows'[r] = IF r < y + 1 THEN n + 1 ELSE n
  <2> TAKE r \in 0..(h - 1)
  <2>1. rows[r] = IF r < y THEN n + 1 ELSE n
    BY <1>5, <1>1 DEF Filled
  <2>2. rows'[r] = IF r = y THEN rows[y] + 1 ELSE rows[r]
    BY <1>9, <1>10
  <2>3. rows[y] = n
    BY <1>5, <1>1 DEF Filled
  <2> QED
    BY <1>6, <2>1, <2>2, <2>3
<1>12. heap' = Structures \cup {"data", "rgb"}
  BY <1>3, <1>4, Zenon
<1>13. step' = IF n + 1 = p /\ y + 1 = h THEN "reads end" ELSE "reads rows"
  <2>1. step' = IF lines' = p * h THEN "reads end" ELSE "reads rows"
    BY <1>4, <1>1 DEF ReadRow
  <2>2. lines' = p * h <=> n + 1 = p /\ y + 1 = h
    BY <1>2, <1>8, <1>6, LastLine
  <2> QED
    BY <2>1, <2>2
<1>14. ASSUME n + 1 = p /\ y + 1 = h
      PROVE  ReadInv'
  <2>1. Filled(p, 0)'
    BY <1>2, <1>3, <1>11, <1>14, <1>1 DEF Filled
  <2>2. Filled(picture.passes, 0)'
    BY <1>3, <1>1, <2>1 DEF Filled
  <2>3. step' = "reads end"
    BY <1>13, <1>14
  <2> QED
    BY <1>12, <2>2, <2>3 DEF ReadInv
<1>15. ASSUME n + 1 < p /\ y + 1 = h
      PROVE  ReadInv'
  <2>1. PICK m : m = n * h
    OBVIOUS
  <2>2. n + 1 \in 0..(p - 1) /\ 0 \in 0..(h - 1) /\ lines' = (n + 1) * h + 0
    <3>1. m \in Int /\ (n + 1) * h = m + h
      BY <1>2, <1>6, <2>1
    <3>2. lines' = m + y + 1
      BY <1>8, <2>1
    <3> QED
      BY <1>2, <1>15, <1>6, <3>1, <3>2
  <2>3. \A r \in 0..(h - 1) : rows'[r] = IF r < 0 THEN n + 1 + 1 ELSE n + 1
    BY <1>11, <1>15, <1>6
  <2>4. Filling'
    BY <1>3, <1>1, <2>2, <2>3 DEF Filling, Filled
  <2>5. step' = "reads rows"
    <3>1. ~(n + 1 = p /\ y + 1 = h)
      BY <1>2, <1>15, <1>6
    <3> QED
      BY <1>13, <3>1, Zenon
  <2> QED
    BY <1>12, <2>4, <2>5 DEF ReadInv
<1>16. ASSUME y + 1 < h
      PROVE  ReadInv'
  <2>1. y + 1 \in 0..(h - 1) /\ lines' = n * h + (y + 1)
    BY <1>2, <1>8, <1>16, <1>6
  <2>2. Filling'
    BY <1>3, <1>11, <1>1, <2>1 DEF Filling, Filled
  <2>3. step' = "reads rows"
    <3>1. ~(n + 1 = p /\ y + 1 = h)
      BY <1>2, <1>16, <1>6
    <3> QED
      BY <1>13, <3>1, Zenon
  <2> QED
    BY <1>12, <2>2, <2>3 DEF ReadInv
<1>17. ReadInv'
  <2>1. \/ n + 1 = p /\ y + 1 = h
        \/ n + 1 < p /\ y + 1 = h
        \/ y + 1 < h
    BY <1>2, <1>6
  <2> QED
    BY <1>14, <1>15, <1>16, <2>1, Zenon
<1>18. lines' \in Nat
  <2>1. lines' = lines + 1
    BY DEF ReadRow
  <2>2. lines \in Nat
    BY DEF ImageInv
  <2> QED
    BY <2>1, <2>2
<1>19. rows' \in [0..(picture'.height - 1) -> Nat]
  BY <1>3, <1>9, <1>10, <1>1
<1> QED
  BY <1>3, <1>4, <1>17, <1>18, <1>19 DEF ImageInv, input

LEMMA ReadEndStep ==
  ASSUME ImageInv, ReadEnd
  PROVE  ImageInv'
<1>1. UNCHANGED <<input, rows, lines>> /\ call = "ReadPNG" /\ picture' = picture
  BY DEF ReadEnd, input
<1>2. Filled(picture.passes, 0) /\ heap = Structures \cup {"data", "rgb"}
  BY DEF ReadEnd, ImageInv, ReadInv
<1>3. Filled(picture.passes, 0)'
  BY <1>1, <1>2, ImageFrame
<1>4. heap' = {}
  BY <1>2 DEF ReadEnd, InScope, Structures
<1>5. pixels' = [k \in 0..((Bytes % Word) - 1) |-> ByteAt(k)]
  BY DEF ReadEnd, Copied, Bytes
<1>6. Bytes' = Bytes /\ \A k : ByteAt(k)' = ByteAt(k)
  BY <1>1 DEF Bytes, ByteAt, stride, channels, has_alpha, input
<1>7. ReadInv'
  BY <1>3, <1>4, <1>5, <1>6 DEF ReadInv, ReadEnd
<1> QED
  BY <1>1, <1>7, ImageFrame DEF ImageInv, ReadEnd, input

LEMMA ReadTrapStep ==
  ASSUME ImageInv, ReadTrap
  PROVE  ImageInv'
<1>1. UNCHANGED <<input, heap, rows, lines>> /\ call = "ReadPNG"
  BY DEF ReadTrap
<1>2. heap \in {Structures \cup {"data"}, Structures \cup {"data", "rgb"}}
  BY DEF ReadTrap, ImageInv, ReadInv
<1>3. ReadInv'
  BY <1>1, <1>2 DEF ReadInv, ReadTrap
<1> QED
  BY <1>1, <1>3, ImageFrame DEF ImageInv, ReadTrap, input

-----------------------------------------------------------------------------
LEMMA WriteStep ==
  ASSUME ImageInv, CreateWrite \/ WriteHeader \/ WriteRow \/ WriteEnd \/ WriteTrap
  PROVE  ImageInv'
<1>1. UNCHANGED <<input, rows>> /\ call = "WritePNG" /\ picture' = picture
  BY DEF CreateWrite, WriteHeader, WriteRow, WriteEnd, WriteTrap, Continue, Leave, input
<1>2. picture.height \in Nat /\ picture.height > 0 /\ lines \in Nat
  BY PictureTypes DEF ImageInv
<1>3. WriteInv
  BY <1>1 DEF ImageInv
<1>4. ASSUME WriteInv', lines' \in Nat,
             step' # "returned" => result' = "none" /\ trapped' = FALSE
      PROVE  ImageInv'
  BY <1>1, <1>4, ImageFrame DEF ImageInv, input
<1>5. step # "returned" => result = "none" /\ trapped = FALSE
  BY DEF ImageInv
<1>6. CASE CreateWrite
  <2>1. lines' = lines /\ trapped' = trapped
    BY <1>6 DEF CreateWrite, Continue, Leave
  <2>2. WriteInv'
    BY <1>1, <1>3, <1>5, <1>6, <2>1 DEF WriteInv, CreateWrite, Continue, Leave
  <2> QED
    BY <1>2, <1>4, <1>5, <1>6, <2>1, <2>2 DEF CreateWrite, Continue, Leave
<1>7. CASE WriteHeader
  <2>1. lines' = lines /\ trapped' = trapped
    BY <1>7 DEF WriteHeader, Continue, Leave
  <2>2. WriteInv'
    BY <1>1, <1>2, <1>3, <1>5, <1>7, <2>1 DEF WriteInv, WriteHeader, Continue, Leave
  <2> QED
    BY <1>2, <1>4, <1>5, <1>7, <2>1, <2>2 DEF WriteHeader, Continue, Leave
<1>8. CASE WriteRow
  <2>1. lines' = lines + 1 /\ heap' = heap /\ step = "writes rows"
        /\ step' = IF lines' = picture.height THEN "writes end" ELSE step
    BY <1>8 DEF WriteRow
  <2>2. heap = {"png", "info"} /\ lines < picture.height
    BY <1>3, <2>1 DEF WriteInv
  <2> PICK h, n : h = picture.height /\ n = lines
    OBVIOUS
  <2>3. n \in Nat /\ h \in Nat /\ n < h
    BY <1>2, <2>2
  <2>4. n + 1 \in Nat /\ (n + 1 < h \/ n + 1 = h)
    BY <2>3
  <2>5. WriteInv'
    BY <1>1, <2>1, <2>2, <2>4 DEF WriteInv
  <2>6. lines' \in Nat
    BY <2>1, <2>4
  <2> QED
    BY <1>4, <1>5, <1>8, <2>5, <2>6 DEF WriteRow
<1>9. CASE WriteEnd
  <2>1. lines' = lines /\ trapped' = trapped
    BY <1>9 DEF WriteEnd, Leave
  <2>2. WriteInv'
    BY <1>1, <1>3, <1>9, <2>1 DEF WriteInv, WriteEnd, Leave
  <2> QED
    BY <1>2, <1>4, <1>9, <2>1, <2>2 DEF WriteEnd, Leave
<1>10. CASE WriteTrap
  <2>1. lines' = lines /\ trapped' = TRUE
    BY <1>10 DEF WriteTrap
  <2>2. WriteInv'
    BY <1>1, <1>3, <1>10, <2>1 DEF WriteInv, WriteTrap
  <2> QED
    BY <1>2, <1>4, <1>10, <2>1, <2>2 DEF WriteTrap
<1> QED
  BY <1>6, <1>7, <1>8, <1>9, <1>10

LEMMA ImageUnchanged ==
  ASSUME ImageInv, UNCHANGED imageVars
  PROVE  ImageInv'
BY DEF ImageInv, imageVars, ReadInv, WriteInv, Untouched, Filling, Filled, Bytes, ByteAt,
       stride, channels, has_alpha

LEMMA ImageNextStep ==
  ASSUME ImageInv, [LibraryNext]_<<part, inputs, vars, program, imageVars>>
  PROVE  ImageInv'
<1>1. CASE ImageNext
  BY <1>1, CreateReadStep, ReadInfoStep, ReadRowStep, ReadEndStep, ReadTrapStep, WriteStep
  DEF ImageNext
<1>2. CASE UNCHANGED imageVars
  BY <1>2, ImageUnchanged
<1> QED
  BY <1>1, <1>2 DEF LibraryNext, Ask

LEMMA LibraryInitIsImageInit == LibraryInit => ImageInit
<1> SUFFICES ASSUME LibraryInit PROVE ImageInit
  OBVIOUS
<1>1. CASE part = "results"
  BY <1>1 DEF LibraryInit, NoImages
<1>2. CASE part = "fromString"
  BY <1>2 DEF LibraryInit, NoImages
<1>3. CASE part = "images"
  BY <1>3 DEF LibraryInit
<1>4. CASE part \notin {"results", "fromString", "images"}
  BY <1>4 DEF LibraryInit, NoImages
<1> QED
  BY <1>1, <1>2, <1>3, <1>4

LEMMA ImageInvAnswers == ImageInv => ImageAnswers
<1> SUFFICES ASSUME ImageInv PROVE ImageAnswers
  OBVIOUS
<1>1. picture.height \in Nat /\ picture.height > 0
  BY PictureTypes DEF ImageInv
<1>2. CASE call = "ReadPNG"
  <2>1. ReadInv /\ (step # "returned" => result = "none")
    BY <1>2 DEF ImageInv
  <2>2. ASSUME result = "image"
        PROVE  /\ heap = {}
               /\ IsPicture <=> /\ ~has_alpha \/ picture.width * picture.height = 1
                                /\ 3 * picture.width * picture.height < Word
    <3>1. /\ heap = {} /\ Filled(picture.passes, 0)
          /\ pixels = [k \in 0..((Bytes % Word) - 1) |-> ByteAt(k)]
      BY <2>1, <2>2 DEF ReadInv
    <3> QED
      BY <3>1, PictureIff DEF ImageInv, Bytes
  <2>3. result = "error" /\ ~trapped => heap \in {{}, {"png"}, {"png", "info"}, Structures}
    BY <2>1 DEF ReadInv
  <2>4. result = "error" /\ trapped =>
          heap \in {Structures \cup {"data"}, Structures \cup {"data", "rgb"}}
    BY <2>1 DEF ReadInv
  <2>5. result \notin {"true", "false"}
    BY <2>1 DEF ReadInv
  <2> QED
    BY <2>2, <2>3, <2>4, <2>5 DEF ImageAnswers
<1>3. CASE call = "WritePNG"
  <2>1. WriteInv /\ (step # "returned" => result = "none")
    BY <1>3 DEF ImageInv
  <2> QED
    BY <2>1 DEF WriteInv, ImageAnswers
<1> QED
  BY <1>2, <1>3 DEF ImageInv

(* ReadPNG and WritePNG leave on the heap what ImageAnswers says and no     *)
(* more, and the Image is the picture exactly where it says so: for         *)
(* pictures of any size, any number of passes and any width of the counts.  *)
THEOREM ImagesAreExact == LibrarySpec => []ImageAnswers
<1>1. ImageInv /\ [LibraryNext]_<<part, inputs, vars, program, imageVars>> => ImageInv'
  BY ImageNextStep
<1>2. LibraryInit => ImageInv
  BY LibraryInitIsImageInit, ImageInitInv
<1> QED
  BY <1>1, <1>2, ImageInvAnswers, PTL DEF LibrarySpec

-----------------------------------------------------------------------------
(* operator!= of two addresses is exact for all of them, and operator== but *)
(* for two of version 6 (address.h).                                        *)
THEOREM ComparisonsExact ==
  ASSUME NEW numbers
  PROVE  ComparedExactly(numbers)
<1> DEFINE Addresses == {AddressOf(type, n) : type \in {"IPv4", "IPv6"}, n \in numbers}
<1> SUFFICES ASSUME NEW a1 \in Addresses, NEW a2 \in Addresses
             PROVE  /\ NotEqual(a1, a2) <=> a1 # a2
                    /\ IF {a1.type, a2.type} = {"IPv6"} THEN Equal(a1, a2)
                       ELSE Equal(a1, a2) <=> a1 = a2
  BY DEF ComparedExactly
<1>1. PICK type1 \in {"IPv4", "IPv6"}, n1 \in numbers : a1 = AddressOf(type1, n1)
  OBVIOUS
<1>2. PICK type2 \in {"IPv4", "IPv6"}, n2 \in numbers : a2 = AddressOf(type2, n2)
  OBVIOUS
<1>3. a1.type = type1 /\ a2.type = type2
  BY <1>1, <1>2 DEF AddressOf
<1>4. CASE type1 # type2
  BY <1>3, <1>4 DEF NotEqual, Equal
<1>5. CASE type1 = "IPv4" /\ type2 = "IPv4"
  <2>1. a1.address_ipv4 = n1 /\ a2.address_ipv4 = n2
    BY <1>1, <1>2, <1>5 DEF AddressOf
  <2>2. a1 = a2 <=> n1 = n2
    BY <1>1, <1>2, <1>5, <2>1
  <2> QED
    BY <1>3, <1>5, <2>1, <2>2 DEF NotEqual, Equal
<1>6. CASE type1 = "IPv6" /\ type2 = "IPv6"
  <2>1. /\ a1.address_ipv6 = n1 /\ a2.address_ipv6 = n2
        /\ a1.address_ipv4 = Default /\ a2.address_ipv4 = Default
    BY <1>1, <1>2, <1>6 DEF AddressOf
  <2>2. a1 = a2 <=> n1 = n2
    BY <1>1, <1>2, <1>6, <2>1
  <2> QED
    BY <1>3, <1>6, <2>1, <2>2 DEF NotEqual, Equal
<1> QED
  BY <1>4, <1>5, <1>6

(* Where the questions are about integers or addresses, what is checked of  *)
(* them is a case of these theorems.                                        *)
THEOREM IntegersAndAddresses == part \in {"integers", "addresses"} => ValuesExact
<1>1. CASE part = "integers"
  <2> SUFFICES ASSUME NEW T \in {Integer!Signed(3), Integer!Unsigned(7)},
                      {one, two} \subseteq {<<n>> : n \in Integer!Values(T)}
               PROVE  Integer!ChecksExact(T, one[1], two[1])
    BY <1>1 DEF ValuesExact
  <2>1. one[1] \in Integer!Values(T) /\ two[1] \in Integer!Values(T)
    <3>1. PICK n \in Integer!Values(T) : one = <<n>>
      OBVIOUS
    <3>2. PICK m \in Integer!Values(T) : two = <<m>>
      OBVIOUS
    <3> QED
      BY <3>1, <3>2
  <2>2. CASE T = Integer!Signed(3)
    BY <2>1, <2>2, SignedExact
  <2>3. CASE T = Integer!Unsigned(7)
    BY <2>1, <2>3, UnsignedExact
  <2> QED
    BY <2>2, <2>3
<1>2. CASE part = "addresses"
  BY <1>2, ComparisonsExact DEF ValuesExact
<1> QED
  BY <1>1, <1>2

-----------------------------------------------------------------------------
(* Base64.  A group of three bytes is four places in the alphabet, from     *)
(* which decoding makes the three bytes again; of the places that a shorter *)
(* last group has, it makes the bytes that the group had.                   *)
LEMMA GroupEncoded ==
  ASSUME NEW a \in Codec!Bytes, NEW b \in Codec!Bytes, NEW c \in Codec!Bytes,
         NEW e, e = Codec!EncodedGroup(a, b, c)
  PROVE  /\ (((e[1] * 4) % 256) + ((e[2] % 64) \div 16)) % 256 = a
         /\ ((e[2] % 16) * 16 + ((e[3] % 64) \div 4)) % 256 = b
         /\ ((e[3] % 4) * 64 + e[4]) % 256 = c
<1> PICK p, q, r, s : p = e[1] /\ q = e[2] /\ r = e[3] /\ s = e[4]
  OBVIOUS
<1>1. a \in 0..255 /\ b \in 0..255 /\ c \in 0..255
  BY DEF Codec!Bytes
<1>2. /\ p = a \div 4 /\ q = (a % 4) * 16 + (b \div 16)
      /\ r = (b % 16) * 4 + (c \div 64) /\ s = c % 64
  BY DEF Codec!EncodedGroup
<1>3. (((p * 4) % 256) + ((q % 64) \div 16)) % 256 = a
  BY <1>1, <1>2
<1>4. ((q % 16) * 16 + ((r % 64) \div 4)) % 256 = b
  BY <1>1, <1>2
<1>5. ((r % 4) * 64 + s) % 256 = c
  BY <1>1, <1>2
<1> QED
  BY <1>3, <1>4, <1>5

(* Group g of the input, filled up with zeros, and how many bytes it has. *)
ByteOf(bytes, i) == IF i <= Len(bytes) THEN bytes[i] ELSE 0
InGroup(bytes, g) == IF 3 * g + 3 <= Len(bytes) THEN 3 ELSE Len(bytes) - 3 * g
GroupOf(bytes, g) ==
  Codec!EncodedGroup(ByteOf(bytes, 3 * g + 1), ByteOf(bytes, 3 * g + 2),
                     ByteOf(bytes, 3 * g + 3))

(* How many characters are not there to fill the last group up. *)
Meaning(n) == 4 * (n \div 3) + (IF n % 3 = 0 THEN 0 ELSE (n % 3) + 1)

LEMMA BytesOfGroup ==
  ASSUME NEW bytes \in Seq(Codec!Bytes), NEW i \in Nat, i > 0
  PROVE  ByteOf(bytes, i) \in Codec!Bytes
<1>1. CASE i <= Len(bytes)
  BY <1>1 DEF ByteOf
<1>2. CASE ~(i <= Len(bytes))
  BY <1>2 DEF ByteOf, Codec!Bytes
<1> QED
  BY <1>1, <1>2

LEMMA MeaningIs ==
  ASSUME NEW n \in Nat
  PROVE  /\ Meaning(n) \in Nat
         /\ Meaning(n) <= 4 * ((n + 2) \div 3)
<1> PICK q, r : q = n \div 3 /\ r = n % 3
  OBVIOUS
<1>1. q \in Nat /\ r \in 0..2 /\ n = 3 * q + r
  OBVIOUS
<1>2. Meaning(n) = 4 * q + (IF r = 0 THEN 0 ELSE r + 1)
  BY DEF Meaning
<1>3. (n + 2) \div 3 = IF r = 0 THEN q ELSE q + 1
  BY <1>1
<1> QED
  BY <1>1, <1>2, <1>3

LEMMA EncodedAt ==
  ASSUME NEW bytes \in Seq(Codec!Bytes), NEW g \in Nat, NEW j \in 0..3,
         g < (Len(bytes) + 2) \div 3
  PROVE  /\ 4 * g + j + 1 \in DOMAIN Codec!Base64Encode(bytes)
         /\ Codec!Base64Encode(bytes)[4 * g + j + 1] =
              IF j < Codec!CharsOf(InGroup(bytes, g)) THEN GroupOf(bytes, g)[j + 1]
              ELSE Codec!Pad
<1> PICK k : k = 4 * g + j + 1
  OBVIOUS
<1> PICK groups : groups = (Len(bytes) + 2) \div 3
  OBVIOUS
<1>1. Len(bytes) \in Nat
  OBVIOUS
<1>2. groups \in Nat
  BY <1>1
<1>3. k \in 1..(4 * groups) /\ (k - 1) \div 4 = g /\ (k - 1) % 4 = j
  BY <1>2
<1>4. Codec!Base64Encode(bytes) =
        [i \in 1..(4 * groups) |->
           IF (i - 1) % 4 < Codec!CharsOf(InGroup(bytes, (i - 1) \div 4))
             THEN GroupOf(bytes, (i - 1) \div 4)[((i - 1) % 4) + 1]
             ELSE Codec!Pad]
  BY Zenon DEF Codec!Base64Encode, InGroup, GroupOf, ByteOf
<1>5. Codec!Base64Encode(bytes)[k] =
        IF (k - 1) % 4 < Codec!CharsOf(InGroup(bytes, (k - 1) \div 4))
             THEN GroupOf(bytes, (k - 1) \div 4)[((k - 1) % 4) + 1]
             ELSE Codec!Pad
  BY <1>3, <1>4, Zenon
<1>6. k \in DOMAIN Codec!Base64Encode(bytes)
  BY <1>3, <1>4, Zenon
<1> QED
  BY <1>3, <1>5, <1>6, Zenon

(* A group that has bytes has one character more, and a whole group four. *)
LEMMA GroupSizes ==
  ASSUME NEW n \in Nat, NEW g \in Nat, g < (n + 2) \div 3
  PROVE  LET i == IF 3 * g + 3 <= n THEN 3 ELSE n - 3 * g
         IN /\ i \in 1..3
            /\ Codec!CharsOf(i) = i + 1
            /\ \A j \in 0..3 : j < i + 1 <=> 4 * g + j + 1 <= Meaning(n)
<1> PICK q, r : q = n \div 3 /\ r = n % 3
  OBVIOUS
<1>1. q \in Nat /\ r \in 0..2 /\ n = 3 * q + r
  OBVIOUS
<1>2. g < (n + 2) \div 3 => 3 * g < n
  OBVIOUS
<1>3. Meaning(n) = 4 * q + (IF r = 0 THEN 0 ELSE r + 1)
  BY DEF Meaning
<1>4. CASE 3 * g + 3 <= n
  <2>1. g < q
    BY <1>1, <1>4
  <2>2. \A j \in 0..3 : 4 * g + j + 1 <= Meaning(n)
    BY <1>1, <1>3, <2>1
  <2> QED
    BY <1>4, <2>2 DEF Codec!CharsOf
<1>5. CASE ~(3 * g + 3 <= n)
  <2>1. g = q /\ r # 0 /\ n - 3 * g = r
    BY <1>1, <1>2, <1>5
  <2>2. \A j \in 0..3 : j < r + 1 <=> 4 * g + j + 1 <= Meaning(n)
    BY <1>1, <1>3, <2>1
  <2> QED
    BY <1>1, <1>5, <2>1, <2>2 DEF Codec!CharsOf
<1> QED
  BY <1>4, <1>5

LEMMA EncodedPlaces ==
  ASSUME NEW bytes \in Seq(Codec!Bytes), NEW i \in 1..Len(Codec!Base64Encode(bytes))
  PROVE  \E g \in Nat, j \in 0..3 :
           g < (Len(bytes) + 2) \div 3 /\ i = 4 * g + j + 1
<1> PICK groups : groups = (Len(bytes) + 2) \div 3
  OBVIOUS
<1>1. groups \in Nat
  OBVIOUS
<1>2. DOMAIN Codec!Base64Encode(bytes) = 1..(4 * groups)
  BY Zenon DEF Codec!Base64Encode
<1>3. Len(Codec!Base64Encode(bytes)) = 4 * groups
  BY <1>1, <1>2
<1>4. i \in 1..(4 * groups)
  BY <1>3
<1> PICK g, j : g = (i - 1) \div 4 /\ j = (i - 1) % 4
  OBVIOUS
<1>5. g \in Nat /\ j \in 0..3 /\ i = 4 * g + j + 1 /\ g < groups
  BY <1>1, <1>4
<1> QED
  BY <1>5

LEMMA GroupPlaces ==
  ASSUME NEW a \in Codec!Bytes, NEW b \in Codec!Bytes, NEW c \in Codec!Bytes,
         NEW i \in 1..4
  PROVE  Codec!EncodedGroup(a, b, c)[i] \in 0..63
<1>1. a \in 0..255 /\ b \in 0..255 /\ c \in 0..255
  BY DEF Codec!Bytes
<1>2. /\ a \div 4 \in 0..63 /\ (a % 4) * 16 + (b \div 16) \in 0..63
      /\ (b % 16) * 4 + (c \div 64) \in 0..63 /\ c % 64 \in 0..63
  <2>1. a \div 4 \in 0..63
    BY <1>1
  <2>2. (a % 4) * 16 + (b \div 16) \in 0..63
    BY <1>1
  <2>3. (b % 16) * 4 + (c \div 64) \in 0..63
    BY <1>1
  <2>4. c % 64 \in 0..63
    BY <1>1
  <2> QED
    BY <2>1, <2>2, <2>3, <2>4
<1> DEFINE e == Codec!EncodedGroup(a, b, c)
<1>3. /\ e[1] = a \div 4 /\ e[2] = (a % 4) * 16 + (b \div 16)
      /\ e[3] = (b % 16) * 4 + (c \div 64) /\ e[4] = c % 64
  BY DEF Codec!EncodedGroup
<1> HIDE DEF e
<1>4. e[1] \in 0..63 /\ e[2] \in 0..63 /\ e[3] \in 0..63 /\ e[4] \in 0..63
  <2>1. e[1] \in 0..63
    BY <1>2, <1>3, Zenon
  <2>2. e[2] \in 0..63
    BY <1>2, <1>3, Zenon
  <2>3. e[3] \in 0..63
    BY <1>2, <1>3, Zenon
  <2>4. e[4] \in 0..63
    BY <1>2, <1>3, Zenon
  <2> QED
    BY <2>1, <2>2, <2>3, <2>4
<1>5. i = 1 \/ i = 2 \/ i = 3 \/ i = 4
  OBVIOUS
<1> QED
  BY <1>4, <1>5, Zenon DEF e

LEMMA GroupInAlphabet ==
  ASSUME NEW bytes \in Seq(Codec!Bytes), NEW g \in Nat, NEW j \in 0..3
  PROVE  GroupOf(bytes, g)[j + 1] \in 0..63
<1>1. /\ ByteOf(bytes, 3 * g + 1) \in Codec!Bytes
      /\ ByteOf(bytes, 3 * g + 2) \in Codec!Bytes
      /\ ByteOf(bytes, 3 * g + 3) \in Codec!Bytes
  BY BytesOfGroup
<1>2. j + 1 \in 1..4
  OBVIOUS
<1> QED
  BY <1>1, <1>2, GroupPlaces, Zenon DEF GroupOf

(* Exactly the characters that mean something are in the alphabet. *)
LEMMA Alphabet ==
  ASSUME NEW bytes \in Seq(Codec!Bytes), NEW i \in 1..Len(Codec!Base64Encode(bytes))
  PROVE  /\ i <= Meaning(Len(bytes)) => Codec!Base64Encode(bytes)[i] \in 0..63
         /\ i > Meaning(Len(bytes)) => Codec!Base64Encode(bytes)[i] = 64
<1> DEFINE n == Len(bytes)
           E == Codec!Base64Encode(bytes)
<1>1. n \in Nat
  OBVIOUS
<1>2. PICK g \in Nat, j \in 0..3 : g < (n + 2) \div 3 /\ i = 4 * g + j + 1
  BY EncodedPlaces
<1>3. E[i] = IF j < Codec!CharsOf(InGroup(bytes, g)) THEN GroupOf(bytes, g)[j + 1]
             ELSE Codec!Pad
  BY <1>2, EncodedAt
<1>4. j < Codec!CharsOf(InGroup(bytes, g)) <=> i <= Meaning(n)
  BY <1>1, <1>2, GroupSizes DEF InGroup
<1>5. GroupOf(bytes, g)[j + 1] \in 0..63
  BY <1>2, GroupInAlphabet
<1>6. Meaning(n) \in Nat
  BY <1>1, MeaningIs
<1>7. i \in Nat
  BY <1>2
<1>8. CASE i <= Meaning(n)
  <2>1. E[i] \in 0..63
    BY <1>3, <1>4, <1>5, <1>8, Zenon
  <2> QED
    BY <1>6, <1>7, <1>8, <2>1
<1>9. CASE i > Meaning(n)
  <2>1. ~(i <= Meaning(n))
    BY <1>6, <1>7, <1>9
  <2>2. E[i] = Codec!Pad
    BY <1>3, <1>4, <2>1, Zenon
  <2> QED
    BY <2>1, <2>2 DEF Codec!Pad
<1> QED
  BY <1>6, <1>7, <1>8, <1>9

LEMMA EncodedLength ==
  ASSUME NEW bytes \in Seq(Codec!Bytes)
  PROVE  /\ Len(Codec!Base64Encode(bytes)) \in Nat
         /\ Meaning(Len(bytes)) \in 0..Len(Codec!Base64Encode(bytes))
         /\ Len(Codec!Base64Encode(bytes)) = 4 * ((Len(bytes) + 2) \div 3)
<1> PICK groups : groups = (Len(bytes) + 2) \div 3
  OBVIOUS
<1>1. groups \in Nat
  OBVIOUS
<1>2. DOMAIN Codec!Base64Encode(bytes) = 1..(4 * groups)
  BY Zenon DEF Codec!Base64Encode
<1>3. Len(Codec!Base64Encode(bytes)) = 4 * groups
  BY <1>1, <1>2
<1>4. Meaning(Len(bytes)) \in 0..(4 * groups)
  <2> PICK n \in Nat : n = Len(bytes)
    OBVIOUS
  <2>1. groups = (n + 2) \div 3
    OBVIOUS
  <2>2. Meaning(n) \in 0..(4 * groups)
    BY <1>1, <2>1, MeaningIs
  <2> QED
    BY <2>2
<1> QED
  BY <1>1, <1>3, <1>4

LEMMA SignificantIs ==
  ASSUME NEW bytes \in Seq(Codec!Bytes)
  PROVE  Codec!Significant(Codec!Base64Encode(bytes)) = Meaning(Len(bytes))
<1> DEFINE E == Codec!Base64Encode(bytes)
           Fits(m) == /\ \A i \in 1..m : Codec!IsBase64(E[i])
                      /\ m = Len(E) \/ ~Codec!IsBase64(E[m + 1])
<1> PICK S : S = Meaning(Len(bytes))
  OBVIOUS
<1>1. S \in 0..Len(E) /\ Len(E) \in Nat
  BY EncodedLength
<1>2. \A i \in 1..Len(E) : Codec!IsBase64(E[i]) <=> i <= S
  <2> SUFFICES ASSUME NEW i \in 1..Len(E) PROVE Codec!IsBase64(E[i]) <=> i <= S
    OBVIOUS
  <2>1. CASE i <= S
    <3>1. PICK e \in 0..63 : e = E[i]
      BY <2>1, Alphabet
    <3>2. e < 64
      OBVIOUS
    <3> QED
      BY <2>1, <3>1, <3>2 DEF Codec!IsBase64, Codec!Pad
  <2>2. CASE i > S
    <3>1. E[i] = 64
      BY <2>2, Alphabet
    <3>2. ~(i <= S)
      BY <1>1, <2>2
    <3> QED
      BY <3>1, <3>2 DEF Codec!IsBase64, Codec!Pad
  <2> QED
    BY <1>1, <2>1, <2>2
<1>3. Codec!Significant(E) = CHOOSE m \in 0..Len(E) : Fits(m)
  BY DEF Codec!Significant
<1> HIDE DEF E
<1>4. Fits(S)
  BY <1>1, <1>2
<1>5. ASSUME NEW m \in 0..Len(E), Fits(m) PROVE m = S
  <2>1. CASE m < S
    <3>1. m + 1 \in 1..Len(E) /\ m + 1 <= S /\ m # Len(E)
      BY <1>1, <2>1
    <3> QED
      BY <1>2, <1>5, <3>1
  <2>2. CASE m > S
    <3>1. S + 1 \in 1..m /\ S + 1 \in 1..Len(E) /\ ~(S + 1 <= S)
      BY <1>1, <2>2
    <3> QED
      BY <1>2, <1>5, <3>1
  <2> QED
    BY <1>1, <2>1, <2>2
<1> HIDE DEF Fits
<1>6. (CHOOSE m \in 0..Len(E) : Fits(m)) = S
  BY <1>1, <1>4, <1>5, Zenon
<1> QED
  BY <1>3, <1>6 DEF E

(* The bytes that come back are those that went in, one by one. *)
LEMMA DecodedAt ==
  ASSUME NEW bytes \in Seq(Codec!Bytes), NEW k \in 1..Len(bytes)
  PROVE  LET E == Codec!Base64Encode(bytes)
             g == (k - 1) \div 3
             Char(i) == IF i <= Meaning(Len(bytes)) THEN E[i] ELSE Codec!NotFound
         IN Codec!DecodedGroup(Char(4 * g + 1), Char(4 * g + 2), Char(4 * g + 3),
                               Char(4 * g + 4))[((k - 1) % 3) + 1] = bytes[k]
<1> DEFINE E == Codec!Base64Encode(bytes)
           Char(i) == IF i <= Meaning(Len(bytes)) THEN E[i] ELSE Codec!NotFound
<1> PICK n \in Nat : n = Len(bytes)
  OBVIOUS
<1> PICK g, j : g = (k - 1) \div 3 /\ j = (k - 1) % 3
  OBVIOUS
<1>1. g \in Nat /\ j \in 0..2 /\ k = 3 * g + j + 1 /\ k <= n
  OBVIOUS
<1>2. g < (n + 2) \div 3
  BY <1>1
<1> PICK i : i = InGroup(bytes, g)
  OBVIOUS
<1>3. /\ i \in 1..3 /\ Codec!CharsOf(i) = i + 1
      /\ \A h \in 0..3 : h < i + 1 <=> 4 * g + h + 1 <= Meaning(n)
  BY <1>1, <1>2, GroupSizes DEF InGroup
<1>4. j < i
  BY <1>1 DEF InGroup
<1> PICK a, b, c : /\ a = ByteOf(bytes, 3 * g + 1) /\ b = ByteOf(bytes, 3 * g + 2)
                   /\ c = ByteOf(bytes, 3 * g + 3)
  OBVIOUS
<1>5. a \in Codec!Bytes /\ b \in Codec!Bytes /\ c \in Codec!Bytes
  BY <1>1, BytesOfGroup
<1>6. bytes[k] = IF j = 0 THEN a ELSE IF j = 1 THEN b ELSE c
  BY <1>1 DEF ByteOf
<1> PICK e : e = GroupOf(bytes, g)
  OBVIOUS
<1>7. \A h \in 0..3 : h < i + 1 => Char(4 * g + h + 1) = e[h + 1]
  <2> SUFFICES ASSUME NEW h \in 0..3, h < i + 1 PROVE Char(4 * g + h + 1) = e[h + 1]
    OBVIOUS
  <2>1. E[4 * g + h + 1] = e[h + 1]
    BY <1>1, <1>2, <1>3, EncodedAt
  <2>2. 4 * g + h + 1 <= Meaning(n)
    BY <1>3
  <2> QED
    BY <2>1, <2>2
<1> HIDE DEF E, Char
<1>8. e = Codec!EncodedGroup(a, b, c)
  BY DEF GroupOf
<1>9. /\ (((e[1] * 4) % 256) + ((e[2] % 64) \div 16)) % 256 = a
      /\ ((e[2] % 16) * 16 + ((e[3] % 64) \div 4)) % 256 = b
      /\ ((e[3] % 4) * 64 + e[4]) % 256 = c
  BY <1>5, <1>8, GroupEncoded
<1>10. Char(4 * g + 1) = e[1] /\ Char(4 * g + 2) = e[2]
  <2>1. 0 < i + 1 /\ 1 < i + 1 /\ 4 * g + 0 + 1 = 4 * g + 1 /\ 4 * g + 1 + 1 = 4 * g + 2
    BY <1>1, <1>3
  <2> QED
    BY <1>7, <2>1
<1>11. i >= 2 => Char(4 * g + 3) = e[3]
  <2>1. (i >= 2 => 2 < i + 1) /\ 4 * g + 2 + 1 = 4 * g + 3
    BY <1>1, <1>3
  <2> QED
    BY <1>7, <2>1
<1>12. i >= 3 => Char(4 * g + 4) = e[4]
  <2>1. (i >= 3 => 3 < i + 1) /\ 4 * g + 3 + 1 = 4 * g + 4
    BY <1>1, <1>3
  <2> QED
    BY <1>7, <2>1
<1> PICK c1, c2, c3, c4 : /\ c1 = Char(4 * g + 1) /\ c2 = Char(4 * g + 2)
                          /\ c3 = Char(4 * g + 3) /\ c4 = Char(4 * g + 4)
  OBVIOUS
<1> PICK d : d = Codec!DecodedGroup(c1, c2, c3, c4)
  OBVIOUS
<1>13. /\ d[1] = (((c1 * 4) % 256) + ((c2 % 64) \div 16)) % 256
       /\ d[2] = ((c2 % 16) * 16 + ((c3 % 64) \div 4)) % 256
       /\ d[3] = ((c3 % 4) * 64 + c4) % 256
  BY DEF Codec!DecodedGroup
<1>14. c1 = e[1] /\ c2 = e[2]
  BY <1>10
<1>15. d[j + 1] = bytes[k]
  <2>1. CASE j = 0
    <3>1. j + 1 = 1 /\ (j = 0 <=> TRUE) /\ (j = 1 <=> FALSE)
      BY <2>1
    <3>2. d[1] = a
      BY <1>9, <1>13, <1>14
    <3> QED
      BY <1>6, <2>1, <3>2, <3>1, Zenon
  <2>2. CASE j = 1
    <3>1. j + 1 = 2 /\ (j = 0 <=> FALSE) /\ (j = 1 <=> TRUE)
      BY <2>2
    <3>2. c3 = e[3]
      BY <1>3, <1>4, <1>11, <2>2
    <3>3. d[2] = b
      BY <1>9, <1>13, <1>14, <3>2
    <3> QED
      BY <1>6, <2>2, <3>3, <3>1, Zenon
  <2>3. CASE j = 2
    <3>1. j + 1 = 3 /\ (j = 0 <=> FALSE) /\ (j = 1 <=> FALSE)
      BY <2>3
    <3>2. c3 = e[3] /\ c4 = e[4]
      BY <1>3, <1>4, <1>11, <1>12, <2>3
    <3>3. d[3] = c
      BY <1>9, <1>13, <3>2
    <3> QED
      BY <1>6, <2>3, <3>3, <3>1, Zenon
  <2> QED
    BY <1>1, <2>1, <2>2, <2>3
<1> QED
  BY <1>15, Zenon DEF Char, E

(* Decoding what Base64Encode returns gives the bytes back (base64.cc), for *)
(* inputs of any length, whatever their last group lacks.                   *)
THEOREM Base64RoundTrips ==
  ASSUME NEW bytes \in Seq(Codec!Bytes)
  PROVE  Codec!RoundTrips(bytes)
<1> DEFINE E == Codec!Base64Encode(bytes)
           Char(i) == IF i <= Meaning(Len(bytes)) THEN E[i] ELSE Codec!NotFound
           Group(g) == Codec!DecodedGroup(Char(4 * g + 1), Char(4 * g + 2),
                                          Char(4 * g + 3), Char(4 * g + 4))
           m == Meaning(Len(bytes))
<1>1. Codec!Significant(E) = m
  BY SignificantIs
<1>2. Codec!Base64Decode(E) =
        [k \in 1..(3 * (m \div 4) + Codec!BytesOf(m % 4)) |->
           Group((k - 1) \div 3)[((k - 1) % 3) + 1]]
  BY <1>1, Zenon DEF Codec!Base64Decode
<1>3. 3 * (m \div 4) + Codec!BytesOf(m % 4) = Len(bytes)
  <2> PICK n \in Nat : n = Len(bytes)
    OBVIOUS
  <2> PICK q, r : q = n \div 3 /\ r = n % 3
    OBVIOUS
  <2>1. q \in Nat /\ r \in 0..2 /\ n = 3 * q + r
    OBVIOUS
  <2>2. (r = 0 => m = 4 * q) /\ (r # 0 => m = 4 * q + r + 1)
    <3>1. Meaning(n) = 4 * q + (IF r = 0 THEN 0 ELSE r + 1)
      BY Zenon DEF Meaning
    <3>2. 4 * q + 0 = 4 * q /\ 4 * q + (r + 1) = 4 * q + r + 1
      BY <2>1
    <3>3. ASSUME r = 0 PROVE m = 4 * q
      BY <3>1, <3>2, <3>3, Zenon
    <3>4. ASSUME r # 0 PROVE m = 4 * q + r + 1
      BY <3>1, <3>2, <3>4, Zenon
    <3> QED
      BY <3>3, <3>4, Zenon
  <2>3. m \div 4 = q /\ m % 4 = IF r = 0 THEN 0 ELSE r + 1
    <3> PICK l \in Nat : l = m
      BY MeaningIs
    <3>1. CASE r = 0
      <4>1. l = 4 * q
        BY <2>1, <2>2, <3>1
      <4>2. l \div 4 = q /\ l % 4 = 0
        BY <2>1, <4>1
      <4> QED
        BY <3>1, <4>2
    <3>2. CASE r # 0
      <4>1. l = 4 * q + r + 1
        BY <2>1, <2>2, <3>2
      <4>2. l \div 4 = q /\ l % 4 = r + 1
        BY <2>1, <4>1
      <4> QED
        BY <3>2, <4>2
    <3> QED
      BY <3>1, <3>2
  <2>4. Codec!BytesOf(m % 4) = r
    BY <2>1, <2>3 DEF Codec!BytesOf
  <2> QED
    BY <2>1, <2>3, <2>4
<1>4. \A k \in 1..Len(bytes) : Group((k - 1) \div 3)[((k - 1) % 3) + 1] = bytes[k]
  BY DecodedAt
<1> HIDE DEF Group, m
<1>5. Codec!Base64Decode(E) = [k \in 1..Len(bytes) |-> bytes[k]]
  BY <1>2, <1>3, <1>4
<1>6. bytes = [k \in 1..Len(bytes) |-> bytes[k]]
  OBVIOUS
<1> QED
  BY <1>5, <1>6 DEF Codec!RoundTrips

(* The bits of a byte, and what six of them in a row are. *)
BitsOf(bytes, h) ==
  LET x == ByteOf(bytes, h + 1)
      B(t) == Codec!Bit(bytes, 8 * h + t)
  IN /\ B(0) = (x \div 128) % 2 /\ B(1) = (x \div 64) % 2
     /\ B(2) = (x \div 32) % 2 /\ B(3) = (x \div 16) % 2
     /\ B(4) = (x \div 8) % 2 /\ B(5) = (x \div 4) % 2
     /\ B(6) = (x \div 2) % 2 /\ B(7) = x % 2

LEMMA BitsAt ==
  ASSUME NEW bytes \in Seq(Codec!Bytes), NEW h \in Nat
  PROVE  BitsOf(bytes, h)
<1> PICK n \in Nat : n = Len(bytes)
  OBVIOUS
<1>1. ByteOf(bytes, h + 1) \in 0..255
  <2>1. h + 1 \in Nat /\ h + 1 > 0
    OBVIOUS
  <2> QED
    BY <2>1, BytesOfGroup DEF Codec!Bytes
<1> PICK x \in 0..255 : x = ByteOf(bytes, h + 1)
  BY <1>1
<1>2. ASSUME NEW t \in 0..7
      PROVE  Codec!Bit(bytes, 8 * h + t) = (x \div 2^(7 - t)) % 2
  <2>1. (8 * h + t) \div 8 = h /\ (8 * h + t) % 8 = t
    OBVIOUS
  <2>2. CASE h < n
    <3>1. h + 1 <= n
      BY <2>2
    <3>2. x = bytes[h + 1]
      BY <3>1 DEF ByteOf
    <3> QED
      BY <2>1, <2>2, <3>2, Zenon DEF Codec!Bit
  <2>3. CASE ~(h < n)
    <3>1. ~(h + 1 <= n)
      BY <2>3
    <3>2. x = 0
      BY <3>1 DEF ByteOf
    <3>3. Codec!Bit(bytes, 8 * h + t) = 0
      BY <2>1, <2>3, Zenon DEF Codec!Bit
    <3>4. t = 0 \/ t = 1 \/ t = 2 \/ t = 3 \/ t = 4 \/ t = 5 \/ t = 6 \/ t = 7
      OBVIOUS
    <3>5. (0 \div 2^(7 - t)) % 2 = 0
      <4>1. CASE t = 0
        BY <4>1
      <4>2. CASE t = 1
        BY <4>2
      <4>3. CASE t = 2
        BY <4>3
      <4>4. CASE t = 3
        BY <4>4
      <4>5. CASE t = 4
        BY <4>5
      <4>6. CASE t = 5
        BY <4>6
      <4>7. CASE t = 6
        BY <4>7
      <4>8. CASE t = 7
        BY <4>8
      <4> QED
        BY <3>4, <4>1, <4>2, <4>3, <4>4, <4>5, <4>6, <4>7, <4>8
    <3> QED
      BY <3>2, <3>3, <3>5, Zenon
  <2> QED
    BY <2>2, <2>3
<1>3. /\ 2^(7 - 0) = 128 /\ 2^(7 - 1) = 64 /\ 2^(7 - 2) = 32 /\ 2^(7 - 3) = 16
      /\ 2^(7 - 4) = 8 /\ 2^(7 - 5) = 4 /\ 2^(7 - 6) = 2 /\ 2^(7 - 7) = 1
  OBVIOUS
<1>4. x \div 1 = x
  OBVIOUS
<1>5. Codec!Bit(bytes, 8 * h + 0) = (x \div 128) % 2
  <2>1. 0 \in 0..7
    OBVIOUS
  <2>2. Codec!Bit(bytes, 8 * h + 0) = (x \div 2^(7 - 0)) % 2
    BY <1>2, <2>1, Zenon
  <2> QED
    BY <1>3, <1>4, <2>2, Zenon
<1>6. Codec!Bit(bytes, 8 * h + 1) = (x \div 64) % 2
  <2>1. 1 \in 0..7
    OBVIOUS
  <2>2. Codec!Bit(bytes, 8 * h + 1) = (x \div 2^(7 - 1)) % 2
    BY <1>2, <2>1, Zenon
  <2> QED
    BY <1>3, <1>4, <2>2, Zenon
<1>7. Codec!Bit(bytes, 8 * h + 2) = (x \div 32) % 2
  <2>1. 2 \in 0..7
    OBVIOUS
  <2>2. Codec!Bit(bytes, 8 * h + 2) = (x \div 2^(7 - 2)) % 2
    BY <1>2, <2>1, Zenon
  <2> QED
    BY <1>3, <1>4, <2>2, Zenon
<1>8. Codec!Bit(bytes, 8 * h + 3) = (x \div 16) % 2
  <2>1. 3 \in 0..7
    OBVIOUS
  <2>2. Codec!Bit(bytes, 8 * h + 3) = (x \div 2^(7 - 3)) % 2
    BY <1>2, <2>1, Zenon
  <2> QED
    BY <1>3, <1>4, <2>2, Zenon
<1>9. Codec!Bit(bytes, 8 * h + 4) = (x \div 8) % 2
  <2>1. 4 \in 0..7
    OBVIOUS
  <2>2. Codec!Bit(bytes, 8 * h + 4) = (x \div 2^(7 - 4)) % 2
    BY <1>2, <2>1, Zenon
  <2> QED
    BY <1>3, <1>4, <2>2, Zenon
<1>10. Codec!Bit(bytes, 8 * h + 5) = (x \div 4) % 2
  <2>1. 5 \in 0..7
    OBVIOUS
  <2>2. Codec!Bit(bytes, 8 * h + 5) = (x \div 2^(7 - 5)) % 2
    BY <1>2, <2>1, Zenon
  <2> QED
    BY <1>3, <1>4, <2>2, Zenon
<1>11. Codec!Bit(bytes, 8 * h + 6) = (x \div 2) % 2
  <2>1. 6 \in 0..7
    OBVIOUS
  <2>2. Codec!Bit(bytes, 8 * h + 6) = (x \div 2^(7 - 6)) % 2
    BY <1>2, <2>1, Zenon
  <2> QED
    BY <1>3, <1>4, <2>2, Zenon
<1>12. Codec!Bit(bytes, 8 * h + 7) = x % 2
  <2>1. 7 \in 0..7
    OBVIOUS
  <2>2. Codec!Bit(bytes, 8 * h + 7) = (x \div 2^(7 - 7)) % 2
    BY <1>2, <2>1, Zenon
  <2> QED
    BY <1>3, <1>4, <2>2, Zenon
<1> QED
  BY <1>5, <1>6, <1>7, <1>8, <1>9, <1>10, <1>11, <1>12, Zenon DEF BitsOf

LEMMA SixBits ==
  ASSUME NEW a \in 0..255, NEW b \in 0..255
  PROVE  /\ 32 * ((a \div 128) % 2) + 16 * ((a \div 64) % 2) + 8 * ((a \div 32) % 2)
              + 4 * ((a \div 16) % 2) + 2 * ((a \div 8) % 2) + ((a \div 4) % 2) = a \div 4
         /\ 32 * ((a \div 2) % 2) + 16 * (a % 2) + 8 * ((b \div 128) % 2)
              + 4 * ((b \div 64) % 2) + 2 * ((b \div 32) % 2) + ((b \div 16) % 2)
            = (a % 4) * 16 + (b \div 16)
         /\ 32 * ((a \div 8) % 2) + 16 * ((a \div 4) % 2) + 8 * ((a \div 2) % 2)
              + 4 * (a % 2) + 2 * ((b \div 128) % 2) + ((b \div 64) % 2)
            = (a % 16) * 4 + (b \div 64)
         /\ 32 * ((a \div 32) % 2) + 16 * ((a \div 16) % 2) + 8 * ((a \div 8) % 2)
              + 4 * ((a \div 4) % 2) + 2 * ((a \div 2) % 2) + (a % 2) = a % 64
<1>1. 32 * ((a \div 128) % 2) + 16 * ((a \div 64) % 2) + 8 * ((a \div 32) % 2)
        + 4 * ((a \div 16) % 2) + 2 * ((a \div 8) % 2) + ((a \div 4) % 2) = a \div 4
  OBVIOUS
<1>2. 32 * ((a \div 2) % 2) + 16 * (a % 2) + 8 * ((b \div 128) % 2)
        + 4 * ((b \div 64) % 2) + 2 * ((b \div 32) % 2) + ((b \div 16) % 2)
      = (a % 4) * 16 + (b \div 16)
  OBVIOUS
<1>3. 32 * ((a \div 8) % 2) + 16 * ((a \div 4) % 2) + 8 * ((a \div 2) % 2)
        + 4 * (a % 2) + 2 * ((b \div 128) % 2) + ((b \div 64) % 2)
      = (a % 16) * 4 + (b \div 64)
  OBVIOUS
<1>4. 32 * ((a \div 32) % 2) + 16 * ((a \div 16) % 2) + 8 * ((a \div 8) % 2)
        + 4 * ((a \div 4) % 2) + 2 * ((a \div 2) % 2) + (a % 2) = a % 64
  OBVIOUS
<1> QED
  BY <1>1, <1>2, <1>3, <1>4

LEMMA SextetsAre ==
  ASSUME NEW bytes \in Seq(Codec!Bytes), NEW g \in Nat, NEW j \in 0..3
  PROVE  Codec!Sextet(bytes, 4 * g + j) = GroupOf(bytes, g)[j + 1]
<1> DEFINE Bit(i) == Codec!Bit(bytes, i)
           a == ByteOf(bytes, 3 * g + 1)
           b == ByteOf(bytes, 3 * g + 2)
           c == ByteOf(bytes, 3 * g + 3)
           S(h) == 32 * Bit(6 * h + 0) + 16 * Bit(6 * h + 1) + 8 * Bit(6 * h + 2)
                     + 4 * Bit(6 * h + 3) + 2 * Bit(6 * h + 4) + Bit(6 * h + 5)
<1>1. a \in 0..255 /\ b \in 0..255 /\ c \in 0..255
  BY BytesOfGroup DEF Codec!Bytes
<1>2. \A h \in Nat : Codec!Sextet(bytes, h) = S(h)
  BY Zenon DEF Codec!Sextet
<1>3. /\ GroupOf(bytes, g)[1] = a \div 4
      /\ GroupOf(bytes, g)[2] = (a % 4) * 16 + (b \div 16)
      /\ GroupOf(bytes, g)[3] = (b % 16) * 4 + (c \div 64)
      /\ GroupOf(bytes, g)[4] = c % 64
  BY DEF GroupOf, Codec!EncodedGroup
<1>4. /\ Bit(24 * g) = (a \div 128) % 2 /\ Bit(24 * g + 1) = (a \div 64) % 2
      /\ Bit(24 * g + 2) = (a \div 32) % 2 /\ Bit(24 * g + 3) = (a \div 16) % 2
      /\ Bit(24 * g + 4) = (a \div 8) % 2 /\ Bit(24 * g + 5) = (a \div 4) % 2
      /\ Bit(24 * g + 6) = (a \div 2) % 2 /\ Bit(24 * g + 7) = a % 2
  <2>1. 3 * g \in Nat
    OBVIOUS
  <2>2. BitsOf(bytes, 3 * g)
    BY <2>1, BitsAt, Zenon
  <2>3. /\ (3 * g) + 1 = 3 * g + 1
        /\ 8 * (3 * g) + 0 = 24 * g /\ 8 * (3 * g) + 1 = 24 * g + 1
        /\ 8 * (3 * g) + 2 = 24 * g + 2 /\ 8 * (3 * g) + 3 = 24 * g + 3
        /\ 8 * (3 * g) + 4 = 24 * g + 4 /\ 8 * (3 * g) + 5 = 24 * g + 5
        /\ 8 * (3 * g) + 6 = 24 * g + 6 /\ 8 * (3 * g) + 7 = 24 * g + 7
    OBVIOUS
  <2> QED
    BY <2>2, <2>3, Zenon DEF BitsOf
<1>5. /\ Bit(24 * g + 8) = (b \div 128) % 2 /\ Bit(24 * g + 9) = (b \div 64) % 2
      /\ Bit(24 * g + 10) = (b \div 32) % 2 /\ Bit(24 * g + 11) = (b \div 16) % 2
      /\ Bit(24 * g + 12) = (b \div 8) % 2 /\ Bit(24 * g + 13) = (b \div 4) % 2
      /\ Bit(24 * g + 14) = (b \div 2) % 2 /\ Bit(24 * g + 15) = b % 2
  <2>1. 3 * g + 1 \in Nat
    OBVIOUS
  <2>2. BitsOf(bytes, 3 * g + 1)
    BY <2>1, BitsAt, Zenon
  <2>3. /\ (3 * g + 1) + 1 = 3 * g + 2
        /\ 8 * (3 * g + 1) + 0 = 24 * g + 8 /\ 8 * (3 * g + 1) + 1 = 24 * g + 9
        /\ 8 * (3 * g + 1) + 2 = 24 * g + 10 /\ 8 * (3 * g + 1) + 3 = 24 * g + 11
        /\ 8 * (3 * g + 1) + 4 = 24 * g + 12 /\ 8 * (3 * g + 1) + 5 = 24 * g + 13
        /\ 8 * (3 * g + 1) + 6 = 24 * g + 14 /\ 8 * (3 * g + 1) + 7 = 24 * g + 15
    OBVIOUS
  <2> QED
    BY <2>2, <2>3, Zenon DEF BitsOf
<1>6. /\ Bit(24 * g + 16) = (c \div 128) % 2 /\ Bit(24 * g + 17) = (c \div 64) % 2
      /\ Bit(24 * g + 18) = (c \div 32) % 2 /\ Bit(24 * g + 19) = (c \div 16) % 2
      /\ Bit(24 * g + 20) = (c \div 8) % 2 /\ Bit(24 * g + 21) = (c \div 4) % 2
      /\ Bit(24 * g + 22) = (c \div 2) % 2 /\ Bit(24 * g + 23) = c % 2
  <2>1. 3 * g + 2 \in Nat
    OBVIOUS
  <2>2. BitsOf(bytes, 3 * g + 2)
    BY <2>1, BitsAt, Zenon
  <2>3. /\ (3 * g + 2) + 1 = 3 * g + 3
        /\ 8 * (3 * g + 2) + 0 = 24 * g + 16 /\ 8 * (3 * g + 2) + 1 = 24 * g + 17
        /\ 8 * (3 * g + 2) + 2 = 24 * g + 18 /\ 8 * (3 * g + 2) + 3 = 24 * g + 19
        /\ 8 * (3 * g + 2) + 4 = 24 * g + 20 /\ 8 * (3 * g + 2) + 5 = 24 * g + 21
        /\ 8 * (3 * g + 2) + 6 = 24 * g + 22 /\ 8 * (3 * g + 2) + 7 = 24 * g + 23
    OBVIOUS
  <2> QED
    BY <2>2, <2>3, Zenon DEF BitsOf
<1> HIDE DEF Bit, a, b, c
<1>7. CASE j = 0
  <2>1. S(4 * g) = 32 * Bit(24 * g) + 16 * Bit(24 * g + 1) + 8 * Bit(24 * g + 2)
                     + 4 * Bit(24 * g + 3) + 2 * Bit(24 * g + 4) + Bit(24 * g + 5)
    <3>1. /\ 6 * (4 * g) + 0 = 24 * g /\ 6 * (4 * g) + 1 = 24 * g + 1
          /\ 6 * (4 * g) + 2 = 24 * g + 2 /\ 6 * (4 * g) + 3 = 24 * g + 3
          /\ 6 * (4 * g) + 4 = 24 * g + 4 /\ 6 * (4 * g) + 5 = 24 * g + 5
      OBVIOUS
    <3> QED
      BY <3>1, Zenon
  <2>2. 32 * ((a \div 128) % 2) + 16 * ((a \div 64) % 2) + 8 * ((a \div 32) % 2)
          + 4 * ((a \div 16) % 2) + 2 * ((a \div 8) % 2) + ((a \div 4) % 2) = a \div 4
    BY <1>1, SixBits
  <2>3. S(4 * g) = a \div 4
    BY <1>4, <2>1, <2>2, Zenon
  <2>4. 4 * g + j = 4 * g /\ 4 * g \in Nat /\ j + 1 = 1
    BY <1>7
  <2> QED
    BY <1>2, <1>3, <2>3, <2>4, Zenon
<1>8. CASE j = 1
  <2>1. S(4 * g + 1) = 32 * Bit(24 * g + 6) + 16 * Bit(24 * g + 7) + 8 * Bit(24 * g + 8)
                         + 4 * Bit(24 * g + 9) + 2 * Bit(24 * g + 10) + Bit(24 * g + 11)
    <3>1. /\ 6 * (4 * g + 1) + 0 = 24 * g + 6 /\ 6 * (4 * g + 1) + 1 = 24 * g + 7
          /\ 6 * (4 * g + 1) + 2 = 24 * g + 8 /\ 6 * (4 * g + 1) + 3 = 24 * g + 9
          /\ 6 * (4 * g + 1) + 4 = 24 * g + 10 /\ 6 * (4 * g + 1) + 5 = 24 * g + 11
      OBVIOUS
    <3> QED
      BY <3>1, Zenon
  <2>2. 32 * ((a \div 2) % 2) + 16 * (a % 2) + 8 * ((b \div 128) % 2)
          + 4 * ((b \div 64) % 2) + 2 * ((b \div 32) % 2) + ((b \div 16) % 2)
        = (a % 4) * 16 + (b \div 16)
    BY <1>1, SixBits
  <2>3. S(4 * g + 1) = (a % 4) * 16 + (b \div 16)
    BY <1>4, <1>5, <2>1, <2>2, Zenon
  <2>4. 4 * g + 1 \in Nat /\ j + 1 = 2
    BY <1>8
  <2> QED
    BY <1>2, <1>3, <1>8, <2>3, <2>4, Zenon
<1>9. CASE j = 2
  <2>1. S(4 * g + 2) =
          32 * Bit(24 * g + 12) + 16 * Bit(24 * g + 13) + 8 * Bit(24 * g + 14)
            + 4 * Bit(24 * g + 15) + 2 * Bit(24 * g + 16) + Bit(24 * g + 17)
    <3>1. /\ 6 * (4 * g + 2) + 0 = 24 * g + 12 /\ 6 * (4 * g + 2) + 1 = 24 * g + 13
          /\ 6 * (4 * g + 2) + 2 = 24 * g + 14 /\ 6 * (4 * g + 2) + 3 = 24 * g + 15
          /\ 6 * (4 * g + 2) + 4 = 24 * g + 16 /\ 6 * (4 * g + 2) + 5 = 24 * g + 17
      OBVIOUS
    <3> QED
      BY <3>1, Zenon
  <2>2. 32 * ((b \div 8) % 2) + 16 * ((b \div 4) % 2) + 8 * ((b \div 2) % 2)
          + 4 * (b % 2) + 2 * ((c \div 128) % 2) + ((c \div 64) % 2)
        = (b % 16) * 4 + (c \div 64)
    BY <1>1, SixBits
  <2>3. S(4 * g + 2) = (b % 16) * 4 + (c \div 64)
    BY <1>5, <1>6, <2>1, <2>2, Zenon
  <2>4. 4 * g + 2 \in Nat /\ j + 1 = 3
    BY <1>9
  <2> QED
    BY <1>2, <1>3, <1>9, <2>3, <2>4, Zenon
<1>10. CASE j = 3
  <2>1. S(4 * g + 3) =
          32 * Bit(24 * g + 18) + 16 * Bit(24 * g + 19) + 8 * Bit(24 * g + 20)
            + 4 * Bit(24 * g + 21) + 2 * Bit(24 * g + 22) + Bit(24 * g + 23)
    <3>1. /\ 6 * (4 * g + 3) + 0 = 24 * g + 18 /\ 6 * (4 * g + 3) + 1 = 24 * g + 19
          /\ 6 * (4 * g + 3) + 2 = 24 * g + 20 /\ 6 * (4 * g + 3) + 3 = 24 * g + 21
          /\ 6 * (4 * g + 3) + 4 = 24 * g + 22 /\ 6 * (4 * g + 3) + 5 = 24 * g + 23
      OBVIOUS
    <3> QED
      BY <3>1, Zenon
  <2>2. 32 * ((c \div 32) % 2) + 16 * ((c \div 16) % 2) + 8 * ((c \div 8) % 2)
          + 4 * ((c \div 4) % 2) + 2 * ((c \div 2) % 2) + (c % 2) = c % 64
    BY <1>1, SixBits
  <2>3. S(4 * g + 3) = c % 64
    BY <1>6, <2>1, <2>2, Zenon
  <2>4. 4 * g + 3 \in Nat /\ j + 1 = 4
    BY <1>10
  <2> QED
    BY <1>2, <1>3, <1>10, <2>3, <2>4, Zenon
<1> QED
  BY <1>7, <1>8, <1>9, <1>10

(* Base64Encode cuts the bits of its input into sixes, and fills up with    *)
(* '=' what has no bits (base64.cc), for inputs of any length.              *)
THEOREM Base64EncodesBits ==
  ASSUME NEW bytes \in Seq(Codec!Bytes)
  PROVE  Codec!EncodesBits(bytes)
<1> DEFINE E == Codec!Base64Encode(bytes)
           n == Len(bytes)
<1>1. n \in Nat
  OBVIOUS
<1>2. (8 * n + 5) \div 6 = Meaning(n)
  <2> PICK q, r : q = n \div 3 /\ r = n % 3
    OBVIOUS
  <2>1. q \in Nat /\ r \in 0..2 /\ n = 3 * q + r
    OBVIOUS
  <2>2. Meaning(n) = 4 * q + (IF r = 0 THEN 0 ELSE r + 1)
    BY Zenon DEF Meaning
  <2>3. r = 0 => (8 * n + 5) \div 6 = 4 * q + 0
    BY <2>1
  <2>4. r # 0 => (8 * n + 5) \div 6 = 4 * q + (r + 1)
    BY <2>1
  <2> QED
    BY <2>2, <2>3, <2>4, Zenon
<1> SUFFICES ASSUME NEW k \in 1..Len(E)
             PROVE  E[k] = IF k <= Meaning(n) THEN Codec!Sextet(bytes, k - 1)
                           ELSE Codec!Pad
  BY <1>2, Zenon DEF Codec!EncodesBits
<1>3. PICK g \in Nat, j \in 0..3 : g < (n + 2) \div 3 /\ k = 4 * g + j + 1
  BY EncodedPlaces
<1>4. E[k] = IF j < Codec!CharsOf(InGroup(bytes, g)) THEN GroupOf(bytes, g)[j + 1]
             ELSE Codec!Pad
  BY <1>3, EncodedAt
<1>5. j < Codec!CharsOf(InGroup(bytes, g)) <=> k <= Meaning(n)
  BY <1>1, <1>3, GroupSizes DEF InGroup
<1>6. k - 1 = 4 * g + j
  BY <1>3
<1>7. Codec!Sextet(bytes, k - 1) = GroupOf(bytes, g)[j + 1]
  BY <1>6, SextetsAre, Zenon
<1> QED
  BY <1>4, <1>5, <1>7, Zenon

-----------------------------------------------------------------------------
(* What Base64 is asked about is a string of bytes. *)
BytesInv == part = "bytes" => one \in Seq(Codec!Bytes)

LEMMA AsksForBytes ==
  BytesInv /\ [LibraryNext]_<<part, inputs, vars, program, imageVars>> => BytesInv'
<1> SUFFICES ASSUME BytesInv, [LibraryNext]_<<part, inputs, vars, program, imageVars>>
             PROVE  BytesInv'
  OBVIOUS
<1>1. CASE UNCHANGED <<part, one>>
  BY <1>1 DEF BytesInv
<1>2. CASE Ask
  <2> SUFFICES ASSUME part = "bytes" PROVE one' \in Seq(Codec!Bytes)
    BY <1>2 DEF Ask, BytesInv
  <2>1. one \in Seq(Codec!Bytes) /\ part \in Questions
    BY <1>2 DEF Ask, BytesInv
  <2>2. PICK letter \in Letters["bytes"] : one' = Append(one, letter) \/ one' = one
    BY <1>2 DEF Ask
  <2>3. letter \in Codec!Bytes
    BY <2>1, LettersAssumption
  <2> QED
    BY <2>1, <2>2, <2>3
<1> QED
  BY <1>1, <1>2 DEF LibraryNext, inputs

(* Base64 and the comparisons of integers and addresses are exact in every   *)
(* state of Library: with any alphabet of bytes, inputs of any length, and   *)
(* as the theorems above say for any numbers.  Of ValuesExact only the edit  *)
(* distance, which is computed by recursion on the data, is left to TLC.     *)
THEOREM ValuesAreExact == LibrarySpec => [](part # "distance" => ValuesExact)
<1>1. LibraryInit => BytesInv
  BY DEF LibraryInit, BytesInv
<1>2. BytesInv /\ part # "distance" => ValuesExact
  <2> SUFFICES ASSUME BytesInv, part # "distance" PROVE ValuesExact
    OBVIOUS
  <2>1. CASE part = "bytes"
    <3>1. one \in Seq(Codec!Bytes)
      BY <2>1 DEF BytesInv
    <3>2. Codec!EncodesBits(one) /\ Codec!RoundTrips(one)
      BY <3>1, Base64EncodesBits, Base64RoundTrips
    <3> QED
      BY <2>1, <3>2, Zenon DEF ValuesExact
  <2>2. CASE part \in {"integers", "addresses"}
    BY <2>2, IntegersAndAddresses
  <2>3. CASE part \notin {"bytes", "distance", "integers", "addresses"}
    BY <2>3, Zenon DEF ValuesExact
  <2> QED
    BY <2>1, <2>2, <2>3
<1> QED
  BY <1>1, <1>2, AsksForBytes, PTL DEF LibrarySpec
=============================================================================
