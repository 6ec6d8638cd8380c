------------------------------- MODULE Result -------------------------------
(***************************************************************************)
(* base::Result<T, E> (src/kwctoolkit/base/result.h, result.cc): what a    *)
(* function returns that may fail.  A Result holds a success value or an   *)
(* error until it is moved or received, and its assertions (KWC_ASSERT,    *)
(* built with ENABLE_ASSERTS) abort the program that discards it.          *)
(*                                                                         *)
(* The specialisations share one state machine and differ in what they     *)
(* call empty and what they assert:                                        *)
(*   "pointer"   Result<T*, E>, Result<const T*, E> and Result<Ref<T>, E>: *)
(*               a tagged pointer;                                         *)
(*   "copied"    the first and the last of these in a program that uses    *)
(*               the copy operations the compiler provides for them;       *)
(*   "void"      Result<void, E>: an error or a null pointer;              *)
(*   "fallback"  Result<T, E>: a tag beside both values.                   *)
(***************************************************************************)
EXTENDS FiniteSets

CONSTANTS
  Slots,                \* the program's variables of type Result
  Objects,              \* success values and errors
  NoObject,
  Variants              \* the specialisations looked at

ASSUME ObjectsAssumption == NoObject \notin Objects
ASSUME VariantsAssumption ==
  Variants \subseteq {"pointer", "copied", "void", "fallback"}

VARIABLES
  variant,              \* the specialisation, fixed
  slot,                 \* slot[s]: tag and object of variable s
  owner,                \* owner[o]: who has object o
  made,                 \* made[o]: was o put in as a success or as an error?
  failed                \* an assertion has failed: the program has aborted

vars == <<variant, slot, owner, made, failed>>

Tags == {"none", "success", "error", "empty"}
Owners == {"new", "result", "success", "error", "dropped"}

None == [tag |-> "none", object |-> NoObject]
Empty == [tag |-> IF variant = "void" THEN "success" ELSE "empty",
          object |-> NoObject]
Holds(s) == slot[s].object # NoObject
Live(s) == slot[s].tag # "none"

-----------------------------------------------------------------------------
Init ==
  /\ variant \in Variants
  /\ slot = [s \in Slots |-> None]
  /\ owner = [o \in Objects |-> "new"]
  /\ made = [o \in Objects |-> "none"]
  /\ failed = FALSE

Make(s, o, tag) ==
  /\ ~failed
  /\ slot[s].tag = "none"
  /\ owner[o] = "new"
  /\ slot' = [slot EXCEPT ![s] = [tag |-> tag, object |-> o]]
  /\ owner' = [owner EXCEPT ![o] = "result"]
  /\ made' = [made EXCEPT ![o] = tag]
  /\ UNCHANGED <<variant, failed>>

(* The constructors from a value and from an error. *)
MakeSuccess(s, o) == variant # "void" /\ Make(s, o, "success")
MakeError(s, o) == Make(s, o, "error")

(* The default constructor: nothing yet, or success for "void". *)
MakeDefault(s) ==
  /\ ~failed
  /\ variant # "fallback"
  /\ slot[s].tag = "none"
  /\ slot' = [slot EXCEPT ![s] = Empty]
  /\ UNCHANGED <<variant, owner, made, failed>>

MoveConstruct(s, from) ==
  /\ ~failed
  /\ ~Live(s) /\ Live(from)
  /\ slot' = [slot EXCEPT ![s] = slot[from], ![from] = Empty]
  /\ UNCHANGED <<variant, owner, made, failed>>

-----------------------------------------------------------------------------
(* What the assertions demand.  In "fallback", operator= asserts nothing,   *)
(* and getError asserts an assignment, which always is true.                *)
MayAssign(s) == variant = "fallback" \/ ~Holds(s)
MayGetSuccess(s) == variant = "void" \/ slot[s].tag = "success"
MayGetError(s) ==
  variant \in {"pointer", "copied"} => slot[s].tag = "error"

(* Faulty variant, for the mutation runs: the destructor asserts nothing. *)
MayDestroyAlways(s) == TRUE

MayDestroy(s) == IF variant = "fallback" THEN slot[s].tag = "empty" ELSE ~Holds(s)

Asserted(condition) == ~failed /\ condition
AssertionFails(condition) ==
  /\ ~failed
  /\ ~condition
  /\ failed' = TRUE
  /\ UNCHANGED <<variant, slot, owner, made>>

(* What s held is gone, and nobody has received it. *)
Drop(s) ==
  owner' = IF Holds(s) THEN [owner EXCEPT ![slot[s].object] = "dropped"] ELSE owner

(* Faulty variant: the source is not emptied. *)
MoveAssignKeeps(s, from) ==
  /\ Asserted(MayAssign(s))
  /\ Live(s) /\ Live(from)
  /\ slot' = [slot EXCEPT ![s] = slot[from]]
  /\ Drop(s)
  /\ UNCHANGED <<variant, made, failed>>

(* operator=(Result&&), also of a Result to itself. *)
MoveAssign(s, from) ==
  /\ Asserted(MayAssign(s))
  /\ Live(s) /\ Live(from)
  /\ slot' = [slot EXCEPT ![s] = slot[from], ![from] = Empty]
  /\ Drop(s)
  /\ UNCHANGED <<variant, made, failed>>

(* The copy assignment the compiler generates: the move operations of       *)
(* Result<T*, E> and Result<Ref<T>, E> are templates and do not suppress    *)
(* it, as those of Result<const T*, E> do.  It asserts nothing.             *)
CopyAssign(s, from) ==
  /\ ~failed
  /\ variant = "copied"
  /\ s # from /\ Live(s) /\ Live(from)
  /\ slot' = [slot EXCEPT ![s] = slot[from]]
  /\ owner' = IF Holds(s) /\ slot[s].object # slot[from].object
              THEN [owner EXCEPT ![slot[s].object] = "dropped"] ELSE owner
  /\ UNCHANGED <<variant, made, failed>>

(* getSuccess hands the value over; that of "void" does nothing. *)
GetSuccess(s) ==
  /\ Asserted(MayGetSuccess(s))
  /\ Live(s)
  /\ variant # "void"
  /\ slot' = [slot EXCEPT ![s] = Empty]
  /\ owner' = [owner EXCEPT ![slot[s].object] = "success"]
  /\ UNCHANGED <<variant, made, failed>>

(* getError hands the error over.  Called on a success of "fallback", it    *)
(* returns a null pointer and the success can no longer be received.        *)
GetError(s) ==
  /\ Asserted(MayGetError(s))
  /\ Live(s)
  /\ slot' = [slot EXCEPT ![s] = Empty]
  /\ \/ slot[s].tag = "error" /\ owner' = [owner EXCEPT ![slot[s].object] = "error"]
     \/ slot[s].tag # "error" /\ Drop(s)
  /\ UNCHANGED <<variant, made, failed>>

Destroy(s) ==
  /\ Asserted(MayDestroy(s))
  /\ Live(s)
  /\ slot' = [slot EXCEPT ![s] = None]
  /\ Drop(s)
  /\ UNCHANGED <<variant, made, failed>>

(* A call whose assertion does not hold. *)
Abort(s) ==
  /\ Live(s)
  /\ \/ \E from \in Slots : Live(from) /\ AssertionFails(MayAssign(s))
     \/ AssertionFails(MayGetSuccess(s))
     \/ AssertionFails(MayGetError(s))
     \/ AssertionFails(MayDestroy(s))

Next ==
  \E s \in Slots :
    \/ \E o \in Objects : MakeSuccess(s, o) \/ MakeError(s, o)
    \/ MakeDefault(s)
    \/ \E from \in Slots :
         MoveConstruct(s, from) \/ MoveAssign(s, from) \/ CopyAssign(s, from)
    \/ GetSuccess(s) \/ GetError(s) \/ Destroy(s)
    \/ Abort(s)

Spec == Init /\ [][Next]_vars

-----------------------------------------------------------------------------
(* The types of all variables; but for the success of "void", a Result has *)
(* an object exactly when its tag says so.                                 *)
TypeOK ==
  /\ variant \in Variants
  /\ slot \in [Slots -> [tag : Tags, object : Objects \cup {NoObject}]]
  /\ owner \in [Objects -> Owners]
  /\ made \in [Objects -> {"none", "success", "error"}]
  /\ failed \in BOOLEAN
  /\ \A s \in Slots :
       /\ slot[s].tag = "error" => Holds(s)
       /\ slot[s].tag = "success" => (Holds(s) <=> variant # "void")
       /\ slot[s].tag \in {"none", "empty"} => ~Holds(s)

(* Every object has one owner at a time: one Result holds it, or nobody    *)
(* can receive it any more, however Results are moved about.  Only where   *)
(* they are copied do two Results own the same object.                     *)
ExclusiveOwnership ==
  variant # "copied" =>
    /\ \A s, t \in Slots :
         Holds(s) /\ slot[s].object = slot[t].object => s = t
    /\ \A o \in Objects :
         owner[o] = "result" <=> \E s \in Slots : slot[s].object = o

(* getSuccess never hands out what was put in as an error, nor getError a  *)
(* success.                                                                *)
ReceivedAsMade ==
  \A o \in Objects :
    /\ owner[o] \in {"success", "error"} => owner[o] = made[o]
    /\ \A s \in Slots : slot[s].object = o => slot[s].tag = made[o]

(* "A Result should/can never be discarded in order to enforce that error  *)
(* handling has to be done": as long as no assertion has failed, whatever  *)
(* was put into a Result is still in one, or was received.                 *)
NothingDiscarded == \A o \in Objects : owner[o] # "dropped"

(* The specialisations enforce it, as long as they are not copied.  The    *)
(* assignment of "fallback" asserts nothing.                               *)
EnforcesHandling == variant \notin {"copied", "fallback"} => NothingDiscarded
=============================================================================
