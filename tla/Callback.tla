------------------------------ MODULE Callback ------------------------------
(***************************************************************************)
(* kwc::Callback and its relatives (src/kwctoolkit/base/callback.h,        *)
(* callback_types.h, callback_impl.h): objects that keep a function and    *)
(* its first, pre-bound, arguments until somebody runs them with the rest. *)
(* There are 16 groups of classes, by the numbers of pre-bound and of      *)
(* call-time arguments; a group has a class for const member functions,    *)
(* one for member functions and one for functions, each with a result and  *)
(* without, made by MakeCallback or by MakePermanentCallback.  They differ *)
(* in what this model leaves out only.                                     *)
(*                                                                         *)
(* The functions may do what the interface allows: run callbacks, give a   *)
(* permanent one back (even the one that runs them), change an argument    *)
(* that they take by reference, throw.                                     *)
(***************************************************************************)
EXTENDS Integers, Sequences, FiniteSets

CONSTANTS
  Callbacks,            \* the callbacks, by their addresses
  MaxAssign,            \* bound: assignments to the caller's variables
  MaxRuns,              \* bound: runs of one callback
  MaxDepth              \* bound: runs within runs

ASSUME BoundsAssumption ==
  /\ IsFiniteSet(Callbacks)
  /\ MaxAssign \in Nat /\ MaxRuns \in Nat /\ MaxDepth \in Nat

VARIABLES
  group,                \* the numbers of pre-bound and call-time arguments
  assigned,             \* how often the caller's variables were assigned
  callback,             \* the objects
  stack,                \* the calls of run() in progress, the last one first
  touched               \* was a deleted object touched?

vars == <<group, assigned, callback, stack, touched>>

Groups == (0..3) \X (0..3)
Prebound == group[1]
Calltime == group[2]

(* An argument: the caller's i-th variable of a kind, as it was at a time,  *)
(* and how often functions have changed it since.                           *)
Argument(kind, i, time, changes) ==
  [kind |-> kind, i |-> i, time |-> time, changes |-> changes]

-----------------------------------------------------------------------------
(* What run(a) of the classes of each group passes to the function, p being *)
(* p1_, p2_ and p3_.                                                        *)
Call00(p, a) == <<>>
Call01(p, a) == <<a[1]>>
Call02(p, a) == <<a[1], a[2]>>
Call03(p, a) == <<a[1], a[2], a[3]>>
Call10(p, a) == <<p[1]>>
Call11(p, a) == <<p[1], a[1]>>
Call12(p, a) == <<p[1], a[1], a[2]>>
Call13(p, a) == <<p[1], a[1], a[2], a[3]>>
Call20(p, a) == <<p[1], p[2]>>
Call21(p, a) == <<p[1], p[2], a[1]>>
Call22(p, a) == <<p[1], p[2], a[1], a[2]>>
Call23(p, a) == <<p[1], p[2], a[1], a[2], a[3]>>
Call30(p, a) == <<p[1], p[2], p[3]>>
Call31(p, a) == <<p[1], p[2], p[3], a[1]>>
Call32Swapped(p, a) == <<p[1], p[2], a[1], p[3], a[2]>>  \* faulty variant
Call32(p, a) == <<p[1], p[2], p[3], a[1], a[2]>>
Call33(p, a) == <<p[1], p[2], p[3], a[1], a[2], a[3]>>

Passed(p, a) ==
  CASE group = <<0, 0>> -> Call00(p, a) [] group = <<0, 1>> -> Call01(p, a)
    [] group = <<0, 2>> -> Call02(p, a) [] group = <<0, 3>> -> Call03(p, a)
    [] group = <<1, 0>> -> Call10(p, a) [] group = <<1, 1>> -> Call11(p, a)
    [] group = <<1, 2>> -> Call12(p, a) [] group = <<1, 3>> -> Call13(p, a)
    [] group = <<2, 0>> -> Call20(p, a) [] group = <<2, 1>> -> Call21(p, a)
    [] group = <<2, 2>> -> Call22(p, a) [] group = <<2, 3>> -> Call23(p, a)
    [] group = <<3, 0>> -> Call30(p, a) [] group = <<3, 1>> -> Call31(p, a)
    [] group = <<3, 2>> -> Call32(p, a) [] group = <<3, 3>> -> Call33(p, a)

-----------------------------------------------------------------------------
NoCallback ==
  [state |-> "none", del |-> FALSE, byRef |-> FALSE, bound |-> <<>>,
   set |-> FALSE, made |-> 0, runs |-> 0, thrown |-> FALSE]

Init ==
  /\ group \in Groups
  /\ assigned = 0
  /\ callback = [c \in Callbacks |-> NoCallback]
  /\ stack = <<>>
  /\ touched = FALSE

Live(c) == callback[c].state = "live"
Running(c) == \E k \in 1..Len(stack) : stack[k].id = c

(* The pre-bound arguments are copied, also those that the function takes   *)
(* by reference.                                                            *)
Make(c, del, byRef) ==
  /\ callback[c].state = "none"
  /\ byRef => Prebound > 0
  /\ callback' = [callback EXCEPT ![c] =
       [state |-> "live", del |-> del, byRef |-> byRef, set |-> TRUE,
        bound |-> [i \in 1..Prebound |-> Argument("p", i, assigned, 0)],
        made |-> assigned, runs |-> 0, thrown |-> FALSE]]
  /\ UNCHANGED <<group, assigned, stack, touched>>

MakeCallback(c, byRef) == Make(c, TRUE, byRef)
MakePermanentCallback(c, byRef) == Make(c, FALSE, byRef)

(* The caller's variables change. *)
Assign ==
  /\ assigned < MaxAssign
  /\ assigned' = assigned + 1
  /\ UNCHANGED <<group, callback, stack, touched>>

(* run() of a callback that may be run: one made by MakeCallback only once. *)
Run(c) ==
  /\ Live(c)
  /\ callback[c].del => ~Running(c) /\ ~callback[c].thrown
  /\ callback[c].runs < MaxRuns /\ Len(stack) < MaxDepth
  /\ stack' = <<[id |-> c, at |-> assigned, changes |-> callback[c].runs,
                 received |-> Passed(callback[c].bound,
                   [i \in 1..Calltime |-> Argument("a", i, assigned, 0)])]>>
              \o stack
  /\ UNCHANGED <<group, assigned, callback, touched>>

(* The function has changed its first argument, if it is a reference: the   *)
(* copy in the callback changes.                                            *)
Changed(c) ==
  IF callback[c].byRef /\ Live(c)
  THEN [callback[c] EXCEPT !.bound[1].changes = @ + 1, !.runs = @ + 1]
  ELSE [callback[c] EXCEPT !.runs = @ + 1]

(* Faulty variants: method_ is reset in permanent callbacks as well; the    *)
(* object is not deleted.                                                   *)
FinishAlways(c) ==
  /\ touched' = (touched \/ ~Live(c))
  /\ callback' = [callback EXCEPT ![c] =
       [Changed(c) EXCEPT !.set = FALSE,
                          !.state = IF callback[c].del THEN "deleted" ELSE @]]
FinishKeeps(c) ==
  /\ touched' = (touched \/ (callback[c].del /\ ~Live(c)))
  /\ callback' = [callback EXCEPT ![c] = [Changed(c) EXCEPT !.set = ~callback[c].del]]

(* The rest of run(), when the function has returned. *)
Finish(c) ==
  IF callback[c].del
  THEN /\ touched' = (touched \/ ~Live(c))
       /\ callback' = [callback EXCEPT ![c] =
            [Changed(c) EXCEPT !.set = FALSE, !.state = "deleted"]]
  ELSE /\ callback' = [callback EXCEPT ![c] = Changed(c)]
       /\ UNCHANGED touched

Return ==
  /\ stack # <<>>
  /\ Finish(Head(stack).id)
  /\ stack' = Tail(stack)
  /\ UNCHANGED <<group, assigned>>

(* The function throws: run() is left at once. *)
Throw ==
  /\ stack # <<>>
  /\ LET c == Head(stack).id
     IN callback' = [callback EXCEPT ![c] = [Changed(c) EXCEPT !.thrown = TRUE]]
  /\ stack' = Tail(stack)
  /\ UNCHANGED <<group, assigned, touched>>

(* The owner deletes a permanent callback, one that was never run, or one   *)
(* whose exception it has caught.                                           *)
Delete(c) ==
  /\ Live(c)
  /\ callback[c].del => ~Running(c) /\ (callback[c].runs = 0 \/ callback[c].thrown)
  /\ callback' = [callback EXCEPT ![c].state = "deleted"]
  /\ UNCHANGED <<group, assigned, stack, touched>>

Next ==
  \/ Assign \/ Return \/ Throw
  \/ \E c \in Callbacks :
       \/ Run(c) \/ Delete(c)
       \/ \E byRef \in BOOLEAN : MakeCallback(c, byRef) \/ MakePermanentCallback(c, byRef)

Spec == Init /\ [][Next]_vars

-----------------------------------------------------------------------------
(* Whatever the functions do, within each other or not, run() touches no   *)
(* callback that has been deleted: a function may delete the permanent     *)
(* callback that runs it.                                                  *)
NoUseAfterDelete == ~touched

(* The functions receive the pre-bound arguments first, as they were when  *)
(* the callback was made, and the call-time arguments after them, as they  *)
(* were when it was run, in order.  What a function that takes its first   *)
(* argument by reference has changed, the next run of the same callback    *)
(* sees, and nobody else.                                                  *)
ArgumentsInOrder ==
  \A k \in 1..Len(stack) :
    LET call == stack[k]
        own == callback[call.id]
    IN /\ Len(call.received) = Prebound + Calltime
       /\ \A i \in 1..Prebound :
            call.received[i] = Argument("p", i, own.made,
              IF i = 1 /\ own.byRef THEN call.changes ELSE 0)
       /\ \A i \in 1..Calltime :
            call.received[Prebound + i] = Argument("a", i, call.at, 0)

(* A callback of MakeCallback that has been run is gone, unless its         *)
(* function threw: then it is left to whoever catches the exception.        *)
SelfDeleting ==
  \A c \in Callbacks :
    callback[c].del /\ callback[c].runs > 0 /\ ~Running(c) =>
      callback[c].state = "deleted" \/ callback[c].thrown
=============================================================================
