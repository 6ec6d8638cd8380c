--------------------------- MODULE CallbackProofs ---------------------------
(***************************************************************************)
(* Proofs about Callback, for any callbacks, and any bounds on how often   *)
(* and how deep they are run.                                              *)
(***************************************************************************)
EXTENDS Callback, TLAPS

Arguments == [kind : {"p", "a"}, i : Nat, time : Nat, changes : Nat]
Frames == [id : Callbacks, at : Nat, changes : Nat, received : Seq(Arguments)]
Objects ==
  [state : {"none", "live", "deleted"}, del : BOOLEAN, byRef : BOOLEAN,
   bound : Seq(Arguments), set : BOOLEAN, made : Nat, runs : Nat, thrown : BOOLEAN]

(* The types that the proofs need, without the bounds. *)
Types ==
  /\ group \in Groups
  /\ assigned \in Nat
  /\ callback \in [Callbacks -> Objects]
  /\ stack \in Seq(Frames)
  /\ touched \in BOOLEAN

-----------------------------------------------------------------------------
(* What every group passes on: the pre-bound arguments, then the others. *)
LEMMA PassedInOrder ==
  ASSUME group \in Groups,
         NEW p \in Seq(Arguments), Len(p) = Prebound,
         NEW a \in [1..Calltime -> Arguments]
  PROVE  /\ Passed(p, a) \in Seq(Arguments)
         /\ Len(Passed(p, a)) = Prebound + Calltime
         /\ \A i \in 1..Prebound : Passed(p, a)[i] = p[i]
         /\ \A i \in 1..Calltime : Passed(p, a)[Prebound + i] = a[i]
<1>a. \A k \in 1..Prebound : p[k] \in Arguments
  OBVIOUS
<1>b. \A k \in 1..Calltime : a[k] \in Arguments
  OBVIOUS
<1>1. CASE group = <<0, 0>>
  <2>1. Prebound = 0 /\ Calltime = 0
    BY <1>1 DEF Prebound, Calltime
  <2>2. Passed(p, a) = <<>>
    BY <1>1 DEF Passed, Call00
  <2>4. Passed(p, a) \in Seq(Arguments) /\ Len(Passed(p, a)) = 0
    BY <2>2
  <2>5. \A k \in 1..0 : Passed(p, a)[k] = p[k]
    BY <2>2
  <2>6. \A k \in 1..0 : Passed(p, a)[0 + k] = a[k]
    BY <2>2
  <2>. QED  BY <2>1, <2>4, <2>5, <2>6
<1>2. CASE group = <<0, 1>>
  <2>1. Prebound = 0 /\ Calltime = 1
    BY <1>2 DEF Prebound, Calltime
  <2>2. Passed(p, a) = <<a[1]>>
    BY <1>2 DEF Passed, Call01
  <2>3. a[1] \in Arguments
    BY <2>1, <1>a, <1>b
  <2>4. Passed(p, a) \in Seq(Arguments) /\ Len(Passed(p, a)) = 1
    BY <2>2, <2>3
  <2>5. \A k \in 1..0 : Passed(p, a)[k] = p[k]
    BY <2>2
  <2>6. \A k \in 1..1 : Passed(p, a)[0 + k] = a[k]
    BY <2>2
  <2>. QED  BY <2>1, <2>4, <2>5, <2>6
<1>3. CASE group = <<0, 2>>
  <2>1. Prebound = 0 /\ Calltime = 2
    BY <1>3 DEF Prebound, Calltime
  <2>2. Passed(p, a) = <<a[1], a[2]>>
    BY <1>3 DEF Passed, Call02
  <2>3. a[1] \in Arguments /\ a[2] \in Arguments
    BY <2>1, <1>a, <1>b
  <2>4. Passed(p, a) \in Seq(Arguments) /\ Len(Passed(p, a)) = 2
    BY <2>2, <2>3
  <2>5. \A k \in 1..0 : Passed(p, a)[k] = p[k]
    BY <2>2
  <2>6. \A k \in 1..2 : Passed(p, a)[0 + k] = a[k]
    BY <2>2
  <2>. QED  BY <2>1, <2>4, <2>5, <2>6
<1>4. CASE group = <<0, 3>>
  <2>1. Prebound = 0 /\ Calltime = 3
    BY <1>4 DEF Prebound, Calltime
  <2>2. Passed(p, a) = <<a[1], a[2], a[3]>>
    BY <1>4 DEF Passed, Call03
  <2>3. a[1] \in Arguments /\ a[2] \in Arguments /\ a[3] \in Arguments
    BY <2>1, <1>a, <1>b
  <2>4. Passed(p, a) \in Seq(Arguments) /\ Len(Passed(p, a)) = 3
    BY <2>2, <2>3
  <2>5. \A k \in 1..0 : Passed(p, a)[k] = p[k]
    BY <2>2
  <2>6. \A k \in 1..3 : Passed(p, a)[0 + k] = a[k]
    BY <2>2
  <2>. QED  BY <2>1, <2>4, <2>5, <2>6
<1>5. CASE group = <<1, 0>>
  <2>1. Prebound = 1 /\ Calltime = 0
    BY <1>5 DEF Prebound, Calltime
  <2>2. Passed(p, a) = <<p[1]>>
    BY <1>5 DEF Passed, Call10
  <2>3. p[1] \in Arguments
    BY <2>1, <1>a, <1>b
  <2>4. Passed(p, a) \in Seq(Arguments) /\ Len(Passed(p, a)) = 1
    BY <2>2, <2>3
  <2>5. \A k \in 1..1 : Passed(p, a)[k] = p[k]
    BY <2>2
  <2>6. \A k \in 1..0 : Passed(p, a)[1 + k] = a[k]
    BY <2>2
  <2>. QED  BY <2>1, <2>4, <2>5, <2>6
<1>6. CASE group = <<1, 1>>
  <2>1. Prebound = 1 /\ Calltime = 1
    BY <1>6 DEF Prebound, Calltime
  <2>2. Passed(p, a) = <<p[1], a[1]>>
    BY <1>6 DEF Passed, Call11
  <2>3. p[1] \in Arguments /\ a[1] \in Arguments
    BY <2>1, <1>a, <1>b
  <2>4. Passed(p, a) \in Seq(Arguments) /\ Len(Passed(p, a)) = 2
    BY <2>2, <2>3
  <2>5. \A k \in 1..1 : Passed(p, a)[k] = p[k]
    BY <2>2
  <2>6. \A k \in 1..1 : Passed(p, a)[1 + k] = a[k]
    BY <2>2
  <2>. QED  BY <2>1, <2>4, <2>5, <2>6
<1>7. CASE group = <<1, 2>>
  <2>1. Prebound = 1 /\ Calltime = 2
    BY <1>7 DEF Prebound, Calltime
  <2>2. Passed(p, a) = <<p[1], a[1], a[2]>>
    BY <1>7 DEF Passed, Call12
  <2>3. p[1] \in Arguments /\ a[1] \in Arguments /\ a[2] \in Arguments
    BY <2>1, <1>a, <1>b
  <2>4. Passed(p, a) \in Seq(Arguments) /\ Len(Passed(p, a)) = 3
    BY <2>2, <2>3
  <2>5. \A k \in 1..1 : Passed(p, a)[k] = p[k]
    BY <2>2
  <2>6. \A k \in 1..2 : Passed(p, a)[1 + k] = a[k]
    BY <2>2
  <2>. QED  BY <2>1, <2>4, <2>5, <2>6
<1>8. CASE group = <<1, 3>>
  <2>1. Prebound = 1 /\ Calltime = 3
    BY <1>8 DEF Prebound, Calltime
  <2>2. Passed(p, a) = <<p[1], a[1], a[2], a[3]>>
    BY <1>8 DEF Passed, Call13
  <2>3. p[1] \in Arguments /\ a[1] \in Arguments /\ a[2] \in Arguments
        /\ a[3] \in Arguments
    BY <2>1, <1>a, <1>b
  <2>4. Passed(p, a) \in Seq(Arguments) /\ Len(Passed(p, a)) = 4
    BY <2>2, <2>3
  <2>5. \A k \in 1..1 : Passed(p, a)[k] = p[k]
    BY <2>2
  <2>6. \A k \in 1..3 : Passed(p, a)[1 + k] = a[k]
    BY <2>2
  <2>. QED  BY <2>1, <2>4, <2>5, <2>6
<1>9. CASE group = <<2, 0>>
  <2>1. Prebound = 2 /\ Calltime = 0
    BY <1>9 DEF Prebound, Calltime
  <2>2. Passed(p, a) = <<p[1], p[2]>>
    BY <1>9 DEF Passed, Call20
  <2>3. p[1] \in Arguments /\ p[2] \in Arguments
    BY <2>1, <1>a, <1>b
  <2>4. Passed(p, a) \in Seq(Arguments) /\ Len(Passed(p, a)) = 2
    BY <2>2, <2>3
  <2>5. \A k \in 1..2 : Passed(p, a)[k] = p[k]
    BY <2>2
  <2>6. \A k \in 1..0 : Passed(p, a)[2 + k] = a[k]
    BY <2>2
  <2>. QED  BY <2>1, <2>4, <2>5, <2>6
<1>10. CASE group = <<2, 1>>
  <2>1. Prebound = 2 /\ Calltime = 1
    BY <1>10 DEF Prebound, Calltime
  <2>2. Passed(p, a) = <<p[1], p[2], a[1]>>
    BY <1>10 DEF Passed, Call21
  <2>3. p[1] \in Arguments /\ p[2] \in Arguments /\ a[1] \in Arguments
    BY <2>1, <1>a, <1>b
  <2>4. Passed(p, a) \in Seq(Arguments) /\ Len(Passed(p, a)) = 3
    BY <2>2, <2>3
  <2>5. \A k \in 1..2 : Passed(p, a)[k] = p[k]
    BY <2>2
  <2>6. \A k \in 1..1 : Passed(p, a)[2 + k] = a[k]
    BY <2>2
  <2>. QED  BY <2>1, <2>4, <2>5, <2>6
<1>11. CASE group = <<2, 2>>
  <2>1. Prebound = 2 /\ Calltime = 2
    BY <1>11 DEF Prebound, Calltime
  <2>2. Passed(p, a) = <<p[1], p[2], a[1], a[2]>>
    BY <1>11 DEF Passed, Call22
  <2>3. p[1] \in Arguments /\ p[2] \in Arguments /\ a[1] \in Arguments
        /\ a[2] \in Arguments
    BY <2>1, <1>a, <1>b
  <2>4. Passed(p, a) \in Seq(Arguments) /\ Len(Passed(p, a)) = 4
    BY <2>2, <2>3
  <2>5. \A k \in 1..2 : Passed(p, a)[k] = p[k]
    BY <2>2
  <2>6. \A k \in 1..2 : Passed(p, a)[2 + k] = a[k]
    BY <2>2
  <2>. QED  BY <2>1, <2>4, <2>5, <2>6
<1>12. CASE group = <<2, 3>>
  <2>1. Prebound = 2 /\ Calltime = 3
    BY <1>12 DEF Prebound, Calltime
  <2>2. Passed(p, a) = <<p[1], p[2], a[1], a[2], a[3]>>
    BY <1>12 DEF Passed, Call23
  <2>3. p[1] \in Arguments /\ p[2] \in Arguments /\ a[1] \in Arguments
        /\ a[2] \in Arguments /\ a[3] \in Arguments
    BY <2>1, <1>a, <1>b
  <2>4. Passed(p, a) \in Seq(Arguments) /\ Len(Passed(p, a)) = 5
    BY <2>2, <2>3
  <2>5. \A k \in 1..2 : Passed(p, a)[k] = p[k]
    BY <2>2
  <2>6. \A k \in 1..3 : Passed(p, a)[2 + k] = a[k]
    BY <2>2
  <2>. QED  BY <2>1, <2>4, <2>5, <2>6
<1>13. CASE group = <<3, 0>>
  <2>1. Prebound = 3 /\ Calltime = 0
    BY <1>13 DEF Prebound, Calltime
  <2>2. Passed(p, a) = <<p[1], p[2], p[3]>>
    BY <1>13 DEF Passed, Call30
  <2>3. p[1] \in Arguments /\ p[2] \in Arguments /\ p[3] \in Arguments
    BY <2>1, <1>a, <1>b
  <2>4. Passed(p, a) \in Seq(Arguments) /\ Len(Passed(p, a)) = 3
    BY <2>2, <2>3
  <2>5. \A k \in 1..3 : Passed(p, a)[k] = p[k]
    BY <2>2
  <2>6. \A k \in 1..0 : Passed(p, a)[3 + k] = a[k]
    BY <2>2
  <2>. QED  BY <2>1, <2>4, <2>5, <2>6
<1>14. CASE group = <<3, 1>>
  <2>1. Prebound = 3 /\ Calltime = 1
    BY <1>14 DEF Prebound, Calltime
  <2>2. Passed(p, a) = <<p[1], p[2], p[3], a[1]>>
    BY <1>14 DEF Passed, Call31
  <2>3. p[1] \in Arguments /\ p[2] \in Arguments /\ p[3] \in Arguments
        /\ a[1] \in Arguments
    BY <2>1, <1>a, <1>b
  <2>4. Passed(p, a) \in Seq(Arguments) /\ Len(Passed(p, a)) = 4
    BY <2>2, <2>3
  <2>5. \A k \in 1..3 : Passed(p, a)[k] = p[k]
    BY <2>2
  <2>6. \A k \in 1..1 : Passed(p, a)[3 + k] = a[k]
    BY <2>2
  <2>. QED  BY <2>1, <2>4, <2>5, <2>6
<1>15. CASE group = <<3, 2>>
  <2>1. Prebound = 3 /\ Calltime = 2
    BY <1>15 DEF Prebound, Calltime
  <2>2. Passed(p, a) = <<p[1], p[2], p[3], a[1], a[2]>>
    BY <1>15 DEF Passed, Call32
  <2>3. p[1] \in Arguments /\ p[2] \in Arguments /\ p[3] \in Arguments
        /\ a[1] \in Arguments /\ a[2] \in Arguments
    BY <2>1, <1>a, <1>b
  <2>4. Passed(p, a) \in Seq(Arguments) /\ Len(Passed(p, a)) = 5
    BY <2>2, <2>3
  <2>5. \A k \in 1..3 : Passed(p, a)[k] = p[k]
    BY <2>2
  <2>6. \A k \in 1..2 : Passed(p, a)[3 + k] = a[k]
    BY <2>2
  <2>. QED  BY <2>1, <2>4, <2>5, <2>6
<1>16. CASE group = <<3, 3>>
  <2>1. Prebound = 3 /\ Calltime = 3
    BY <1>16 DEF Prebound, Calltime
  <2>2. Passed(p, a) = <<p[1], p[2], p[3], a[1], a[2], a[3]>>
    BY <1>16 DEF Passed, Call33
  <2>3. p[1] \in Arguments /\ p[2] \in Arguments /\ p[3] \in Arguments
        /\ a[1] \in Arguments /\ a[2] \in Arguments /\ a[3] \in Arguments
    BY <2>1, <1>a, <1>b
  <2>4. Passed(p, a) \in Seq(Arguments) /\ Len(Passed(p, a)) = 6
    BY <2>2, <2>3
  <2>5. \A k \in 1..3 : Passed(p, a)[k] = p[k]
    BY <2>2
  <2>6. \A k \in 1..3 : Passed(p, a)[3 + k] = a[k]
    BY <2>2
  <2>. QED  BY <2>1, <2>4, <2>5, <2>6
<1>17. /\ group[1] \in {0, 1, 2, 3} /\ group[2] \in {0, 1, 2, 3}
       /\ group = <<group[1], group[2]>>
  BY DEF Groups
<1>18. CASE group[1] = 0
  BY <1>17, <1>18, <1>1, <1>2, <1>3, <1>4
<1>19. CASE group[1] = 1
  BY <1>17, <1>19, <1>5, <1>6, <1>7, <1>8
<1>20. CASE group[1] = 2
  BY <1>17, <1>20, <1>9, <1>10, <1>11, <1>12
<1>21. CASE group[1] = 3
  BY <1>17, <1>21, <1>13, <1>14, <1>15, <1>16
<1>. QED
  BY <1>17, <1>18, <1>19, <1>20, <1>21

-----------------------------------------------------------------------------
(* The inductive invariant.  Of an object that lives the arguments are as   *)
(* they were bound, but for what its runs have changed.                     *)
BoundOK(o) ==
  /\ o.set
  /\ o.byRef => Prebound > 0
  /\ Len(o.bound) = Prebound
  /\ \A i \in 1..Prebound :
       o.bound[i] = Argument("p", i, o.made, IF i = 1 /\ o.byRef THEN o.runs ELSE 0)
BoundInv == \A c \in Callbacks : Live(c) => BoundOK(callback[c])

(* What run() was called on exists, and a one-time callback is run once, at *)
(* one place of the stack, and lives until it returns.                      *)
StackInv ==
  \A k \in 1..Len(stack) :
    /\ callback[stack[k].id].state # "none"
    /\ callback[stack[k].id].del =>
         /\ Live(stack[k].id)
         /\ \A j \in 1..Len(stack) : stack[j].id = stack[k].id => j = k

(* A one-time callback has not been run to the end, or is no more, or its   *)
(* function threw.                                                          *)
OnceInv ==
  \A c \in Callbacks :
    callback[c].del /\ callback[c].runs > 0 =>
      callback[c].state = "deleted" \/ callback[c].thrown

IndInv ==
  Types /\ ~touched /\ BoundInv /\ StackInv /\ OnceInv /\ ArgumentsInOrder

(* A frame holds what the function was given, of an object as it is made.   *)
FrameOK(call, own) ==
  /\ Len(call.received) = Prebound + Calltime
  /\ \A i \in 1..Prebound :
       call.received[i] = Argument("p", i, own.made,
         IF i = 1 /\ own.byRef THEN call.changes ELSE 0)
  /\ \A i \in 1..Calltime :
       call.received[Prebound + i] = Argument("a", i, call.at, 0)

LEMMA ArgumentsAreFrames ==
  ArgumentsInOrder <=>
    \A k \in 1..Len(stack) : FrameOK(stack[k], callback[stack[k].id])
BY DEF ArgumentsInOrder, FrameOK

(* What an action that makes no frame must keep of the objects on the stack.*)
LEMMA FramesKept ==
  ASSUME IndInv, stack' = stack, UNCHANGED group,
         \A k \in 1..Len(stack) :
           /\ callback'[stack[k].id].made = callback[stack[k].id].made
           /\ callback'[stack[k].id].byRef = callback[stack[k].id].byRef
  PROVE  ArgumentsInOrder'
BY DEF IndInv, ArgumentsInOrder, Prebound, Calltime

LEMMA OnStack ==
  ASSUME Types
  PROVE  \A k \in 1..Len(stack) : stack[k] \in Frames /\ stack[k].id \in Callbacks
<1>1. \A k \in 1..Len(stack) : stack[k] \in Frames
  BY DEF Types
<1>2. \A f \in Frames : f.id \in Callbacks
  BY DEF Frames
<1>. QED  BY <1>1, <1>2

LEMMA InitInv == Init => IndInv
<1> SUFFICES ASSUME Init PROVE IndInv
  OBVIOUS
<1>1. Types
  <2>1. NoCallback \in Objects
    BY DEF NoCallback, Objects
  <2>2. callback \in [Callbacks -> Objects]
    BY <2>1 DEF Init
  <2>3. stack \in Seq(Frames)
    BY DEF Init
  <2>. QED  BY <2>2, <2>3 DEF Init, Types
<1>2. BoundInv /\ OnceInv
  BY DEF Init, BoundInv, OnceInv, Live, NoCallback
<1>3. StackInv /\ ArgumentsInOrder /\ ~touched
  BY DEF Init, StackInv, ArgumentsInOrder
<1>. QED  BY <1>1, <1>2, <1>3 DEF IndInv

LEMMA AssignInv == ASSUME IndInv, Assign PROVE IndInv'
<1>1. Types' /\ ~touched'
  BY DEF IndInv, Types, Assign
<1>2. BoundInv' /\ StackInv' /\ OnceInv'
  BY DEF IndInv, BoundInv, BoundOK, StackInv, OnceInv, Assign, Live, Prebound
<1>3. ArgumentsInOrder'
  BY FramesKept DEF Assign
<1>. QED  BY <1>1, <1>2, <1>3 DEF IndInv

LEMMA DeleteInv == ASSUME IndInv, NEW c \in Callbacks, Delete(c) PROVE IndInv'
<1>. DEFINE gone == [callback[c] EXCEPT !.state = "deleted"]
<1>1. callback[c] \in Objects /\ callback \in [Callbacks -> Objects]
  BY DEF IndInv, Types
<1>2. gone \in Objects
  BY <1>1 DEF Objects
<1>3. callback' = [callback EXCEPT ![c] = gone]
  BY DEF Delete
<1>4. Types' /\ ~touched'
  BY <1>1, <1>2, <1>3 DEF IndInv, Types, Delete
<1>5. /\ gone.state = "deleted" /\ gone.del = callback[c].del
      /\ gone.made = callback[c].made /\ gone.byRef = callback[c].byRef
  BY <1>1 DEF Objects
<1>. HIDE DEF gone
<1>6. BoundInv' /\ OnceInv'
  BY <1>1, <1>3, <1>5 DEF IndInv, BoundInv, BoundOK, OnceInv, Delete, Live, Prebound
<1>7. callback[c].del => ~Running(c)
  BY DEF Delete
<1>8. StackInv'
  <2> SUFFICES ASSUME NEW k \in 1..Len(stack)
               PROVE  /\ callback'[stack[k].id].state # "none"
                      /\ callback'[stack[k].id].del =>
                           /\ callback'[stack[k].id].state = "live"
                           /\ \A j \in 1..Len(stack) : stack[j].id = stack[k].id => j = k
    BY DEF StackInv, Live, Delete
  <2>1. stack[k].id \in Callbacks
    BY OnStack DEF IndInv
  <2>2. CASE stack[k].id = c
    BY <1>1, <1>3, <1>5, <1>7, <2>2 DEF Running
  <2>3. CASE stack[k].id # c
    BY <1>1, <1>3, <2>1, <2>3 DEF IndInv, StackInv, Live
  <2>. QED  BY <2>2, <2>3
<1>9. ArgumentsInOrder'
  BY <1>1, <1>3, <1>5, FramesKept DEF Delete
<1>. QED  BY <1>4, <1>6, <1>8, <1>9 DEF IndInv

(* A new object. *)
LEMMA MakeInv ==
  ASSUME IndInv, NEW c \in Callbacks, NEW del \in BOOLEAN, NEW byRef \in BOOLEAN,
         Make(c, del, byRef)
  PROVE  IndInv'
<1>. DEFINE made ==
       [state |-> "live", del |-> del, byRef |-> byRef, set |-> TRUE,
        bound |-> [i \in 1..Prebound |-> Argument("p", i, assigned, 0)],
        made |-> assigned, runs |-> 0, thrown |-> FALSE]
<1>1. callback \in [Callbacks -> Objects] /\ assigned \in Nat /\ Prebound \in Nat
  BY DEF IndInv, Types, Groups, Prebound
<1>2. made.bound \in Seq(Arguments) /\ Len(made.bound) = Prebound
  BY <1>1 DEF Argument, Arguments
<1>3. made \in Objects
  BY <1>1, <1>2 DEF Objects
<1>4. callback' = [callback EXCEPT ![c] = made]
  BY DEF Make
<1>5. Types' /\ ~touched'
  BY <1>1, <1>3, <1>4 DEF IndInv, Types, Make
<1>6. BoundOK(made)
  BY <1>1, <1>2 DEF BoundOK, Make
<1>7. BoundInv'
  BY <1>1, <1>4, <1>6 DEF IndInv, BoundInv, BoundOK, Make, Live, Prebound
<1>8. OnceInv'
  BY <1>1, <1>4 DEF IndInv, OnceInv
<1>9. \A k \in 1..Len(stack) : stack[k].id \in Callbacks \ {c}
  BY OnStack DEF IndInv, StackInv, Make
<1>. HIDE DEF made
<1>10. StackInv'
  BY <1>1, <1>4, <1>9 DEF IndInv, StackInv, Make, Live
<1>11. ArgumentsInOrder'
  BY <1>1, <1>4, <1>9, FramesKept DEF Make
<1>. QED  BY <1>5, <1>7, <1>8, <1>10, <1>11 DEF IndInv

(* The call of a function: a new frame on the stack. *)
LEMMA RunInv == ASSUME IndInv, NEW c \in Callbacks, Run(c) PROVE IndInv'
<1>. DEFINE passed == Passed(callback[c].bound,
                             [i \in 1..Calltime |-> Argument("a", i, assigned, 0)])
            frame == [id |-> c, at |-> assigned, changes |-> callback[c].runs,
                      received |-> passed]
<1>1. /\ callback \in [Callbacks -> Objects] /\ assigned \in Nat /\ group \in Groups
      /\ callback[c].bound \in Seq(Arguments) /\ callback[c].runs \in Nat
  BY DEF IndInv, Types, Objects
<1>2. BoundOK(callback[c])
  BY DEF IndInv, BoundInv, Run
<1>3. [i \in 1..Calltime |-> Argument("a", i, assigned, 0)] \in [1..Calltime -> Arguments]
  BY <1>1 DEF Argument, Arguments, Groups, Calltime
<1>4. /\ passed \in Seq(Arguments)
      /\ Len(passed) = Prebound + Calltime
      /\ \A i \in 1..Prebound : passed[i] = callback[c].bound[i]
      /\ \A i \in 1..Calltime : passed[Prebound + i] = Argument("a", i, assigned, 0)
  BY <1>1, <1>2, <1>3, PassedInOrder DEF BoundOK
<1>5. frame \in Frames
  BY <1>1, <1>4 DEF Frames
<1>6. FrameOK(frame, callback[c])
  BY <1>2, <1>4 DEF FrameOK, BoundOK
<1>7. stack' = <<frame>> \o stack
  BY DEF Run
<1>8. frame.id = c
  OBVIOUS
<1>. HIDE DEF frame
<1>9. /\ stack \in Seq(Frames) /\ stack' \in Seq(Frames)
      /\ Len(stack') = Len(stack) + 1
      /\ stack'[1] = frame
      /\ \A k \in 1..Len(stack) : stack'[k + 1] = stack[k]
  BY <1>5, <1>7 DEF IndInv, Types
<1>10. ASSUME NEW k \in 1..Len(stack'), k # 1
       PROVE  k - 1 \in 1..Len(stack) /\ stack'[k] = stack[k - 1]
  <2>1. Len(stack) \in Nat
    BY DEF IndInv, Types
  <2>2. k - 1 \in 1..Len(stack) /\ (k - 1) + 1 = k
    BY <1>9, <1>10, <2>1
  <2>. QED  BY <1>9, <2>2
<1>11. Types' /\ ~touched'
  BY <1>9 DEF IndInv, Types, Run
<1>12. BoundInv' /\ OnceInv'
  BY DEF IndInv, BoundInv, BoundOK, OnceInv, Run, Live, Prebound
<1>13. Live(c) /\ (callback[c].del => ~Running(c))
  BY DEF Run
<1>14. \A k \in 1..Len(stack) : callback[c].del => stack[k].id # c
  BY <1>13 DEF Running
<1>15. StackInv'
  BY <1>8, <1>9, <1>10, <1>13, <1>14 DEF IndInv, StackInv, Run, Live
<1>16. \A k \in 1..Len(stack') : FrameOK(stack'[k], callback[stack'[k].id])
  BY <1>6, <1>8, <1>9, <1>10, ArgumentsAreFrames DEF IndInv
<1>17. ArgumentsInOrder'
  BY <1>16 DEF ArgumentsInOrder, FrameOK, Run, Prebound, Calltime
<1>. QED  BY <1>11, <1>12, <1>15, <1>17 DEF IndInv

LEMMA OneChange ==
  ASSUME NEW r \in Arguments
  PROVE  [r EXCEPT !.changes = @ + 1] \in Arguments
BY DEF Arguments

LEMMA NewBound ==
  ASSUME NEW r \in Objects, NEW b \in Seq(Arguments)
  PROVE  LET o == [r EXCEPT !.bound = b, !.runs = @ + 1]
         IN  /\ o \in Objects /\ o.runs = r.runs + 1 /\ o.bound = b
             /\ o.state = r.state /\ o.del = r.del /\ o.byRef = r.byRef
             /\ o.made = r.made /\ o.set = r.set /\ o.thrown = r.thrown
<1>. DEFINE o == [r EXCEPT !.bound = b, !.runs = @ + 1]
<1>1. o.runs = r.runs + 1 /\ o.bound = b
  BY DEF Objects
<1>2. o.state = r.state /\ o.del = r.del /\ o.byRef = r.byRef
  BY DEF Objects
<1>3. o.made = r.made /\ o.set = r.set /\ o.thrown = r.thrown
  BY DEF Objects
<1>4. o \in Objects
  <2>. DEFINE f == [r EXCEPT !.bound = b]
  <2>1. f \in Objects
    BY DEF Objects
  <2>4. r.runs + 1 \in Nat
    BY DEF Objects
  <2>2. o = [f EXCEPT !.runs = r.runs + 1]
    BY DEF Objects
  <2>. HIDE DEF f
  <2>3. [f EXCEPT !.runs = r.runs + 1] \in Objects
    BY <2>1, <2>4 DEF Objects
  <2>. QED  BY <2>2, <2>3
<1>. HIDE DEF o
<1>. QED  BY <1>1, <1>2, <1>3, <1>4 DEF o

(* What a run leaves in the object. *)
LEMMA ChangedKeeps ==
  ASSUME Types, NEW c \in Callbacks, Live(c) => BoundOK(callback[c])
  PROVE  /\ Changed(c) \in Objects
         /\ \A f \in {"state", "del", "byRef", "made", "set", "thrown"} :
              Changed(c)[f] = callback[c][f]
         /\ Changed(c).runs = callback[c].runs + 1
         /\ Live(c) => BoundOK(Changed(c))
<1>1. callback[c] \in Objects
  BY DEF Types
<1>2. CASE ~(callback[c].byRef /\ Live(c))
  <2>1. Changed(c) = [callback[c] EXCEPT !.runs = @ + 1]
    BY <1>2 DEF Changed
  <2>. DEFINE o == Changed(c)
  <2>2. /\ o \in Objects /\ o.runs = callback[c].runs + 1 /\ o.bound = callback[c].bound
        /\ o.state = callback[c].state /\ o.del = callback[c].del
        /\ o.byRef = callback[c].byRef /\ o.made = callback[c].made
        /\ o.set = callback[c].set /\ o.thrown = callback[c].thrown
    BY <1>1, <2>1 DEF Objects
  <2>3. Live(c) => BoundOK(Changed(c))
    BY <1>2, <2>2 DEF BoundOK
  <2>. HIDE DEF o
  <2>. QED  BY <2>2, <2>3 DEF o
<1>3. CASE callback[c].byRef /\ Live(c)
  <2>1. BoundOK(callback[c]) /\ Prebound \in 1..3
    BY <1>3 DEF BoundOK, Types, Groups, Prebound
  <2>. DEFINE old == callback[c].bound
              new == [old EXCEPT ![1].changes = @ + 1]
              o == Changed(c)
  <2>2. o = [callback[c] EXCEPT !.bound = new, !.runs = @ + 1]
    BY <1>1, <1>3 DEF Changed, Objects
  <2>3. old \in Seq(Arguments) /\ Len(old) = Prebound /\ old[1] \in Arguments
    BY <1>1, <2>1 DEF Objects, BoundOK
  <2>. HIDE DEF old
  <2>4. [old[1] EXCEPT !.changes = @ + 1] \in Arguments
    BY <2>3, OneChange
  <2>5. /\ new \in Seq(Arguments) /\ Len(new) = Prebound
        /\ new[1] = [old[1] EXCEPT !.changes = @ + 1]
        /\ \A i \in 1..Prebound : i # 1 => new[i] = old[i]
    BY <2>1, <2>3, <2>4
  <2>6. new[1] = Argument("p", 1, callback[c].made, callback[c].runs + 1)
    <3>1. old[1] = Argument("p", 1, callback[c].made, callback[c].runs)
      BY <1>3, <2>1 DEF BoundOK, old
    <3>. HIDE DEF new
    <3>. QED  BY <2>5, <3>1 DEF Argument
  <2>. HIDE DEF new
  <2>7. /\ o \in Objects /\ o.runs = callback[c].runs + 1 /\ o.bound = new
        /\ o.state = callback[c].state /\ o.del = callback[c].del
        /\ o.byRef = callback[c].byRef /\ o.made = callback[c].made
        /\ o.set = callback[c].set /\ o.thrown = callback[c].thrown
    <3>. HIDE DEF o
    <3>. QED  BY <1>1, <2>2, <2>5, NewBound
  <2>. HIDE DEF o
  <2>8. o.set /\ Len(o.bound) = Prebound /\ o.byRef /\ Prebound > 0
    BY <1>3, <2>1, <2>5, <2>7 DEF BoundOK
  <2>9. ASSUME NEW i \in 1..Prebound, i # 1
        PROVE  o.bound[i] = Argument("p", i, o.made, 0)
    <3>1. old[i] = Argument("p", i, callback[c].made, 0)
      BY <2>1, <2>9 DEF BoundOK, old
    <3>2. new[i] = old[i]
      BY <2>5, <2>9
    <3>. QED  BY <2>7, <3>1, <3>2
  <2>10. BoundOK(o)
    BY <2>6, <2>7, <2>8, <2>9 DEF BoundOK
  <2>. QED  BY <2>7, <2>10 DEF o
<1>. QED  BY <1>2, <1>3

(* A frame is popped. *)
LEMMA Popped ==
  ASSUME Types, stack # <<>>, stack' = Tail(stack)
  PROVE  /\ Head(stack) = stack[1] /\ Head(stack) \in Frames /\ Head(stack).id \in Callbacks
         /\ 1 \in 1..Len(stack)
         /\ stack' \in Seq(Frames) /\ Len(stack') = Len(stack) - 1 /\ Len(stack) \in Nat
         /\ \A k \in 1..Len(stack') :
              k + 1 \in 1..Len(stack) /\ k + 1 # 1 /\ stack'[k] = stack[k + 1]
<1>1. stack \in Seq(Frames)
  BY DEF Types
<1>2. /\ Head(stack) = stack[1] /\ 1 \in 1..Len(stack) /\ Len(stack) \in Nat
      /\ stack' \in Seq(Frames) /\ Len(stack') = Len(stack) - 1
  BY <1>1
<1>3. \A k \in 1..Len(stack') : k + 1 \in 1..Len(stack) /\ stack'[k] = stack[k + 1]
  BY <1>1, <1>2
<1>4. \A k \in 1..Len(stack') : k + 1 # 1
  BY <1>2
<1>. QED  BY <1>2, <1>3, <1>4, OnStack

(* The end of a run: the object becomes o, which keeps what frames on the  *)
(* stack refer to, and what it may be run with if it lives on.             *)
LEMMA EndInv ==
  ASSUME IndInv, stack # <<>>, stack' = Tail(stack), UNCHANGED <<group, assigned>>,
         touched' \in BOOLEAN, ~touched',
         NEW c \in Callbacks, c = Head(stack).id,
         NEW o \in Objects, callback' = [callback EXCEPT ![c] = o],
         o.del = callback[c].del, o.byRef = callback[c].byRef, o.made = callback[c].made,
         o.state = "live" => callback[c].state = "live" /\ BoundOK(o),
         o.state # "none",
         ~o.del => o.state = callback[c].state,
         o.del => o.state = "deleted" \/ o.thrown
  PROVE  IndInv'
<1>1. callback \in [Callbacks -> Objects] /\ Types
  BY DEF IndInv, Types
<1>2. Types' /\ ~touched'
  <2>1. stack' \in Seq(Frames)
    BY <1>1, Popped
  <2>2. callback' \in [Callbacks -> Objects]
    BY <1>1
  <2>. QED  BY <1>1, <2>1, <2>2 DEF Types
<1>3. BoundInv'
  BY <1>1 DEF IndInv, BoundInv, BoundOK, Live, Prebound
<1>4. OnceInv'
  BY <1>1 DEF IndInv, OnceInv
<1>5. \A k \in 1..Len(stack') :
        /\ stack'[k].id \in Callbacks
        /\ callback[c].del => stack'[k].id # c
  <2>1. \A k \in 1..Len(stack') : stack'[k].id \in Callbacks
    BY <1>1, Popped, OnStack
  <2>2. callback[c].del => \A j \in 1..Len(stack) : stack[j].id = c => j = 1
    BY <1>1, Popped DEF IndInv, StackInv
  <2>. QED  BY <1>1, <2>1, <2>2, Popped
<1>6. StackInv'
  <2> SUFFICES ASSUME NEW k \in 1..Len(stack')
               PROVE  /\ callback'[stack'[k].id].state # "none"
                      /\ callback'[stack'[k].id].del =>
                           /\ callback'[stack'[k].id].state = "live"
                           /\ \A j \in 1..Len(stack') : stack'[j].id = stack'[k].id => j = k
    BY DEF StackInv, Live
  <2>1. CASE stack'[k].id = c
    BY <1>1, <1>5, <2>1
  <2>2. CASE stack'[k].id # c
    <3>1. callback'[stack'[k].id] = callback[stack'[k].id]
      BY <1>1, <1>5, <2>2
    <3>2. k + 1 \in 1..Len(stack) /\ stack'[k] = stack[k + 1]
      BY <1>1, Popped
    <3>3. /\ callback[stack[k + 1].id].state # "none"
          /\ callback[stack[k + 1].id].del =>
               /\ callback[stack[k + 1].id].state = "live"
               /\ \A j \in 1..Len(stack) : stack[j].id = stack[k + 1].id => j = k + 1
      BY <3>2 DEF IndInv, StackInv, Live
    <3>4. ASSUME callback[stack[k + 1].id].del,
                 NEW j \in 1..Len(stack'), stack'[j].id = stack'[k].id
          PROVE  j = k
      <4>1. j + 1 \in 1..Len(stack) /\ stack'[j] = stack[j + 1]
        BY <1>1, Popped
      <4>2. j + 1 = k + 1
        BY <3>2, <3>3, <3>4, <4>1
      <4>3. j \in Int /\ k \in Int
        OBVIOUS
      <4>. QED  BY <4>2, <4>3
    <3>. QED  BY <3>1, <3>2, <3>3, <3>4
  <2>. QED  BY <2>1, <2>2
<1>7. \A k \in 1..Len(stack') : FrameOK(stack'[k], callback'[stack'[k].id])
  <2> SUFFICES ASSUME NEW k \in 1..Len(stack')
               PROVE  FrameOK(stack'[k], callback'[stack'[k].id])
    OBVIOUS
  <2>1. FrameOK(stack'[k], callback[stack'[k].id])
    BY <1>1, Popped, ArgumentsAreFrames DEF IndInv
  <2>2. /\ callback'[stack'[k].id].made = callback[stack'[k].id].made
        /\ callback'[stack'[k].id].byRef = callback[stack'[k].id].byRef
    BY <1>1, <1>5
  <2>. QED  BY <2>1, <2>2 DEF FrameOK
<1>8. ArgumentsInOrder'
  BY <1>7 DEF ArgumentsInOrder, FrameOK, Prebound, Calltime
<1>. QED  BY <1>2, <1>3, <1>4, <1>6, <1>8 DEF IndInv

LEMMA ReturnInv == ASSUME IndInv, Return PROVE IndInv'
<1>. DEFINE c == Head(stack).id
<1>1. Types /\ stack # <<>> /\ stack' = Tail(stack) /\ UNCHANGED <<group, assigned>>
  BY DEF IndInv, Return
<1>2. c \in Callbacks /\ c = stack[1].id /\ 1 \in 1..Len(stack)
  BY <1>1, Popped
<1>3. Finish(c)
  BY DEF Return
<1>4. callback[c].state # "none" /\ (callback[c].del => Live(c))
  BY <1>2 DEF IndInv, StackInv
<1>. HIDE DEF c
<1>5. Live(c) => BoundOK(callback[c])
  BY <1>2 DEF IndInv, BoundInv
<1>6. /\ Changed(c) \in Objects
      /\ Changed(c).state = callback[c].state /\ Changed(c).del = callback[c].del
      /\ Changed(c).byRef = callback[c].byRef /\ Changed(c).made = callback[c].made
      /\ Live(c) => BoundOK(Changed(c))
  BY <1>1, <1>2, <1>5, ChangedKeeps
<1>7. CASE callback[c].del
  <2>. DEFINE o == [Changed(c) EXCEPT !.set = FALSE, !.state = "deleted"]
  <2>1. callback' = [callback EXCEPT ![c] = o] /\ ~touched' /\ touched' \in BOOLEAN
    BY <1>3, <1>4, <1>7 DEF Finish, IndInv, Types
  <2>2. /\ o \in Objects /\ o.state = "deleted" /\ o.del = callback[c].del
        /\ o.byRef = callback[c].byRef /\ o.made = callback[c].made
    BY <1>6 DEF Objects
  <2>. HIDE DEF o
  <2>. QED  BY <1>1, <1>2, <1>7, <2>1, <2>2, EndInv DEF c
<1>8. CASE ~callback[c].del
  <2>1. callback' = [callback EXCEPT ![c] = Changed(c)] /\ ~touched' /\ touched' \in BOOLEAN
    BY <1>3, <1>8 DEF Finish, IndInv, Types
  <2>. QED  BY <1>1, <1>2, <1>4, <1>6, <1>8, <2>1, EndInv DEF c, Live
<1>. QED  BY <1>7, <1>8

LEMMA ThrowInv == ASSUME IndInv, Throw PROVE IndInv'
<1>. DEFINE c == Head(stack).id
            o == [Changed(c) EXCEPT !.thrown = TRUE]
<1>1. Types /\ stack # <<>> /\ stack' = Tail(stack) /\ UNCHANGED <<group, assigned>>
      /\ ~touched'
  BY DEF IndInv, Throw
<1>9. touched' \in BOOLEAN
  BY DEF IndInv, Types, Throw
<1>2. c \in Callbacks /\ c = stack[1].id /\ 1 \in 1..Len(stack)
  BY <1>1, Popped
<1>3. callback' = [callback EXCEPT ![c] = o]
  BY DEF Throw
<1>4. callback[c].state # "none"
  BY <1>2 DEF IndInv, StackInv
<1>. HIDE DEF c
<1>5. Live(c) => BoundOK(callback[c])
  BY <1>2 DEF IndInv, BoundInv
<1>6. /\ Changed(c) \in Objects
      /\ Changed(c).state = callback[c].state /\ Changed(c).del = callback[c].del
      /\ Changed(c).byRef = callback[c].byRef /\ Changed(c).made = callback[c].made
      /\ Live(c) => BoundOK(Changed(c))
  BY <1>1, <1>2, <1>5, ChangedKeeps
<1>7. /\ o \in Objects /\ o.thrown /\ o.state = callback[c].state
      /\ o.del = callback[c].del /\ o.byRef = callback[c].byRef
      /\ o.made = callback[c].made /\ o.set = Changed(c).set
      /\ o.bound = Changed(c).bound /\ o.runs = Changed(c).runs
  BY <1>6 DEF Objects
<1>8. Live(c) => BoundOK(o)
  BY <1>6, <1>7 DEF BoundOK
<1>. HIDE DEF o
<1>. QED  BY <1>1, <1>2, <1>3, <1>4, <1>7, <1>8, <1>9, EndInv DEF c, Live

LEMMA NextInv == IndInv /\ [Next]_vars => IndInv'
<1> SUFFICES ASSUME IndInv, [Next]_vars PROVE IndInv'
  OBVIOUS
<1>1. CASE Assign
  BY <1>1, AssignInv
<1>2. CASE Return
  BY <1>2, ReturnInv
<1>3. CASE Throw
  BY <1>3, ThrowInv
<1>4. ASSUME NEW c \in Callbacks, Run(c) PROVE IndInv'
  BY <1>4, RunInv
<1>5. ASSUME NEW c \in Callbacks, Delete(c) PROVE IndInv'
  BY <1>5, DeleteInv
<1>6. ASSUME NEW c \in Callbacks, NEW byRef \in BOOLEAN,
             MakeCallback(c, byRef) \/ MakePermanentCallback(c, byRef)
      PROVE  IndInv'
  BY <1>6, MakeInv DEF MakeCallback, MakePermanentCallback
<1>7. CASE UNCHANGED vars
  BY <1>7 DEF IndInv, Types, BoundInv, BoundOK, StackInv, OnceInv, ArgumentsInOrder,
              Live, Prebound, Calltime, vars
<1>. QED  BY <1>1, <1>2, <1>3, <1>4, <1>5, <1>6, <1>7 DEF Next

(* The invariant holds of every state the callbacks come to. *)
THEOREM Invariance == Spec => []IndInv
<1>. QED  BY InitInv, NextInv, PTL DEF Spec

-----------------------------------------------------------------------------
(* run() touches no deleted callback, however runs and deletions are nested.*)
THEOREM NoUseAfterDeleteCorrect == Spec => []NoUseAfterDelete
<1>1. IndInv => NoUseAfterDelete
  BY DEF IndInv, NoUseAfterDelete
<1>. QED  BY <1>1, Invariance, PTL

(* Each of the 16 groups hands its function the pre-bound and then the     *)
(* call-time arguments, in order and as they were.                         *)
THEOREM ArgumentsCorrect == Spec => []ArgumentsInOrder
<1>1. IndInv => ArgumentsInOrder
  BY DEF IndInv
<1>. QED  BY <1>1, Invariance, PTL

(* A one-time callback that was run is deleted, unless its function threw. *)
THEOREM SelfDeletingCorrect == Spec => []SelfDeleting
<1>1. IndInv => SelfDeleting
  BY DEF IndInv, OnceInv, SelfDeleting
<1>. QED  BY <1>1, Invariance, PTL
=============================================================================
