---------------------------- MODULE SharedObject ----------------------------
(***************************************************************************)
(* What base::RefCount promises to the holders of references, with no      *)
(* counter, no threads and no memory order: an object lives exactly as     *)
(* long as somebody owns it, and is destroyed once.                        *)
(***************************************************************************)
CONSTANT Refs           \* the references that may own the object

VARIABLES
  owners,               \* the references that own the object now
  alive                 \* FALSE once the object has been destroyed

vars == <<owners, alive>>

Init ==
  /\ alive = TRUE
  /\ \E r \in Refs : owners = {r}

(* Only an existing owner can give birth to another one. *)
Acquire(r) ==
  /\ owners # {}
  /\ owners' = owners \cup {r}
  /\ UNCHANGED alive

Drop(r) ==
  /\ r \in owners
  /\ owners' = owners \ {r}
  /\ UNCHANGED alive

Destroy ==
  /\ owners = {}
  /\ alive
  /\ alive' = FALSE
  /\ UNCHANGED owners

Next ==
  \/ \E r \in Refs : Acquire(r) \/ Drop(r)
  \/ Destroy

Spec == Init /\ [][Next]_vars

(* Destruction, once due, is not optional. *)
FairSpec == Spec /\ WF_vars(Destroy)
=============================================================================
