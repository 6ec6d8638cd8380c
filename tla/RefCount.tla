------------------------------ MODULE RefCount ------------------------------
(***************************************************************************)
(* base::RefCount (src/kwctoolkit/base/ref_count.h, ref_count.cc): the     *)
(* intrusive reference count of ONE object, used by several threads.       *)
(*                                                                         *)
(* refcount_ is a 64-bit atomic that moves in steps of two; its lowest bit *)
(* is a payload fixed by the constructor.  reference() and release() each  *)
(* assert that the count is not zero and then perform one atomic           *)
(* read-modify-write; the thread whose release() saw the last reference    *)
(* issues an acquire fence and deletes the object.                         *)
(*                                                                         *)
(* A member of Refs is one counted reference: a Ref<T> or a raw pointer    *)
(* that owns a count (new, Ref::detach).  The rule that callers follow, as *)
(* in ref_count_test.cc, is that the reference a call is made through      *)
(* outlives the call: `pin' names it.                                      *)
(*                                                                         *)
(* The memory order is modelled too.  A thread w is in unordered[t] when   *)
(* some access of w to the object does not happen-before what t does next, *)
(* and in unpublished when some access of w is not covered by the release  *)
(* sequence headed by the fetch_subs of refcount_.                         *)
(***************************************************************************)
EXTENDS Integers, FiniteSets

CONSTANTS
  Threads,
  Refs,
  NoThread,             \* holder of a reference that does not exist
  NoRef,                \* value of arg and pin outside a call
  Wrap                  \* 2^64 in the code: refcount_ is a uint64

ASSUME NoThreadAssumption == NoThread \notin Threads
ASSUME RefsAssumption == IsFiniteSet(Refs) /\ NoRef \notin Refs
ASSUME WrapAssumption == Wrap \in Nat /\ 2 * Cardinality(Refs) + 1 < Wrap

VARIABLES
  refcount,             \* RefCount::refcount_
  payload,              \* the constructor's argument
  alive,                \* FALSE after `delete this'
  held,                 \* held[r]: the thread that owns reference r
  pc,                   \* pc[t]: where thread t is in reference()/release()
  arg,                  \* arg[t]: the reference being created or given up
  pin,                  \* pin[t]: the reference reference() is called through
  prev,                 \* prev[t]: release()'s local prev_ref_count
  unordered,            \* unordered[t]: threads with accesses not yet before t
  unpublished,          \* threads with accesses not in the release sequence
  acquired              \* acquired[t]: unpublished, as t's last fetch_sub read it

counter == <<refcount, payload, alive>>
order == <<unordered, unpublished, acquired>>
call == <<pc, arg, pin, prev>>
vars == <<counter, held, call, order>>

-----------------------------------------------------------------------------
kPayloadMask == 1
kRefCountIncrement == 2

(* Faulty variants, for the mutation runs: a step of one; the payload       *)
(* forgotten in the bound; the bound off by one.                           *)
FetchAddByOne(n) == (n + 1) % Wrap
WasLastNoPayload(before) == before <= kRefCountIncrement
WasLastOffByOne(before) == before <= 2 * kRefCountIncrement

FetchAddValue(n) == (n + kRefCountIncrement) % Wrap
FetchSubValue(n) == (n - kRefCountIncrement) % Wrap
PayloadOf(n) == n % (kPayloadMask + 1)
CountOf(n) == n \div kRefCountIncrement

(* release()'s test on the value its fetch_sub returned. *)
WasLast(before) == before < 2 * kRefCountIncrement

Existing == {r \in Refs : held[r] # NoThread}
Pinned(r) == \E t \in Threads : pc[t] = "fetch_add" /\ pin[t] = r
Reserved(r) == \E t \in Threads : pc[t] = "fetch_add" /\ arg[t] = r

-----------------------------------------------------------------------------
(* The constructor: one reference, the payload in the lowest bit, and the  *)
(* construction itself as the creator's first access.                      *)
Init ==
  \E creator \in Threads, first \in Refs :
    /\ payload \in 0..kPayloadMask
    /\ refcount = kRefCountIncrement + payload
    /\ alive = TRUE
    /\ held = [r \in Refs |-> IF r = first THEN creator ELSE NoThread]
    /\ pc = [t \in Threads |-> "idle"]
    /\ arg = [t \in Threads |-> NoRef]
    /\ pin = [t \in Threads |-> NoRef]
    /\ prev = [t \in Threads |-> 0]
    /\ unordered = [t \in Threads |-> {creator} \ {t}]
    /\ unpublished = {creator}
    /\ acquired = [t \in Threads |-> {}]

(* reference() is entered through the existing reference `via'. *)
BeginReference(t, r, via) ==
  /\ pc[t] = "idle"
  /\ held[via] # NoThread
  /\ ~ \E u \in Threads : pc[u] = "fetch_sub" /\ arg[u] = via
  /\ held[r] = NoThread
  /\ ~ Reserved(r)
  /\ pc' = [pc EXCEPT ![t] = "fetch_add"]
  /\ arg' = [arg EXCEPT ![t] = r]
  /\ pin' = [pin EXCEPT ![t] = via]
  /\ UNCHANGED <<counter, held, prev, order>>

(* The relaxed fetch_add: no ordering, but it continues the release        *)
(* sequence, so unpublished stays.                                         *)
FetchAdd(t) ==
  /\ pc[t] = "fetch_add"
  /\ refcount' = FetchAddValue(refcount)
  /\ held' = [held EXCEPT ![arg[t]] = t]
  /\ pc' = [pc EXCEPT ![t] = "idle"]
  /\ arg' = [arg EXCEPT ![t] = NoRef]
  /\ pin' = [pin EXCEPT ![t] = NoRef]
  /\ UNCHANGED <<payload, alive, prev, order>>

BeginRelease(t, r) ==
  /\ pc[t] = "idle"
  /\ held[r] = t
  /\ ~ Pinned(r)
  /\ pc' = [pc EXCEPT ![t] = "fetch_sub"]
  /\ arg' = [arg EXCEPT ![t] = r]
  /\ UNCHANGED <<counter, held, pin, prev, order>>

(* Faulty variant: a relaxed fetch_sub publishes nothing. *)
PublishRelaxed(t) == unpublished

(* What the releasing fetch_sub of t leaves uncovered: nothing that t has  *)
(* itself seen.                                                            *)
Publish(t) == unpublished \cap unordered[t]

FetchSub(t) ==
  /\ pc[t] = "fetch_sub"
  /\ prev' = [prev EXCEPT ![t] = refcount]
  /\ refcount' = FetchSubValue(refcount)
  /\ held' = [held EXCEPT ![arg[t]] = NoThread]
  /\ unpublished' = Publish(t)
  /\ acquired' = [acquired EXCEPT ![t] = unpublished]
  /\ pc' = [pc EXCEPT ![t] = "test"]
  /\ arg' = [arg EXCEPT ![t] = NoRef]
  /\ UNCHANGED <<payload, alive, pin, unordered>>

(* Faulty variant: the count is loaded again instead of using the value    *)
(* that fetch_sub returned.                                                *)
TestLastReload(t) ==
  /\ pc[t] = "test"
  /\ prev' = [prev EXCEPT ![t] = 0]
  /\ pc' = [pc EXCEPT ![t] =
              IF refcount < kRefCountIncrement THEN "fence" ELSE "idle"]
  /\ UNCHANGED <<counter, held, arg, pin, order>>

TestLast(t) ==
  /\ pc[t] = "test"
  /\ prev' = [prev EXCEPT ![t] = 0]
  /\ \/ /\ WasLast(prev[t])
        /\ pc' = [pc EXCEPT ![t] = "fence"]
        /\ UNCHANGED acquired
     \/ /\ ~ WasLast(prev[t])
        /\ pc' = [pc EXCEPT ![t] = "idle"]
        /\ acquired' = [acquired EXCEPT ![t] = {}]
  /\ UNCHANGED <<counter, held, arg, pin, unordered, unpublished>>

(* The acquire fence synchronises with every release() whose value the     *)
(* preceding fetch_sub read, directly or through the release sequence.     *)
Fence(t) ==
  /\ pc[t] = "fence"
  /\ unordered' = [unordered EXCEPT ![t] = @ \cap acquired[t]]
  /\ acquired' = [acquired EXCEPT ![t] = {}]
  /\ pc' = [pc EXCEPT ![t] = "delete"]
  /\ UNCHANGED <<counter, held, arg, pin, prev, unpublished>>

Delete(t) ==
  /\ pc[t] = "delete"
  /\ alive' = FALSE
  /\ pc' = [pc EXCEPT ![t] = "idle"]
  /\ UNCHANGED <<refcount, payload, held, arg, pin, prev, order>>

-----------------------------------------------------------------------------
(* The owners of references. *)

(* t reads or writes the object through a reference of its own. *)
Use(t) ==
  /\ pc[t] = "idle"
  /\ \E r \in Refs : held[r] = t
  /\ unordered' = [w \in Threads |->
                     IF w = t THEN unordered[w] ELSE unordered[w] \cup {t}]
  /\ unpublished' = unpublished \cup {t}
  /\ UNCHANGED <<counter, held, call, acquired>>

(* A Ref is moved to another thread, which the two synchronise for         *)
(* themselves: the count does not change.                                  *)
Handoff(t, u, r) ==
  /\ t # u
  /\ pc[t] = "idle" /\ pc[u] = "idle"
  /\ held[r] = t
  /\ ~ Pinned(r)
  /\ held' = [held EXCEPT ![r] = u]
  /\ unordered' = [unordered EXCEPT ![u] = @ \cap unordered[t]]
  /\ UNCHANGED <<counter, call, unpublished, acquired>>

Step(t) == FetchAdd(t) \/ FetchSub(t) \/ TestLast(t) \/ Fence(t) \/ Delete(t)

Next ==
  \E t \in Threads :
    \/ \E r, via \in Refs : BeginReference(t, r, via)
    \/ \E r \in Refs : BeginRelease(t, r)
    \/ Step(t)
    \/ Use(t)
    \/ \E u \in Threads, r \in Refs : Handoff(t, u, r)

Spec == Init /\ [][Next]_vars

-----------------------------------------------------------------------------
Labels == {"idle", "fetch_add", "fetch_sub", "test", "fence", "delete"}

(* The types of all variables; refcount_ stays within its 64 bits. *)
TypeOK ==
  /\ refcount \in 0..(Wrap - 1)
  /\ payload \in 0..kPayloadMask
  /\ alive \in BOOLEAN
  /\ held \in [Refs -> Threads \cup {NoThread}]
  /\ pc \in [Threads -> Labels]
  /\ arg \in [Threads -> Refs \cup {NoRef}]
  /\ pin \in [Threads -> Refs \cup {NoRef}]
  /\ prev \in [Threads -> 0..(Wrap - 1)]
  /\ unordered \in [Threads -> SUBSET Threads]
  /\ unpublished \in SUBSET Threads
  /\ acquired \in [Threads -> SUBSET Threads]

(* The atomic never loses or invents a reference, whatever the             *)
(* interleaving: getRefCountForTesting() is the number of references that  *)
(* exist and getRefCountPayload() is the constructor's argument.           *)
CountIsReferences ==
  /\ CountOf(refcount) = Cardinality(Existing)
  /\ PayloadOf(refcount) = payload

(* No thread reads or writes refcount_, or deletes, after `delete this':   *)
(* the object is gone only when nobody is on the way into it, and two      *)
(* releases never both take themselves for the last.                       *)
NoUseAfterDelete ==
  /\ \A t \in Threads : pc[t] \in {"fetch_add", "fetch_sub", "delete"} => alive
  /\ Existing # {} => alive

(* KWC_ASSERT((refcount_ & ~kPayloadMask) != 0) cannot fail in reference() *)
(* or release(), at whatever moment before the fetch it is evaluated.      *)
AssertionsHold ==
  \A t \in Threads : pc[t] \in {"fetch_add", "fetch_sub"} => CountOf(refcount) # 0

(* The release order of fetch_sub and the acquire fence together put every *)
(* access any thread ever made to the object before its destruction.       *)
DeleteIsOrdered == \A t \in Threads : pc[t] = "delete" => unordered[t] = {}

(* "The payload bits of the refcount never change after initialization":   *)
(* no fetch disturbs the lowest bit, not even the last one.                *)
PayloadNeverChanges == [][PayloadOf(refcount') = PayloadOf(refcount)]_vars

(* The object does not leak: no thread is done with its calls while the    *)
(* object has lost its last reference and has not been deleted.            *)
Reclaimed ==
  (\A t \in Threads : pc[t] = "idle") /\ Existing = {} => ~ alive

(* The counter implements ownership by a set of references. *)
Abstract == INSTANCE SharedObject WITH owners <- Existing
ImplementsSharedObject == Abstract!Spec
=============================================================================
