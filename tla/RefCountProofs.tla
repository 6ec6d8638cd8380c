--------------------------- MODULE RefCountProofs ---------------------------
(***************************************************************************)
(* Theorems about RefCount for any number of threads and references.       *)
(*                                                                         *)
(* The inductive invariant has one part per concern: the value of the      *)
(* counter (CountInv), the arguments of calls in progress (CallInv), who   *)
(* may be about to delete (LifeInv) and what the memory order has so far   *)
(* established (OrderInv).                                                 *)
(***************************************************************************)
EXTENDS RefCount, FiniteSetTheorems, TLAPS

(* refcount_ is twice the number of references plus the payload. *)
CountInv == refcount = 2 * Cardinality(Existing) + payload

(* A reference being created does not exist yet and is created by one      *)
(* thread only; the one it is created through exists; a reference being    *)
(* given up still belongs to the thread that gives it up, unpinned.        *)
CallInv ==
  /\ \A t \in Threads : pc[t] = "fetch_add" =>
       /\ arg[t] \in Refs /\ held[arg[t]] = NoThread
       /\ pin[t] \in Refs /\ held[pin[t]] # NoThread
  /\ \A t, u \in Threads :
       pc[t] = "fetch_add" /\ pc[u] = "fetch_add" /\ arg[t] = arg[u] => t = u
  /\ \A t \in Threads : pc[t] = "fetch_sub" =>
       /\ arg[t] \in Refs /\ held[arg[t]] = t
       /\ ~ Pinned(arg[t])

(* t has given up the last reference and has not deleted the object yet. *)
Doomed(t) ==
  \/ pc[t] \in {"fence", "delete"}
  \/ pc[t] = "test" /\ WasLast(prev[t])

LifeInv ==
  /\ Existing # {} => alive
  /\ \A t \in Threads : Doomed(t) => alive /\ Existing = {}
  /\ \A t, u \in Threads : Doomed(t) /\ Doomed(u) => t = u

(* As long as a reference exists, some owner has seen each unpublished     *)
(* access; the thread about to delete lacks nothing its fence does not     *)
(* bring, and after the fence nothing at all.                              *)
OrderInv ==
  /\ \A t \in Threads : t \notin unordered[t]
  /\ Existing # {} =>
       \A w \in unpublished : \E r \in Existing : w \notin unordered[held[r]]
  /\ \A t \in Threads : Doomed(t) /\ pc[t] # "delete" =>
       unordered[t] \cap acquired[t] = {}
  /\ \A t \in Threads : pc[t] = "delete" => unordered[t] = {}

IndInv == TypeOK /\ CountInv /\ CallInv /\ LifeInv /\ OrderInv

-----------------------------------------------------------------------------
(* A small number is its own remainder: refcount_ does not wrap. *)
LEMMA SmallRemainder ==
  ASSUME NEW m \in Nat \ {0}, NEW n \in 0..(m - 1)
  PROVE  n % m = n
  OBVIOUS

(* The two fields of refcount_. *)
LEMMA Fields ==
  ASSUME NEW c \in Nat, NEW p \in 0..1
  PROVE  /\ CountOf(2 * c + p) = c
         /\ PayloadOf(2 * c + p) = p
  BY DEF CountOf, PayloadOf, kRefCountIncrement, kPayloadMask

(* The references that exist are finitely many, and counting them leaves   *)
(* room in refcount_.                                                      *)
LEMMA ExistingFinite ==
  /\ IsFiniteSet(Existing)
  /\ Cardinality(Existing) \in Nat
  /\ Cardinality(Existing) <= Cardinality(Refs)
  /\ Cardinality(Refs) \in Nat
  <1>1. Existing \in SUBSET Refs
    BY DEF Existing
  <1>. QED
    BY <1>1, RefsAssumption, FS_Subset, FS_CardinalityType

(* One reference more. *)
LEMMA AddOne ==
  ASSUME TypeOK, CountInv, NEW r \in Refs, held[r] = NoThread
  PROVE  /\ Cardinality(Existing \cup {r}) = Cardinality(Existing) + 1
         /\ FetchAddValue(refcount) = refcount + 2
         /\ refcount + 2 \in 0..(Wrap - 1)
  <1>1. Cardinality(Existing \cup {r}) = Cardinality(Existing) + 1
    BY ExistingFinite, FS_AddElement DEF Existing
  <1>2. Existing \cup {r} \in SUBSET Refs
    BY DEF Existing
  <1>3. Cardinality(Existing) + 1 <= Cardinality(Refs)
    BY <1>1, <1>2, RefsAssumption, FS_Subset
  <1>4. refcount + 2 \in 0..(Wrap - 1)
    BY <1>3, ExistingFinite, WrapAssumption
       DEF TypeOK, CountInv, kPayloadMask
  <1>5. FetchAddValue(refcount) = refcount + 2
    BY <1>4, WrapAssumption, SmallRemainder
       DEF FetchAddValue, kRefCountIncrement
  <1>. QED
    BY <1>1, <1>4, <1>5

(* One reference less; release() takes itself for the last exactly when    *)
(* no other reference exists.                                              *)
LEMMA RemoveOne ==
  ASSUME TypeOK, CountInv, NEW r \in Refs, held[r] # NoThread
  PROVE  /\ Cardinality(Existing \ {r}) = Cardinality(Existing) - 1
         /\ Cardinality(Existing) >= 1
         /\ FetchSubValue(refcount) = refcount - 2
         /\ refcount - 2 \in 0..(Wrap - 1)
         /\ WasLast(refcount) <=> Existing = {r}
  <1>1. /\ Cardinality(Existing \ {r}) = Cardinality(Existing) - 1
        /\ IsFiniteSet(Existing \ {r})
    BY ExistingFinite, FS_RemoveElement DEF Existing
  <1>2. Cardinality(Existing \ {r}) \in Nat
    BY <1>1, FS_CardinalityType
  <1>3. Cardinality(Existing) >= 1
    BY <1>1, <1>2, ExistingFinite
  <1>4. refcount - 2 \in 0..(Wrap - 1)
    BY <1>3, ExistingFinite, WrapAssumption
       DEF TypeOK, CountInv, kPayloadMask
  <1>5. FetchSubValue(refcount) = refcount - 2
    BY <1>4, WrapAssumption, SmallRemainder
       DEF FetchSubValue, kRefCountIncrement
  <1>6. WasLast(refcount) <=> Cardinality(Existing) = 1
    BY <1>3, ExistingFinite
       DEF WasLast, kRefCountIncrement, TypeOK, CountInv, kPayloadMask
  <1>7. Cardinality(Existing) = 1 <=> Existing \ {r} = {}
    BY <1>1, <1>2, ExistingFinite, FS_EmptySet
  <1>8. Existing \ {r} = {} <=> Existing = {r}
    BY DEF Existing
  <1>. QED
    BY <1>1, <1>3, <1>4, <1>5, <1>6, <1>7, <1>8

-----------------------------------------------------------------------------
(* The constructor establishes the invariant. *)
LEMMA InitInv == Init => IndInv
  <1> SUFFICES ASSUME NEW creator \in Threads, NEW first \in Refs,
                      payload \in 0..kPayloadMask,
                      refcount = kRefCountIncrement + payload,
                      alive = TRUE,
                      held = [r \in Refs |->
                                IF r = first THEN creator ELSE NoThread],
                      pc = [t \in Threads |-> "idle"],
                      arg = [t \in Threads |-> NoRef],
                      pin = [t \in Threads |-> NoRef],
                      prev = [t \in Threads |-> 0],
                      unordered = [t \in Threads |-> {creator} \ {t}],
                      unpublished = {creator},
                      acquired = [t \in Threads |-> {}]
               PROVE  IndInv
    BY DEF Init
  <1>1. Existing = {first}
    BY NoThreadAssumption DEF Existing
  <1>2. Cardinality(Existing) = 1
    BY <1>1, FS_Singleton
  <1>3. Cardinality(Refs) \in Nat /\ Cardinality(Refs) >= 1
    BY <1>2, ExistingFinite
  <1>4. TypeOK
    BY <1>3, WrapAssumption DEF TypeOK, kPayloadMask, kRefCountIncrement, Labels
  <1>5. CountInv
    BY <1>2 DEF CountInv, kRefCountIncrement, kPayloadMask
  <1>6. CallInv
    BY DEF CallInv
  <1>7. LifeInv
    BY DEF LifeInv, Doomed
  <1>8. OrderInv
    <2>1. first \in Existing /\ held[first] = creator
      BY <1>1
    <2>. QED
      BY <2>1 DEF OrderInv, Doomed
  <1>. QED
    BY <1>4, <1>5, <1>6, <1>7, <1>8 DEF IndInv

(* Entering reference(): only the call's arguments change. *)
LEMMA BeginReferenceInv ==
  ASSUME IndInv, NEW t \in Threads, NEW r \in Refs, NEW via \in Refs,
         BeginReference(t, r, via)
  PROVE  IndInv'
  <1> USE DEF IndInv, BeginReference, counter, order
  <1>1. TypeOK'
    BY DEF TypeOK, Labels
  <1>2. Existing' = Existing
    BY DEF Existing
  <1>3. CountInv'
    BY <1>2 DEF CountInv
  <1>4. CallInv'
    BY DEF CallInv, Pinned, Reserved, TypeOK
  <1>5. \A u \in Threads : Doomed(u)' <=> Doomed(u)
    BY DEF Doomed, TypeOK
  <1>6. LifeInv'
    BY <1>2, <1>5 DEF LifeInv
  <1>7. OrderInv'
    <2>1. \A u \in Threads : (pc[u] = "delete")' <=> pc[u] = "delete"
      BY DEF TypeOK
    <2>. QED
      BY <1>2, <1>5, <2>1 DEF OrderInv
  <1>. QED
    BY <1>1, <1>3, <1>4, <1>6, <1>7

(* The fetch_add: the counter and the set of references grow together. *)
LEMMA FetchAddInv ==
  ASSUME IndInv, NEW t \in Threads, FetchAdd(t)
  PROVE  IndInv'
  <1> USE DEF IndInv, FetchAdd, order
  <1>1. /\ arg[t] \in Refs /\ held[arg[t]] = NoThread
        /\ pin[t] \in Existing
    BY DEF CallInv, Existing
  <1>2. Existing' = Existing \cup {arg[t]}
    BY <1>1, NoThreadAssumption DEF Existing, TypeOK
  <1>3. /\ refcount' = refcount + 2
        /\ refcount' \in 0..(Wrap - 1)
        /\ Cardinality(Existing') = Cardinality(Existing) + 1
    BY <1>1, <1>2, AddOne
  <1>4. TypeOK'
    BY <1>1, <1>3 DEF TypeOK, Labels
  <1>5. CountInv'
    BY <1>3, ExistingFinite DEF CountInv, TypeOK, kPayloadMask
  <1>6. CallInv'
    BY <1>1, NoThreadAssumption DEF CallInv, Pinned, TypeOK
  <1>7. \A u \in Threads : ~ Doomed(u)' /\ ~ Doomed(u)
    BY <1>1 DEF Doomed, LifeInv, TypeOK
  <1>8. LifeInv'
    BY <1>1, <1>7 DEF LifeInv
  <1>9. OrderInv'
    <2>1. \A u \in Threads : (pc[u] # "delete")'
      BY <1>7 DEF Doomed
    <2>2. \A q \in Existing : held'[q] = held[q]
      BY <1>1 DEF Existing, TypeOK
    <2>3. Existing # {}
      BY <1>1
    <2>. QED
      BY <1>2, <1>7, <2>1, <2>2, <2>3 DEF OrderInv
  <1>. QED
    BY <1>4, <1>5, <1>6, <1>8, <1>9

(* Entering release(): the reference given up is not pinned. *)
LEMMA BeginReleaseInv ==
  ASSUME IndInv, NEW t \in Threads, NEW r \in Refs, BeginRelease(t, r)
  PROVE  IndInv'
  <1> USE DEF IndInv, BeginRelease, counter, order
  <1>1. TypeOK'
    BY DEF TypeOK, Labels
  <1>2. Existing' = Existing
    BY DEF Existing
  <1>3. CountInv'
    BY <1>2 DEF CountInv
  <1>4. CallInv'
    BY DEF CallInv, Pinned, TypeOK
  <1>5. \A u \in Threads : Doomed(u)' <=> Doomed(u)
    BY DEF Doomed, TypeOK
  <1>6. LifeInv'
    BY <1>2, <1>5 DEF LifeInv
  <1>7. OrderInv'
    <2>1. \A u \in Threads : (pc[u] = "delete")' <=> pc[u] = "delete"
      BY DEF TypeOK
    <2>. QED
      BY <1>2, <1>5, <2>1 DEF OrderInv
  <1>. QED
    BY <1>1, <1>3, <1>4, <1>6, <1>7

(* The fetch_sub: one reference goes, and what t has seen is published.    *)
LEMMA FetchSubInv ==
  ASSUME IndInv, NEW t \in Threads, FetchSub(t)
  PROVE  IndInv'
  <1> USE DEF IndInv, FetchSub
  <1> DEFINE r == arg[t]
  <1>1. r \in Refs /\ held[r] = t /\ ~ Pinned(r) /\ r \in Existing
    BY NoThreadAssumption DEF CallInv, Existing
  <1>2. Existing' = Existing \ {r}
    BY <1>1 DEF Existing, TypeOK
  <1>3. /\ refcount' = refcount - 2
        /\ refcount' \in 0..(Wrap - 1)
        /\ Cardinality(Existing') = Cardinality(Existing) - 1
        /\ WasLast(refcount) <=> Existing = {r}
    BY <1>1, <1>2, NoThreadAssumption, RemoveOne
  <1>4. \A u \in Threads : ~ Doomed(u)
    BY <1>1 DEF LifeInv
  <1>5. \A u \in Threads : u # t => ~ Doomed(u)'
    BY <1>4 DEF Doomed, TypeOK
  <1>6. Doomed(t)' <=> Existing = {r}
    BY <1>3 DEF Doomed, TypeOK
  <1>7. TypeOK'
    BY <1>1, <1>3 DEF TypeOK, Labels, Publish
  <1>8. CountInv'
    BY <1>3, ExistingFinite DEF CountInv, TypeOK, kPayloadMask
  <1>9. CallInv'
    <2>1. \A u \in Threads : pc'[u] = "fetch_add" =>
            /\ u # t /\ pc[u] = "fetch_add"
            /\ arg'[u] = arg[u] /\ pin'[u] = pin[u] /\ pin[u] # r
      BY <1>1 DEF TypeOK, Pinned
    <2>2. \A u \in Threads : pc'[u] = "fetch_sub" =>
            u # t /\ pc[u] = "fetch_sub" /\ arg'[u] = arg[u] /\ arg[u] # r
      BY <1>1 DEF TypeOK, CallInv
    <2>3. \A q \in Refs : q # r => held'[q] = held[q]
      BY DEF TypeOK
    <2>4. held'[r] = NoThread
      BY <1>1 DEF TypeOK
    <2>. QED
      BY <1>1, <2>1, <2>2, <2>3, <2>4 DEF CallInv, Pinned
  <1>10. LifeInv'
    BY <1>1, <1>2, <1>5, <1>6 DEF LifeInv
  <1>11. OrderInv'
    <2>1. \A u \in Threads : u \notin unordered'[u]
      BY DEF OrderInv
    <2>2. ASSUME NEW w \in unpublished', Existing' # {}
          PROVE  \E q \in Existing' : w \notin unordered'[held'[q]]
      <3>1. w \in unpublished /\ w \in unordered[t]
        BY DEF Publish
      <3>2. PICK q \in Existing : w \notin unordered[held[q]]
        BY <3>1, <1>1 DEF OrderInv
      <3>3. q # r
        BY <3>1, <3>2, <1>1
      <3>4. held'[q] = held[q]
        BY <3>3 DEF Existing, TypeOK
      <3>. QED
        BY <1>2, <3>2, <3>3, <3>4
    <2>3. ASSUME Doomed(t)'
          PROVE  unordered'[t] \cap acquired'[t] = {}
      <3>1. \A w \in unpublished : w \notin unordered[t]
        BY <1>1, <1>6, <2>3 DEF OrderInv
      <3>2. acquired'[t] = unpublished
        BY DEF TypeOK
      <3>. QED
        BY <3>1, <3>2
    <2>4. \A u \in Threads : (pc[u] # "delete")'
      BY <1>5 DEF Doomed, TypeOK
    <2>. QED
      BY <1>5, <2>1, <2>2, <2>3, <2>4 DEF OrderInv
  <1>. QED
    BY <1>7, <1>8, <1>9, <1>10, <1>11

(* The branch on prev_ref_count decides nothing new: a thread that goes on *)
(* to the fence was doomed before.                                         *)
LEMMA TestLastInv ==
  ASSUME IndInv, NEW t \in Threads, TestLast(t)
  PROVE  IndInv'
  <1> USE DEF IndInv, TestLast, counter
  <1>1. TypeOK'
    <2>1. CASE WasLast(prev[t])
      BY <2>1, WrapAssumption DEF TypeOK, Labels
    <2>2. CASE ~ WasLast(prev[t])
      BY <2>2, WrapAssumption DEF TypeOK, Labels
    <2>. QED
      BY <2>1, <2>2
  <1>2. Existing' = Existing
    BY DEF Existing
  <1>3. CountInv'
    BY <1>2 DEF CountInv
  <1>4. CallInv'
    BY DEF CallInv, Pinned, TypeOK
  <1>5. \A u \in Threads : Doomed(u)' <=> Doomed(u)
    BY DEF Doomed, TypeOK
  <1>6. LifeInv'
    BY <1>2, <1>5 DEF LifeInv
  <1>7. OrderInv'
    <2>1. \A u \in Threads : (pc[u] = "delete")' <=> pc[u] = "delete"
      BY DEF TypeOK
    <2>2. \A u \in Threads : Doomed(u) => acquired'[u] = acquired[u]
      BY DEF Doomed, TypeOK
    <2>. QED
      BY <1>2, <1>5, <2>1, <2>2 DEF OrderInv
  <1>. QED
    BY <1>1, <1>3, <1>4, <1>6, <1>7

(* The fence brings in everything the thread still lacks. *)
LEMMA FenceInv ==
  ASSUME IndInv, NEW t \in Threads, Fence(t)
  PROVE  IndInv'
  <1> USE DEF IndInv, Fence, counter
  <1>1. TypeOK'
    BY DEF TypeOK, Labels
  <1>2. Existing' = Existing
    BY DEF Existing
  <1>3. CountInv'
    BY <1>2 DEF CountInv
  <1>4. CallInv'
    BY DEF CallInv, Pinned, TypeOK
  <1>5. \A u \in Threads : Doomed(u)' <=> Doomed(u)
    BY DEF Doomed, TypeOK
  <1>6. LifeInv'
    BY <1>2, <1>5 DEF LifeInv
  <1>7. OrderInv'
    <2>1. Doomed(t) /\ Existing = {}
      BY DEF Doomed, LifeInv
    <2>2. unordered'[t] = {}
      BY <2>1 DEF OrderInv, TypeOK
    <2>3. \A u \in Threads : u # t => ~ Doomed(u)'
      BY <1>5, <2>1 DEF LifeInv
    <2>4. \A u \in Threads : u \notin unordered'[u]
      BY DEF OrderInv, TypeOK
    <2>5. \A u \in Threads : (pc[u] = "delete")' => u = t
      BY <2>3 DEF Doomed
    <2>6. pc'[t] = "delete"
      BY DEF TypeOK
    <2>. QED
      BY <1>2, <2>1, <2>2, <2>3, <2>4, <2>5, <2>6 DEF OrderInv
  <1>. QED
    BY <1>1, <1>3, <1>4, <1>6, <1>7

(* `delete this' happens with no reference left and nobody else doomed. *)
LEMMA DeleteInv ==
  ASSUME IndInv, NEW t \in Threads, Delete(t)
  PROVE  IndInv'
  <1> USE DEF IndInv, Delete, order
  <1>1. TypeOK'
    BY DEF TypeOK, Labels
  <1>2. Existing' = Existing
    BY DEF Existing
  <1>3. CountInv'
    BY <1>2 DEF CountInv
  <1>4. CallInv'
    BY DEF CallInv, Pinned, TypeOK
  <1>5. Doomed(t) /\ Existing = {}
    BY DEF Doomed, LifeInv
  <1>6. \A u \in Threads : ~ Doomed(u)'
    BY <1>5 DEF Doomed, LifeInv, TypeOK
  <1>7. LifeInv'
    BY <1>2, <1>5, <1>6 DEF LifeInv
  <1>8. OrderInv'
    BY <1>2, <1>5, <1>6 DEF OrderInv, Doomed
  <1>. QED
    BY <1>1, <1>3, <1>4, <1>7, <1>8

(* A new access is unpublished, but its author holds a reference. *)
LEMMA UseInv ==
  ASSUME IndInv, NEW t \in Threads, Use(t)
  PROVE  IndInv'
  <1> USE DEF IndInv, Use, counter, call
  <1>1. TypeOK'
    BY DEF TypeOK
  <1>2. Existing' = Existing
    BY DEF Existing
  <1>3. CountInv'
    BY <1>2 DEF CountInv
  <1>4. CallInv'
    BY DEF CallInv, Pinned
  <1>5. PICK q \in Refs : held[q] = t
    OBVIOUS
  <1>6. q \in Existing
    BY <1>5, NoThreadAssumption DEF Existing
  <1>7. \A u \in Threads : ~ Doomed(u)'
    BY <1>6 DEF Doomed, LifeInv
  <1>8. LifeInv'
    BY <1>2, <1>6, <1>7 DEF LifeInv
  <1>9. OrderInv'
    <2>1. \A u \in Threads : u \notin unordered'[u]
      BY DEF OrderInv, TypeOK
    <2>2. ASSUME NEW w \in unpublished'
          PROVE  \E x \in Existing' : w \notin unordered'[held'[x]]
      <3>1. CASE w = t
        BY <3>1, <1>2, <1>5, <1>6, <2>1
      <3>2. CASE w # t
        <4>1. PICK x \in Existing : w \notin unordered[held[x]]
          BY <3>2, <1>6 DEF OrderInv
        <4>2. held[x] \in Threads
          BY <4>1 DEF Existing, TypeOK
        <4>3. w \notin unordered'[held[x]]
          BY <3>2, <4>1, <4>2
        <4>. QED
          BY <1>2, <4>1, <4>3
      <3>. QED
        BY <3>1, <3>2
    <2>. QED
      BY <1>7, <2>1, <2>2 DEF OrderInv, Doomed
  <1>. QED
    BY <1>1, <1>3, <1>4, <1>8, <1>9

(* A handoff hands over what the giver has seen along with the reference.  *)
LEMMA HandoffInv ==
  ASSUME IndInv, NEW t \in Threads, NEW u \in Threads, NEW r \in Refs,
         Handoff(t, u, r)
  PROVE  IndInv'
  <1> USE DEF IndInv, Handoff, counter, call
  <1>1. TypeOK'
    BY DEF TypeOK
  <1>2. Existing' = Existing /\ r \in Existing
    BY NoThreadAssumption DEF Existing, TypeOK
  <1>3. CountInv'
    BY <1>2 DEF CountInv
  <1>4. CallInv'
    <2>1. \A q \in Refs : q # r => held'[q] = held[q]
      BY DEF TypeOK
    <2>2. held'[r] # NoThread
      BY NoThreadAssumption DEF TypeOK
    <2>3. \A x \in Threads : pc[x] = "fetch_add" => arg[x] # r
      BY NoThreadAssumption DEF CallInv
    <2>4. \A x \in Threads : pc[x] = "fetch_sub" => arg[x] # r
      BY DEF CallInv
    <2>. QED
      BY <2>1, <2>2, <2>3, <2>4 DEF CallInv, Pinned
  <1>5. \A x \in Threads : ~ Doomed(x)'
    BY <1>2 DEF Doomed, LifeInv
  <1>6. LifeInv'
    BY <1>2, <1>5 DEF LifeInv
  <1>7. OrderInv'
    <2>1. \A x \in Threads : x \notin unordered'[x]
      BY DEF OrderInv, TypeOK
    <2>2. unordered'[u] = unordered[u] \cap unordered[t]
      BY DEF TypeOK
    <2>3. \A x \in Threads : unordered'[x] \subseteq unordered[x]
      BY DEF TypeOK
    <2>4. ASSUME NEW w \in unpublished'
          PROVE  \E x \in Existing' : w \notin unordered'[held'[x]]
      <3>1. PICK x \in Existing : w \notin unordered[held[x]]
        BY <1>2, <2>4 DEF OrderInv
      <3>2. CASE x = r
        <4>1. held'[r] = u /\ held[r] = t
          BY DEF TypeOK
        <4>. QED
          BY <1>2, <2>2, <3>1, <3>2, <4>1
      <3>3. CASE x # r
        <4>1. held'[x] = held[x] /\ held[x] \in Threads
          BY <3>3 DEF Existing, TypeOK
        <4>. QED
          BY <1>2, <2>3, <3>1, <4>1
      <3>. QED
        BY <3>2, <3>3
    <2>. QED
      BY <1>5, <2>1, <2>4 DEF OrderInv, Doomed
  <1>. QED
    BY <1>1, <1>3, <1>4, <1>6, <1>7

-----------------------------------------------------------------------------
LEMMA NextInv == IndInv /\ [Next]_vars => IndInv'
  <1> SUFFICES ASSUME IndInv, [Next]_vars
               PROVE  IndInv'
    OBVIOUS
  <1>1. ASSUME NEW t \in Threads, NEW r \in Refs, NEW via \in Refs,
               BeginReference(t, r, via)
        PROVE  IndInv'
    BY <1>1, BeginReferenceInv
  <1>2. ASSUME NEW t \in Threads, NEW r \in Refs, BeginRelease(t, r)
        PROVE  IndInv'
    BY <1>2, BeginReleaseInv
  <1>3. ASSUME NEW t \in Threads, Step(t)
        PROVE  IndInv'
    BY <1>3, FetchAddInv, FetchSubInv, TestLastInv, FenceInv, DeleteInv
       DEF Step
  <1>4. ASSUME NEW t \in Threads, Use(t)
        PROVE  IndInv'
    BY <1>4, UseInv
  <1>5. ASSUME NEW t \in Threads, NEW u \in Threads, NEW r \in Refs,
               Handoff(t, u, r)
        PROVE  IndInv'
    BY <1>5, HandoffInv
  <1>6. CASE UNCHANGED vars
    BY <1>6 DEF vars, counter, call, order, IndInv, TypeOK, CountInv, CallInv,
                LifeInv, OrderInv, Doomed, Existing, Pinned
  <1>. QED
    BY <1>1, <1>2, <1>3, <1>4, <1>5, <1>6 DEF Next

(* The invariant holds in every reachable state. *)
THEOREM Invariance == Spec => []IndInv
  <1>. QED
    BY InitInv, NextInv, PTL DEF Spec

(* The variables keep their types; refcount_ never leaves its 64 bits.     *)
THEOREM TypeCorrect == Spec => []TypeOK
  <1>1. IndInv => TypeOK
    BY DEF IndInv
  <1>. QED
    BY <1>1, Invariance, PTL

(* What the two fields of refcount_ say, in any state of the invariant. *)
LEMMA FieldsInv == IndInv => CountIsReferences
  <1>1. payload \in 0..1 <=> payload \in 0..kPayloadMask
    BY DEF kPayloadMask
  <1>. QED
    BY <1>1, ExistingFinite, Fields
       DEF IndInv, TypeOK, CountInv, CountIsReferences

(* Counting is exact: refcount_ is the number of references and the        *)
(* payload, under every interleaving of reference() and release().         *)
THEOREM CountCorrect == Spec => []CountIsReferences
  <1>. QED
    BY FieldsInv, Invariance, PTL

(* Nobody touches the object after `delete this', and it is deleted by one *)
(* thread only.                                                            *)
THEOREM NoUseAfterDeleteCorrect == Spec => []NoUseAfterDelete
  <1>1. IndInv => NoUseAfterDelete
    BY NoThreadAssumption
       DEF IndInv, NoUseAfterDelete, CallInv, LifeInv, Doomed, Existing
  <1>. QED
    BY <1>1, Invariance, PTL

(* The assertions of reference() and release() cannot fail. *)
THEOREM AssertionsCorrect == Spec => []AssertionsHold
  <1>1. ASSUME IndInv, NEW t \in Threads, pc[t] \in {"fetch_add", "fetch_sub"}
        PROVE  CountOf(refcount) # 0
    <2>1. Existing # {}
      BY <1>1, NoThreadAssumption DEF IndInv, CallInv, Existing
    <2>2. Cardinality(Existing) # 0
      BY <2>1, ExistingFinite, FS_EmptySet
    <2>. QED
      BY <1>1, <2>2, FieldsInv DEF CountIsReferences
  <1>2. IndInv => AssertionsHold
    BY <1>1 DEF AssertionsHold
  <1>. QED
    BY <1>2, Invariance, PTL

(* Release order on the fetch_sub and the acquire fence suffice: all       *)
(* accesses of all threads happen before the deletion.                     *)
THEOREM DeleteOrdered == Spec => []DeleteIsOrdered
  <1>1. IndInv => DeleteIsOrdered
    BY DEF IndInv, OrderInv, DeleteIsOrdered
  <1>. QED
    BY <1>1, Invariance, PTL

(* An object without references is on its way to deletion. *)
DoomedInv == alive /\ Existing = {} => \E t \in Threads : Doomed(t)

(* Whoever is about to delete stays so until the object is gone, and the   *)
(* release() of the last reference knows that it is the last.              *)
LEMMA DoomedInvNext ==
  ASSUME IndInv, DoomedInv, [Next]_vars
  PROVE  DoomedInv'
  <1> SUFFICES ASSUME alive', Existing' = {}
               PROVE  \E t \in Threads : Doomed(t)'
    BY DEF DoomedInv
  <1> USE DEF IndInv
  <1>1. CASE \E t \in Threads, r, via \in Refs : BeginReference(t, r, via)
    BY <1>1 DEF BeginReference, Existing, counter, Doomed, TypeOK, DoomedInv
  <1>2. CASE \E t \in Threads : FetchAdd(t)
    <2>1. PICK t \in Threads : FetchAdd(t)
      BY <1>2
    <2>2. arg[t] \in Existing'
      BY <2>1, NoThreadAssumption DEF FetchAdd, CallInv, Existing, TypeOK
    <2>. QED
      BY <2>2
  <1>3. CASE \E t \in Threads, r \in Refs : BeginRelease(t, r)
    BY <1>3, NoThreadAssumption DEF BeginRelease, Existing
  <1>4. CASE \E t \in Threads : FetchSub(t)
    <2>1. PICK t \in Threads : FetchSub(t)
      BY <1>4
    <2>2. arg[t] \in Refs /\ held[arg[t]] # NoThread
      BY <2>1, NoThreadAssumption DEF FetchSub, CallInv
    <2>3. Existing' = Existing \ {arg[t]}
      BY <2>1, <2>2 DEF FetchSub, Existing, TypeOK
    <2>4. Existing = {arg[t]}
      BY <2>2, <2>3 DEF Existing
    <2>5. WasLast(refcount)
      BY <2>2, <2>4, RemoveOne
    <2>6. pc'[t] = "test" /\ prev'[t] = refcount
      BY <2>1 DEF FetchSub, TypeOK
    <2>. QED
      BY <2>5, <2>6 DEF Doomed
  <1>5. CASE \E t \in Threads : TestLast(t) \/ Fence(t)
    <2>1. PICK t \in Threads : TestLast(t) \/ Fence(t)
      BY <1>5
    <2>2. Existing' = Existing /\ alive' = alive
      BY <2>1 DEF TestLast, Fence, Existing, counter
    <2>3. PICK u \in Threads : Doomed(u)
      BY <2>2 DEF DoomedInv
    <2>4. CASE u = t
      BY <2>1, <2>3, <2>4 DEF TestLast, Fence, Doomed, TypeOK
    <2>5. CASE u # t
      BY <2>1, <2>3, <2>5 DEF TestLast, Fence, Doomed, TypeOK
    <2>. QED
      BY <2>4, <2>5
  <1>6. CASE \E t \in Threads : Delete(t)
    BY <1>6 DEF Delete
  <1>7. CASE \E t \in Threads : Use(t)
    BY <1>7 DEF Use, Existing, counter, call, Doomed, DoomedInv
  <1>8. CASE \E t \in Threads, u \in Threads, r \in Refs : Handoff(t, u, r)
    BY <1>8, NoThreadAssumption DEF Handoff, Existing, TypeOK
  <1>9. CASE UNCHANGED vars
    BY <1>9 DEF vars, Existing, counter, call, Doomed, DoomedInv
  <1>. QED
    BY <1>1, <1>2, <1>3, <1>4, <1>5, <1>6, <1>7, <1>8, <1>9 DEF Next, Step

(* No interleaving of releases leaks the object: whenever all calls have   *)
(* returned and no reference is left, it has been deleted.                 *)
THEOREM ReclaimedCorrect == Spec => []Reclaimed
  <1>1. Init => DoomedInv
    <2> SUFFICES ASSUME Init PROVE Existing # {}
      BY DEF DoomedInv
    <2>1. PICK creator \in Threads, first \in Refs :
            held = [r \in Refs |-> IF r = first THEN creator ELSE NoThread]
      BY DEF Init
    <2>. QED
      BY <2>1, NoThreadAssumption DEF Existing
  <1>2. IndInv /\ DoomedInv /\ [Next]_vars => DoomedInv'
    BY DoomedInvNext
  <1>3. DoomedInv => Reclaimed
    BY DEF DoomedInv, Doomed, Reclaimed
  <1>. QED
    BY <1>1, <1>2, <1>3, Invariance, PTL DEF Spec

(* The payload bit is constant, as getRefCountPayload() relies on. *)
THEOREM PayloadConstant == Spec => PayloadNeverChanges
  <1>1. IndInv /\ IndInv' /\ [Next]_vars =>
          [PayloadOf(refcount') = PayloadOf(refcount)]_vars
    <2> SUFFICES ASSUME IndInv, IndInv', [Next]_vars
                 PROVE  PayloadOf(refcount') = PayloadOf(refcount)
      OBVIOUS
    <2>1. PayloadOf(refcount) = payload
      BY FieldsInv DEF CountIsReferences
    <2>2. PayloadOf(refcount)' = payload'
      <3>1. IndInv' => CountIsReferences'
        BY FieldsInv, PTL
      <3>. QED
        BY <3>1 DEF CountIsReferences
    <2>3. PayloadOf(refcount)' = PayloadOf(refcount')
      BY DEF PayloadOf
    <2>4. payload' = payload
      BY DEF Next, Step, BeginReference, FetchAdd, BeginRelease, FetchSub,
             TestLast, Fence, Delete, Use, Handoff, vars, counter
    <2>. QED
      BY <2>1, <2>2, <2>3, <2>4
  <1>. QED
    BY <1>1, Invariance, PTL DEF Spec, PayloadNeverChanges

-----------------------------------------------------------------------------
(* The counter implements ownership: every fetch_add is an Acquire, every  *)
(* fetch_sub a Drop, the deletion a Destroy, and the other steps change    *)
(* neither the owners nor the object.                                      *)
THEOREM Refinement == Spec => ImplementsSharedObject
  <1>1. Init => Abstract!Init
    <2> SUFFICES ASSUME Init PROVE Abstract!Init
      OBVIOUS
    <2>1. PICK creator \in Threads, first \in Refs :
            held = [r \in Refs |-> IF r = first THEN creator ELSE NoThread]
      BY DEF Init
    <2>2. Existing = {first}
      BY <2>1, NoThreadAssumption DEF Existing
    <2>. QED
      BY <2>2 DEF Init, Abstract!Init
  <1>2. IndInv /\ [Next]_vars => [Abstract!Next]_(Abstract!vars)
    <2> SUFFICES ASSUME IndInv, [Next]_vars
                 PROVE  Abstract!Next \/ UNCHANGED <<Existing, alive>>
      BY DEF Abstract!vars
    <2> USE DEF IndInv
    <2>1. ASSUME NEW t \in Threads, FetchAdd(t)
          PROVE  Abstract!Next
      <3>1. arg[t] \in Refs /\ Existing # {}
        BY <2>1 DEF FetchAdd, CallInv, Existing
      <3>2. Existing' = Existing \cup {arg[t]}
        BY <2>1, <3>1, NoThreadAssumption DEF FetchAdd, Existing, TypeOK
      <3>3. Abstract!Acquire(arg[t])
        BY <2>1, <3>1, <3>2 DEF Abstract!Acquire, FetchAdd
      <3>. QED
        BY <3>1, <3>3 DEF Abstract!Next
    <2>2. ASSUME NEW t \in Threads, FetchSub(t)
          PROVE  Abstract!Next
      <3>1. arg[t] \in Existing
        BY <2>2, NoThreadAssumption DEF FetchSub, CallInv, Existing
      <3>2. Existing' = Existing \ {arg[t]}
        BY <2>2, <3>1 DEF FetchSub, Existing, TypeOK
      <3>3. Abstract!Drop(arg[t]) /\ arg[t] \in Refs
        BY <2>2, <3>1, <3>2 DEF Abstract!Drop, FetchSub, Existing
      <3>. QED
        BY <3>3 DEF Abstract!Next
    <2>3. ASSUME NEW t \in Threads, Delete(t)
          PROVE  Abstract!Next
      <3>1. Existing = {} /\ alive
        BY <2>3 DEF Delete, LifeInv, Doomed
      <3>2. Existing' = Existing
        BY <2>3 DEF Delete, Existing
      <3>. QED
        BY <2>3, <3>1, <3>2 DEF Delete, Abstract!Next, Abstract!Destroy
    <2>4. ASSUME NEW t \in Threads, NEW u \in Threads, NEW r \in Refs,
                 Handoff(t, u, r)
          PROVE  UNCHANGED <<Existing, alive>>
      BY <2>4, NoThreadAssumption DEF Handoff, Existing, TypeOK, counter
    <2>5. ASSUME held' = held, alive' = alive
          PROVE  UNCHANGED <<Existing, alive>>
      BY <2>5 DEF Existing
    <2>. QED
      BY <2>1, <2>2, <2>3, <2>4, <2>5
         DEF Next, Step, BeginReference, BeginRelease, TestLast, Fence, Use,
             vars, counter
  <1>. QED
    BY <1>1, <1>2, Invariance, PTL DEF Spec, ImplementsSharedObject, Abstract!Spec
=============================================================================
