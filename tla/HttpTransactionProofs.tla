------------------------ MODULE HttpTransactionProofs ------------------------
(***************************************************************************)
(* Theorems about simple_http_transaction.cc.  HttpPool: the processors of *)
(* a transaction, for any number of threads and processors.  HttpSocket:   *)
(* that performRequest sends the message, receives the response and closes *)
(* its descriptor, for every size of message, response and data[], any     *)
(* number of requests and however often ::send fails.  HttpTransaction:    *)
(* that the two, put together, each still do what they do alone.           *)
(***************************************************************************)
EXTENDS HttpTransaction, FiniteSetTheorems, SequenceTheorems, TLAPS

-----------------------------------------------------------------------------
(* The pool. *)

(* mutex_ is held exactly by a thread inside one of the two critical       *)
(* sections.                                                               *)
MutexInv ==
  \A t \in Threads : at[t] \in {"test", "pop", "push"} <=> mutex = t

(* Between back() and pop_back() the top of the pool is the thread's.      *)
PopInv ==
  \A t \in Threads : at[t] = "pop" => processors # <<>> /\ processor[t] = Top

(* Until the transaction is destroyed, the processors that have been made  *)
(* and not lost are the pooled ones and the ones in use.                   *)
InUse == {processor[t] : t \in {u \in Threads : Using(u)}}
OwnedInv ==
  /\ lost \subseteq created
  /\ (\E t \in Threads : at[t] # "gone") => created \ lost = Pooled \cup InUse

(* Destruction is the end of all threads' business at once. *)
GoneInv ==
  (\E t \in Threads : at[t] = "gone") =>
    /\ \A t \in Threads : at[t] = "gone"
    /\ deleted = created \ lost

ExclusiveInv == PoolTypeOK /\ MutexInv /\ PopInv /\ ExclusiveUse

IndInv == ExclusiveInv /\ OwnedInv /\ GoneInv /\ PoolBounded

-----------------------------------------------------------------------------
(* pop_back() removes the top and nothing else. *)
LEMMA PopBack ==
  ASSUME NEW S, NEW s \in Seq(S), s # <<>>
  PROVE  /\ SubSeq(s, 1, Len(s) - 1) \in Seq(S)
         /\ Len(SubSeq(s, 1, Len(s) - 1)) = Len(s) - 1
         /\ \A i \in 1..(Len(s) - 1) : SubSeq(s, 1, Len(s) - 1)[i] = s[i]
         /\ Len(s) \in Nat \ {0}
         /\ s[Len(s)] \in S
  <1>1. Len(s) \in Nat \ {0} /\ s[Len(s)] \in S
    OBVIOUS
  <1>2. \A i \in 1..(Len(s) - 1) : s[i] \in S
    BY <1>1
  <1> DEFINE m == Len(s) - 1
             rest == SubSeq(s, 1, m)
  <1>3. m \in Nat
    BY <1>1
  <1>4. rest \in Seq(S)
    BY <1>2, <1>3, SubSeqProperties
  <1>5. Len(rest) = IF 1 <= m THEN m - 1 + 1 ELSE 0
    BY <1>2, <1>3, SubSeqProperties
  <1>6. \A i \in 1..(m - 1 + 1) : rest[i] = s[1 + i - 1]
    BY <1>2, <1>3, SubSeqProperties
  <1> HIDE DEF rest, m
  <1>7. Len(rest) = m
    BY <1>3, <1>5
  <1>8. ASSUME NEW i \in 1..m
        PROVE  rest[i] = s[i]
    BY <1>3, <1>6, <1>8
  <1>. QED
    BY <1>1, <1>4, <1>7, <1>8 DEF rest, m

(* push_back() adds a top and nothing else. *)
LEMMA PushBack ==
  ASSUME NEW S, NEW s \in Seq(S), NEW x \in S
  PROVE  /\ Append(s, x) \in Seq(S)
         /\ Len(Append(s, x)) = Len(s) + 1
         /\ Len(s) \in Nat
         /\ \A i \in 1..Len(s) : Append(s, x)[i] = s[i]
         /\ Append(s, x)[Len(s) + 1] = x
  OBVIOUS

(* Threads that may have a processor are among the threads. *)
LEMMA ActiveFinite ==
  /\ IsFiniteSet(Active)
  /\ Cardinality(Active) \in Nat
  /\ Cardinality(Threads) \in Nat
  <1>1. Active \in SUBSET Threads
    BY DEF Active
  <1>. QED
    BY <1>1, ThreadsAssumption, FS_Subset, FS_CardinalityType

-----------------------------------------------------------------------------
LEMMA PoolInitInv == PoolInit => IndInv
  <1> SUFFICES ASSUME PoolInit PROVE IndInv
    OBVIOUS
  <1> USE DEF PoolInit
  <1>1. PoolTypeOK
    BY DEF PoolTypeOK, Labels
  <1>2. MutexInv /\ PopInv /\ ExclusiveUse
    BY ThreadsAssumption DEF MutexInv, PopInv, ExclusiveUse, Using
  <1>3. Pooled = {} /\ InUse = {} /\ Active = {}
    BY DEF Pooled, InUse, Using, Active
  <1>4. OwnedInv /\ GoneInv
    BY <1>3 DEF OwnedInv, GoneInv
  <1>5. PoolBounded
    BY <1>3, ActiveFinite, FS_EmptySet DEF PoolBounded
  <1>. QED
    BY <1>1, <1>2, <1>4, <1>5 DEF IndInv, ExclusiveInv

-----------------------------------------------------------------------------
(* Steps that leave the pool, the processors and the destructor alone.     *)
LEMMA LockInv ==
  ASSUME IndInv, NEW t \in Threads, AcquireLock(t) \/ ReleaseLock(t)
  PROVE  IndInv'
  <1> USE DEF IndInv, ExclusiveInv, AcquireLock, ReleaseLock
  <1>1. PoolTypeOK'
    BY DEF PoolTypeOK, Labels
  <1>2. MutexInv'
    BY ThreadsAssumption DEF MutexInv, PoolTypeOK
  <1>3. \A u \in Threads : Using(u)' <=> Using(u)
    BY DEF Using, PoolTypeOK
  <1>4. Pooled' = Pooled /\ InUse' = InUse /\ Active' = Active
    BY <1>3 DEF Pooled, InUse, Active, PoolTypeOK
  <1>5. PopInv'
    BY DEF PopInv, Top, PoolTypeOK
  <1>6. ExclusiveUse'
    BY <1>3, <1>4 DEF ExclusiveUse
  <1>7. OwnedInv' /\ GoneInv'
    BY <1>4 DEF OwnedInv, GoneInv, PoolTypeOK
  <1>8. PoolBounded'
    BY <1>4 DEF PoolBounded
  <1>. QED
    BY <1>1, <1>2, <1>5, <1>6, <1>7, <1>8

(* back() reads the top; the processor stays in the pool. *)
LEMMA AcquireBackInv ==
  ASSUME IndInv, NEW t \in Threads, AcquireBack(t)
  PROVE  IndInv'
  <1> USE DEF IndInv, ExclusiveInv, AcquireBack
  <1>1. Top \in Processors
    BY PopBack DEF PoolTypeOK, Top
  <1>2. PoolTypeOK'
    BY <1>1 DEF PoolTypeOK, Labels
  <1>3. MutexInv'
    BY DEF MutexInv, PoolTypeOK
  <1>4. PopInv'
    BY DEF PopInv, Top, PoolTypeOK, MutexInv
  <1>5. \A u \in Threads :
          /\ Using(u)' <=> Using(u)
          /\ Using(u) => processor'[u] = processor[u]
    BY DEF Using, PoolTypeOK
  <1>6. Pooled' = Pooled /\ InUse' = InUse /\ Active' = Active
    BY <1>5 DEF Pooled, InUse, Active, PoolTypeOK
  <1>7. ExclusiveUse'
    BY <1>5, <1>6 DEF ExclusiveUse
  <1>8. OwnedInv' /\ GoneInv'
    BY <1>6 DEF OwnedInv, GoneInv, PoolTypeOK
  <1>9. PoolBounded'
    BY <1>6 DEF PoolBounded
  <1>. QED
    BY <1>2, <1>3, <1>4, <1>7, <1>8, <1>9

(* pop_back() moves the top from the pool to the thread. *)
LEMMA AcquirePopInv ==
  ASSUME IndInv, NEW t \in Threads, AcquirePop(t)
  PROVE  IndInv'
  <1> USE DEF IndInv, ExclusiveInv, AcquirePop
  <1> DEFINE n == Len(processors)
  <1>1. /\ n \in Nat \ {0}
        /\ processor[t] = processors[n]
        /\ Len(processors') = n - 1
        /\ \A i \in 1..(n - 1) : processors'[i] = processors[i]
        /\ processors' \in Seq(Processors)
    BY PopBack DEF PopInv, Top, PoolTypeOK
  <1>2. PoolTypeOK'
    BY <1>1 DEF PoolTypeOK, Labels
  <1>3. MutexInv'
    BY ThreadsAssumption DEF MutexInv, PoolTypeOK
  <1>4. PopInv'
    BY ThreadsAssumption DEF PopInv, MutexInv, PoolTypeOK
  <1>5. Pooled' = Pooled \ {processor[t]} /\ processor[t] \in Pooled
    BY <1>1 DEF Pooled, ExclusiveUse
  <1>6. /\ ~ Using(t) /\ Using(t)'
        /\ \A u \in Threads : u # t => (Using(u)' <=> Using(u))
    BY DEF Using, PoolTypeOK
  <1>7. InUse' = InUse \cup {processor[t]}
    BY <1>6 DEF InUse
  <1>8. ExclusiveUse'
    BY <1>1, <1>5, <1>6 DEF ExclusiveUse
  <1>9. OwnedInv' /\ GoneInv'
    BY <1>5, <1>7 DEF OwnedInv, GoneInv, PoolTypeOK
  <1>10. Active' = Active \cup {t} /\ t \notin Active
    BY DEF Active, PoolTypeOK
  <1>11. Cardinality(Active') = Cardinality(Active) + 1
    BY <1>10, ActiveFinite, FS_AddElement
  <1>12. PoolBounded'
    BY <1>1, <1>11, ActiveFinite DEF PoolBounded
  <1>. QED
    BY <1>2, <1>3, <1>4, <1>8, <1>9, <1>12

(* The pool was empty: the thread becomes one that will have a processor.  *)
LEMMA AcquireEmptyInv ==
  ASSUME IndInv, NEW t \in Threads, AcquireEmpty(t)
  PROVE  IndInv'
  <1> USE DEF IndInv, ExclusiveInv, AcquireEmpty
  <1>1. PoolTypeOK'
    BY DEF PoolTypeOK, Labels
  <1>2. MutexInv'
    BY ThreadsAssumption DEF MutexInv, PoolTypeOK
  <1>3. PopInv'
    BY DEF PopInv, Top, PoolTypeOK
  <1>4. \A u \in Threads : Using(u)' <=> Using(u)
    BY DEF Using, PoolTypeOK
  <1>5. Pooled' = Pooled /\ InUse' = InUse
    BY <1>4 DEF Pooled, InUse, PoolTypeOK
  <1>6. ExclusiveUse'
    BY <1>4, <1>5 DEF ExclusiveUse
  <1>7. OwnedInv' /\ GoneInv'
    BY <1>5 DEF OwnedInv, GoneInv, PoolTypeOK
  <1>8. PoolBounded'
    <2>1. Active' = Active \cup {t} /\ t \notin Active
      BY DEF Active, PoolTypeOK
    <2>2. Active' \in SUBSET Threads
      BY <2>1 DEF Active
    <2>3. Cardinality(Active') <= Cardinality(Threads)
      BY <2>2, ThreadsAssumption, FS_Subset
    <2>4. Cardinality(Active') \in Nat
      BY <2>2, ThreadsAssumption, FS_Subset, FS_CardinalityType
    <2>5. Len(processors') = 0
      OBVIOUS
    <2>. QED
      BY <2>3, <2>4, <2>5, ActiveFinite DEF PoolBounded
  <1>. QED
    BY <1>1, <1>2, <1>3, <1>6, <1>7, <1>8

(* `new' gives the thread a processor nobody else knows. *)
LEMMA AcquireNewInv ==
  ASSUME IndInv, NEW t \in Threads, AcquireNew(t)
  PROVE  IndInv'
  <1> USE DEF IndInv, ExclusiveInv
  <1>1. PICK p \in Processors \ created :
          created' = created \cup {p} /\ processor' = [processor EXCEPT ![t] = p]
    BY DEF AcquireNew
  <1>2. /\ at[t] = "new"
        /\ at' = [at EXCEPT ![t] = "perform"]
        /\ UNCHANGED <<mutex, processors, deleted, lost>>
    BY DEF AcquireNew
  <1>3. PoolTypeOK'
    BY <1>1, <1>2 DEF PoolTypeOK, Labels
  <1>4. MutexInv'
    BY <1>2 DEF MutexInv, PoolTypeOK
  <1>5. PopInv'
    BY <1>1, <1>2 DEF PopInv, Top, PoolTypeOK
  <1>6. /\ ~ Using(t) /\ Using(t)' /\ processor'[t] = p
        /\ \A u \in Threads : u # t =>
             (Using(u)' <=> Using(u)) /\ processor'[u] = processor[u]
    BY <1>1, <1>2 DEF Using, PoolTypeOK
  <1>7. Pooled' = Pooled /\ InUse' = InUse \cup {p}
    BY <1>2, <1>6 DEF Pooled, InUse
  <1>8. created \ lost = Pooled \cup InUse
    BY <1>2 DEF OwnedInv
  <1>9. p \notin Pooled /\ \A u \in Threads : Using(u) => processor[u] # p
    BY <1>8 DEF InUse
  <1>10. ExclusiveUse'
    BY <1>2, <1>6, <1>7, <1>9 DEF ExclusiveUse
  <1>11. OwnedInv'
    BY <1>1, <1>2, <1>7, <1>8 DEF OwnedInv
  <1>12. GoneInv'
    BY <1>2 DEF GoneInv, PoolTypeOK
  <1>13. PoolBounded'
    <2>1. Active' = Active
      BY <1>2 DEF Active, PoolTypeOK
    <2>. QED
      BY <1>2, <2>1 DEF PoolBounded
  <1>. QED
    BY <1>3, <1>4, <1>5, <1>10, <1>11, <1>12, <1>13

(* The end of performRequest changes the thread's place only. *)
LEMMA PerformInv ==
  ASSUME IndInv, NEW t \in Threads, Perform(t)
  PROVE  IndInv'
  <1> USE DEF IndInv, ExclusiveInv, Perform
  <1>1. PoolTypeOK'
    BY DEF PoolTypeOK, Labels
  <1>2. MutexInv' /\ PopInv'
    BY DEF MutexInv, PopInv, Top, PoolTypeOK
  <1>3. \A u \in Threads : Using(u)' <=> Using(u)
    BY DEF Using, PoolTypeOK
  <1>4. Pooled' = Pooled /\ InUse' = InUse /\ Active' = Active
    BY <1>3 DEF Pooled, InUse, Active, PoolTypeOK
  <1>5. ExclusiveUse' /\ OwnedInv' /\ GoneInv' /\ PoolBounded'
    BY <1>3, <1>4 DEF ExclusiveUse, OwnedInv, GoneInv, PoolBounded, PoolTypeOK
  <1>. QED
    BY <1>1, <1>2, <1>5

(* A processor whose request throws belongs to nobody any more. *)
LEMMA PerformThrowsInv ==
  ASSUME IndInv, NEW t \in Threads, PerformThrows(t)
  PROVE  IndInv'
  <1> USE DEF IndInv, ExclusiveInv, PerformThrows
  <1> DEFINE p == processor[t]
  <1>1. created \ lost = Pooled \cup InUse
    BY DEF OwnedInv
  <1>2. /\ Using(t) /\ ~ Using(t)' /\ p \in InUse /\ p \notin Pooled
        /\ \A u \in Threads : u # t =>
             /\ Using(u)' <=> Using(u)
             /\ processor'[u] = processor[u]
             /\ Using(u) => processor[u] # p
    BY DEF Using, InUse, ExclusiveUse, PoolTypeOK
  <1>3. p \in created
    BY <1>1, <1>2
  <1>4. PoolTypeOK'
    BY <1>3 DEF PoolTypeOK, Labels
  <1>5. MutexInv' /\ PopInv'
    BY DEF MutexInv, PopInv, Top, PoolTypeOK
  <1>6. Pooled' = Pooled /\ InUse' = InUse \ {p}
    BY <1>2 DEF Pooled, InUse
  <1>7. ExclusiveUse'
    BY <1>2, <1>6 DEF ExclusiveUse
  <1>8. OwnedInv' /\ GoneInv'
    BY <1>1, <1>2, <1>3, <1>6 DEF OwnedInv, GoneInv, PoolTypeOK
  <1>9. PoolBounded'
    <2>1. Active' = Active \ {t} /\ t \in Active
      BY DEF Active, PoolTypeOK
    <2>2. Cardinality(Active') = Cardinality(Active) - 1
      BY <2>1, ActiveFinite, FS_RemoveElement
    <2>3. Len(processors) \in Nat
      BY DEF PoolTypeOK
    <2>. QED
      BY <2>2, <2>3, ActiveFinite DEF PoolBounded
  <1>. QED
    BY <1>4, <1>5, <1>7, <1>8, <1>9

(* push_back() moves the processor from the thread to the pool. *)
LEMMA ReleasePushInv ==
  ASSUME IndInv, NEW t \in Threads, ReleasePush(t)
  PROVE  IndInv'
  <1> USE DEF IndInv, ExclusiveInv, ReleasePush
  <1> DEFINE p == processor[t]
             n == Len(processors)
  <1>1. created \ lost = Pooled \cup InUse
    BY DEF OwnedInv
  <1>2. /\ Using(t) /\ ~ Using(t)' /\ p \in InUse /\ p \notin Pooled
        /\ \A u \in Threads : u # t =>
             /\ Using(u)' <=> Using(u)
             /\ processor'[u] = processor[u]
             /\ Using(u) => processor[u] # p
    BY DEF Using, InUse, ExclusiveUse, PoolTypeOK
  <1>3. p \in Processors
    BY <1>1, <1>2 DEF PoolTypeOK
  <1>4. /\ n \in Nat
        /\ Len(processors') = n + 1
        /\ \A i \in 1..n : processors'[i] = processors[i]
        /\ processors'[n + 1] = p
        /\ processors' \in Seq(Processors)
    BY <1>3, PushBack DEF PoolTypeOK
  <1>5. PoolTypeOK'
    BY <1>4 DEF PoolTypeOK, Labels
  <1>6. MutexInv'
    BY ThreadsAssumption DEF MutexInv, PoolTypeOK
  <1>7. PopInv'
    BY ThreadsAssumption DEF PopInv, MutexInv, PoolTypeOK
  <1>8. Pooled' = Pooled \cup {p} /\ InUse' = InUse \ {p}
    <2>1. Pooled' = Pooled \cup {p}
      BY <1>4 DEF Pooled
    <2>2. InUse' = InUse \ {p}
      BY <1>2 DEF InUse
    <2>. QED
      BY <2>1, <2>2
  <1>9. ExclusiveUse'
    <2>1. \A i \in 1..n : processors[i] # p
      BY <1>2 DEF Pooled
    <2>2. \A i, j \in 1..(n + 1) : processors'[i] = processors'[j] => i = j
      BY <1>4, <2>1 DEF ExclusiveUse
    <2>. QED
      BY <1>2, <1>4, <1>8, <2>2 DEF ExclusiveUse
  <1>10. OwnedInv' /\ GoneInv'
    BY <1>1, <1>2, <1>8 DEF OwnedInv, GoneInv, PoolTypeOK
  <1>11. PoolBounded'
    <2>1. Active' = Active \ {t} /\ t \in Active
      BY DEF Active, PoolTypeOK
    <2>2. Cardinality(Active') = Cardinality(Active) - 1
      BY <2>1, ActiveFinite, FS_RemoveElement
    <2>. QED
      BY <1>4, <2>2, ActiveFinite DEF PoolBounded
  <1>. QED
    BY <1>5, <1>6, <1>7, <1>9, <1>10, <1>11

(* The destructor deletes the pool, which then is all there is. *)
LEMMA DestroyInv ==
  ASSUME IndInv, Destroy
  PROVE  IndInv'
  <1> USE DEF IndInv, ExclusiveInv, Destroy
  <1>1. \A t \in Threads : ~ Using(t) /\ ~ Using(t)' /\ at'[t] = "gone"
    BY DEF Using
  <1>2. InUse = {} /\ Active' = {}
    BY <1>1 DEF InUse, Active
  <1>3. Pooled \in SUBSET Processors
    BY DEF Pooled, PoolTypeOK
  <1>4. PoolTypeOK'
    BY <1>3 DEF PoolTypeOK, Labels
  <1>5. MutexInv' /\ PopInv' /\ ExclusiveUse'
    BY <1>1 DEF MutexInv, PopInv, ExclusiveUse, PoolTypeOK
  <1>6. OwnedInv'
    BY <1>1 DEF OwnedInv
  <1>7. GoneInv'
    BY <1>1, <1>2 DEF GoneInv, OwnedInv
  <1>8. PoolBounded'
    BY <1>2, ActiveFinite, FS_EmptySet DEF PoolBounded
  <1>. QED
    BY <1>4, <1>5, <1>6, <1>7, <1>8

-----------------------------------------------------------------------------
LEMMA PoolNextInv == IndInv /\ [PoolNext]_poolVars => IndInv'
  <1> SUFFICES ASSUME IndInv, [PoolNext]_poolVars
               PROVE  IndInv'
    OBVIOUS
  <1>1. ASSUME NEW t \in Threads, AcquireLock(t) \/ Release(t)
        PROVE  IndInv'
    BY <1>1, LockInv, ReleasePushInv DEF Release
  <1>2. ASSUME NEW t \in Threads, Acquire(t)
        PROVE  IndInv'
    BY <1>2, AcquireBackInv, AcquirePopInv, AcquireEmptyInv, AcquireNewInv
       DEF Acquire
  <1>3. ASSUME NEW t \in Threads, Perform(t) \/ PerformThrows(t)
        PROVE  IndInv'
    BY <1>3, PerformInv, PerformThrowsInv
  <1>4. CASE Destroy
    BY <1>4, DestroyInv
  <1>5. CASE UNCHANGED poolVars
    BY <1>5 DEF poolVars, IndInv, ExclusiveInv, PoolTypeOK, MutexInv, PopInv, Top,
                ExclusiveUse, Using, Pooled, InUse, OwnedInv, GoneInv,
                PoolBounded, Active
  <1>. QED
    BY <1>1, <1>2, <1>3, <1>4, <1>5 DEF PoolNext

(* The invariant holds in every reachable state. *)
THEOREM PoolInvariance == PoolSpec => []IndInv
  <1>. QED
    BY PoolInitInv, PoolNextInv, PTL DEF PoolSpec

(* The variables keep their types. *)
THEOREM PoolTypeCorrect == PoolSpec => []PoolTypeOK
  <1>1. IndInv => PoolTypeOK
    BY DEF IndInv, ExclusiveInv
  <1>. QED
    BY <1>1, PoolInvariance, PTL

(* The promise of acquireProcessor's comment, for any number of threads:   *)
(* between acquireProcessor() and releaseProcessor() a processor is used   *)
(* by one thread only and is not in the pool.                              *)
THEOREM Exclusive == PoolSpec => []ExclusiveUse
  <1>1. IndInv => ExclusiveUse
    BY DEF IndInv, ExclusiveInv
  <1>. QED
    BY <1>1, PoolInvariance, PTL

(* The pool never holds more processors than there are threads, although   *)
(* the emptiness test and the allocation are not one critical section.     *)
THEOREM Bounded == PoolSpec => []PoolBounded
  <1>1. IndInv => PoolBounded
    BY DEF IndInv
  <1>. QED
    BY <1>1, PoolInvariance, PTL

(* The destructor reaches every processor that was not lost. *)
THEOREM NoLeak == PoolSpec => []NothingLeaks
  <1>1. IndInv => NothingLeaks
    BY DEF IndInv, GoneInv, NothingLeaks
  <1>. QED
    BY <1>1, PoolInvariance, PTL

-----------------------------------------------------------------------------
(* The socket.  Its three invariants are separate parts of one inductive   *)
(* invariant: what has been sent so far, what has been read so far, and    *)
(* the descriptor.                                                         *)

Places == {"idle", "retry", "send", "failed", "await", "recv", "again", "parse",
           "threw", "killed"}

TypeOK ==
  /\ pc \in Places
  /\ socket \in Nat \cup {-1}
  /\ offset \in Int
  /\ wire \in Seq(Int)
  /\ arrived \in Nat
  /\ consumed \in Nat
  /\ peer \in {"up", "closed", "reset", "broken"}
  /\ buffer \in Seq(Int)
  /\ requests \in Nat

(* offset says how many bytes of the message have been sent; calls that     *)
(* failed have made it too small.                                           *)
SentSoFar ==
  /\ pc \in {"idle", "retry"} => offset = 0 /\ wire = <<>>
  /\ offset <= MessageLen
  /\ offset <= Len(wire)
  /\ Failures = 0 => wire = Positions(0, offset)
  /\ \A byte \in 1..offset : \E i \in DOMAIN wire : wire[i] = byte

SentAll == pc \in {"await", "recv", "again", "parse"} => offset = MessageLen

ReadSoFar ==
  /\ consumed <= arrived
  /\ buffer = Positions(0, consumed)

Reasons ==
  pc = "parse" =>
    \/ timedOut
    \/ EndsWithTerminator(buffer)
    \/ peer \in {"closed", "broken"} /\ consumed = arrived

Descriptor ==
  /\ pc \in {"idle", "retry"} => socket = -1
  /\ DescriptorsAccounted

IInv == TypeOK /\ SentSoFar /\ SentAll /\ ReadSoFar /\ Reasons /\ Descriptor

-----------------------------------------------------------------------------
(* Consecutive positions: how many there are, and what they are.            *)
LEMMA PositionsAre ==
  ASSUME NEW from \in Int, NEW n \in Nat
  PROVE  /\ Positions(from, n) \in Seq(Int)
         /\ Len(Positions(from, n)) = n
         /\ \A i \in 1..n : Positions(from, n)[i] = from + i
  BY DEF Positions

(* What is sent, or read, from where the last call has stopped continues    *)
(* what was there.                                                          *)
LEMMA PositionsContinue ==
  ASSUME NEW k \in Nat, NEW n \in Nat
  PROVE  Positions(0, k) \o Positions(k, n) = Positions(0, k + n)
<1> DEFINE first == Positions(0, k)
           next == Positions(k, n)
           all == Positions(0, k + n)
<1>1. /\ first \in Seq(Int) /\ Len(first) = k
      /\ \A i \in 1..k : first[i] = i
  BY DEF Positions
<1>2. /\ next \in Seq(Int) /\ Len(next) = n
      /\ \A i \in 1..n : next[i] = k + i
  BY PositionsAre
<1>3. /\ all \in Seq(Int) /\ Len(all) = k + n
      /\ \A i \in 1..(k + n) : all[i] = 0 + i
  BY PositionsAre
<1> HIDE DEF first, next, all
<1>4. /\ first \o next \in Seq(Int)
      /\ Len(first \o next) = Len(first) + Len(next)
      /\ \A i \in 1..(Len(first) + Len(next)) :
           (first \o next)[i] = IF i <= Len(first) THEN first[i]
                                ELSE next[i - Len(first)]
  BY <1>1, <1>2, ConcatProperties, Zenon
<1>5. ASSUME NEW i \in 1..(k + n)
      PROVE  (first \o next)[i] = all[i]
  BY <1>1, <1>2, <1>3, <1>4
<1>6. first \o next = all
  BY <1>1, <1>2, <1>3, <1>4, <1>5, SeqEqual
<1> QED
  BY <1>6 DEF first, next, all

(* What is appended to a sequence of bytes is found in it, and what was in  *)
(* it is still found.                                                       *)
LEMMA AppendedFound ==
  ASSUME NEW sent \in Seq(Int), NEW more \in Seq(Int)
  PROVE  /\ sent \o more \in Seq(Int)
         /\ Len(sent \o more) = Len(sent) + Len(more)
         /\ \A i \in DOMAIN sent : i \in DOMAIN (sent \o more) /\ (sent \o more)[i] = sent[i]
         /\ \A i \in DOMAIN more :
              /\ Len(sent) + i \in DOMAIN (sent \o more)
              /\ (sent \o more)[Len(sent) + i] = more[i]
  BY ConcatProperties

-----------------------------------------------------------------------------
LEMMA InitIInv == Init => IInv
<1> SUFFICES ASSUME Init PROVE IInv
  OBVIOUS
<1> USE DEF Init
<1>1. TypeOK
  BY DEF TypeOK, Places
<1>2. SentSoFar
  BY SizesAssumption DEF SentSoFar, Failures, Positions
<1>3. ReadSoFar
  BY DEF ReadSoFar, Positions
<1>4. SentAll /\ Reasons /\ Descriptor
  BY DEF SentAll, Reasons, Descriptor, DescriptorsAccounted
<1> QED
  BY <1>1, <1>2, <1>3, <1>4 DEF IInv

(* One turn of send()'s loop sends the next bytes of the message. *)
LEMMA SendSomeKeeps == IInv /\ SendSome => SentSoFar'
<1> SUFFICES ASSUME IInv, SendSome PROVE SentSoFar'
  OBVIOUS
<1> USE SizesAssumption
<1>1. PICK n \in 1..(MessageLen - offset) :
        wire' = wire \o Positions(offset, n) /\ offset' = offset + n
  BY DEF SendSome
<1>2. /\ offset \in Int /\ wire \in Seq(Int) /\ Len(wire) \in Nat
      /\ n \in Nat /\ n >= 1
  BY DEF IInv, TypeOK
<1> DEFINE more == Positions(offset, n)
<1>3. /\ more \in Seq(Int) /\ Len(more) = n /\ DOMAIN more = 1..n
      /\ \A i \in 1..n : more[i] = offset + i
  BY <1>2, PositionsAre DEF Positions
<1>4. wire' = wire \o more
  BY <1>1
<1> HIDE DEF more
<1>5. /\ Len(wire \o more) = Len(wire) + Len(more)
      /\ \A i \in DOMAIN wire :
           i \in DOMAIN (wire \o more) /\ (wire \o more)[i] = wire[i]
      /\ \A i \in DOMAIN more :
           /\ Len(wire) + i \in DOMAIN (wire \o more)
           /\ (wire \o more)[Len(wire) + i] = more[i]
  BY <1>2, <1>3, AppendedFound, Zenon
<1>6. Len(wire') = Len(wire) + n
  BY <1>4, <1>3, <1>5
<1>7. offset' <= MessageLen /\ offset' <= Len(wire')
  BY <1>1, <1>2, <1>6 DEF IInv, SentSoFar
<1>8. ASSUME Failures' = 0 PROVE wire' = Positions(0, offset')
  <2>1. Failures = 0 /\ offset \in Nat
    BY <1>1, <1>2, <1>6, <1>8 DEF Failures
  <2>2. wire = Positions(0, offset)
    BY <2>1 DEF IInv, SentSoFar
  <2> QED
    BY <2>1, <2>2, <1>1, <1>2, PositionsContinue
<1>9. ASSUME NEW byte \in 1..(offset')
      PROVE  \E i \in DOMAIN (wire') : wire'[i] = byte
  <2>1. CASE byte <= offset
    <3>1. PICK i \in DOMAIN wire : wire[i] = byte
      BY <2>1, <1>2 DEF IInv, SentSoFar
    <3> QED
      BY <3>1, <1>4, <1>5
  <2>2. CASE byte > offset
    <3> DEFINE i == byte - offset
    <3>1. i \in 1..n
      BY <2>2, <1>1, <1>2
    <3>2. i \in DOMAIN more /\ more[i] = byte
      BY <3>1, <1>2, <1>3
    <3> QED
      BY <3>2, <1>4, <1>5
  <2> QED
    BY <2>1, <2>2, <1>1, <1>2
<1>10. pc' = "send"
  BY DEF SendSome, Sending
<1> QED
  BY <1>7, <1>8, <1>9, <1>10 DEF SentSoFar

(* A call of ::send that failed takes one off offset: what has been sent is *)
(* sent once more.                                                          *)
LEMMA SendMovesBackKeeps == IInv /\ SendMovesBack => SentSoFar'
<1> SUFFICES ASSUME IInv, SendMovesBack PROVE SentSoFar'
  OBVIOUS
<1>1. /\ wire' = wire /\ pc' = "send"
      /\ offset' = IF offset > -MaxBack THEN offset - 1 ELSE offset
  BY DEF SendMovesBack
<1>2. /\ offset \in Int /\ Len(wire) \in Nat /\ offset <= Len(wire)
      /\ MaxBack \in Nat \ {0}
  BY SizesAssumption DEF IInv, TypeOK, SentSoFar
<1>3. offset' <= MessageLen /\ offset' <= Len(wire') /\ offset' <= offset
  BY <1>1, <1>2, SizesAssumption DEF IInv, SentSoFar
<1>4. Failures' # 0
  BY <1>1, <1>2 DEF Failures
<1>5. offset' \in Int
  BY <1>1, <1>2
<1>6. \A byte \in 1..(offset') : \E i \in DOMAIN (wire') : wire'[i] = byte
  <2> TAKE byte \in 1..(offset')
  <2>1. byte \in 1..offset
    BY <1>2, <1>3, <1>5
  <2> QED
    BY <2>1, <1>1 DEF IInv, SentSoFar
<1> QED
  BY <1>1, <1>3, <1>4, <1>6 DEF SentSoFar

(* A chunk that ::recv returns continues what was read. *)
LEMMA ReceiveKeeps ==
  IInv /\ Receive => TypeOK' /\ ReadSoFar' /\ Reasons'
<1> SUFFICES ASSUME IInv, Receive PROVE TypeOK' /\ ReadSoFar' /\ Reasons'
  OBVIOUS
<1> DEFINE n == Least(Capacity, arrived - consumed)
<1>1. /\ buffer' = buffer \o Positions(consumed, n)
      /\ consumed' = consumed + n
      /\ arrived' = arrived
      /\ pc' = IF EndsWithTerminator(buffer)' THEN "parse" ELSE "recv"
  BY DEF Receive, EndsWithTerminator
<1>2. /\ consumed \in Nat /\ arrived \in Nat /\ arrived > consumed
      /\ n \in Nat /\ n <= arrived - consumed
  BY SizesAssumption DEF IInv, TypeOK, Receive, Least
<1> HIDE DEF n
<1>3. buffer' = Positions(0, consumed')
  BY <1>1, <1>2, PositionsContinue DEF IInv, ReadSoFar
<1>4. consumed' \in Nat /\ consumed' <= arrived'
  BY <1>1, <1>2
<1>5. TypeOK'
  <2>1. buffer' \in Seq(Int)
    BY <1>3, <1>4, PositionsAre
  <2>2. pc' \in Places
    BY <1>1 DEF Places
  <2> QED
    BY <1>1, <1>4, <2>1, <2>2 DEF IInv, TypeOK, Receive
<1>6. Reasons'
  BY <1>1 DEF Reasons
<1> QED
  BY <1>3, <1>4, <1>5, <1>6 DEF ReadSoFar

LEMMA NextIInv == IInv /\ [Next]_vars => IInv'
<1> SUFFICES ASSUME IInv, [Next]_vars PROVE IInv'
  OBVIOUS
<1> USE SizesAssumption DEF IInv
<1>1. CASE Connect \/ ConnectAgain
  <2>1. /\ UNCHANGED <<offset, wire, arrived, consumed, buffer, timedOut>>
        /\ pc \in {"idle", "retry"}
        /\ requests' \in Nat
        /\ \/ pc' = "killed" /\ UNCHANGED <<socket, open, peer>>
           \/ socket' = -1 /\ pc' \in {"retry", "send"} /\ UNCHANGED <<open, peer>>
           \/ /\ socket' \in Nat
              /\ open' = open \cup {socket'}
              /\ peer' \in {"up", "broken"}
              /\ pc' = "send"
    BY <1>1 DEF Connect, ConnectAgain, Connecting, TypeOK
  <2>2. TypeOK' /\ SentAll' /\ Reasons'
    BY <2>1 DEF TypeOK, Places, SentAll, Reasons
  <2>3. SentSoFar' /\ ReadSoFar'
    BY <2>1 DEF SentSoFar, ReadSoFar, Failures
  <2>4. Descriptor'
    BY <2>1 DEF Descriptor, DescriptorsAccounted, TypeOK
  <2> QED
    BY <2>2, <2>3, <2>4
<1>2. CASE SendKills \/ SendFails
  BY <1>2 DEF SendKills, SendFails, Sending, kernel, TypeOK, Places, SentSoFar,
              SentAll, ReadSoFar, Reasons, Descriptor, DescriptorsAccounted, Failures
<1>3. CASE SendSome
  <2>1. SentSoFar'
    BY <1>3, SendSomeKeeps
  <2>2. TypeOK'
    BY <1>3, PositionsAre DEF SendSome, kernel, TypeOK, Places
  <2> QED
    BY <1>3, <2>1, <2>2 DEF SendSome, Sending, kernel, SentAll, ReadSoFar, Reasons,
                           Descriptor, DescriptorsAccounted
<1>4. CASE SendMovesBack
  <2>1. SentSoFar'
    BY <1>4, SendMovesBackKeeps
  <2> QED
    BY <1>4, <2>1 DEF SendMovesBack, kernel, TypeOK, Places, SentAll, ReadSoFar,
                      Reasons, Descriptor, DescriptorsAccounted
<1>5. CASE SendDone
  <2>1. SentAll'
    BY <1>5 DEF SendDone, SentAll, SentSoFar, TypeOK
  <2> QED
    BY <1>5, <2>1 DEF SendDone, kernel, TypeOK, Places, SentSoFar, Failures,
                      ReadSoFar, Reasons, Descriptor, DescriptorsAccounted
<1>6. CASE FirstWait
  <2>1. Reasons'
    BY <1>6 DEF FirstWait, Reasons
  <2> QED
    BY <1>6, <2>1 DEF FirstWait, kernel, TypeOK, Places, SentSoFar, Failures,
                      SentAll, ReadSoFar, Descriptor, DescriptorsAccounted
<1>7. CASE Receive
  <2>1. TypeOK' /\ ReadSoFar' /\ Reasons'
    BY <1>7, ReceiveKeeps
  <2> QED
    BY <1>7, <2>1 DEF Receive, TypeOK, SentSoFar, Failures, SentAll, Descriptor,
                      DescriptorsAccounted
<1>8. CASE ReceiveEnd \/ AgainTimeout
  <2>1. Reasons'
    BY <1>8 DEF ReceiveEnd, AgainTimeout, kernel, Reasons
  <2> QED
    BY <1>8, <2>1 DEF ReceiveEnd, AgainTimeout, kernel, TypeOK, Places, SentSoFar,
                      Failures, SentAll, ReadSoFar, Descriptor, DescriptorsAccounted
<1>9. CASE ReceiveAgain \/ AgainThrows \/ ReceiveError
  BY <1>9 DEF ReceiveAgain, AgainThrows, ReceiveError, kernel, TypeOK, Places,
              SentSoFar, Failures, SentAll, ReadSoFar, Reasons, Descriptor,
              DescriptorsAccounted
<1>10. CASE Close
  <2>1. TypeOK' /\ SentAll' /\ Reasons'
    BY <1>10 DEF Close, TypeOK, Places, SentAll, Reasons
  <2>2. SentSoFar' /\ ReadSoFar'
    BY <1>10 DEF Close, SentSoFar, ReadSoFar, Failures, Positions
  <2>3. Descriptor'
    BY <1>10 DEF Close, Descriptor, DescriptorsAccounted, TypeOK
  <2> QED
    BY <2>1, <2>2, <2>3
<1>11. CASE Arrive \/ PeerCloses
  <2>1. TypeOK'
    BY <1>11 DEF Arrive, PeerCloses, TypeOK
  <2>2. ReadSoFar'
    BY <1>11 DEF Arrive, PeerCloses, ReadSoFar, TypeOK
  <2>3. Reasons'
    BY <1>11 DEF Arrive, PeerCloses, Connected, Reasons
  <2> QED
    BY <1>11, <2>1, <2>2, <2>3 DEF Arrive, PeerCloses, SentSoFar, Failures, SentAll,
                                   Descriptor, DescriptorsAccounted
<1>12. CASE UNCHANGED vars
  BY <1>12 DEF vars, TypeOK, SentSoFar, Failures, SentAll, ReadSoFar, Reasons,
               EndsWithTerminator, Descriptor, DescriptorsAccounted
<1> QED
  BY <1>1, <1>2, <1>3, <1>4, <1>5, <1>6, <1>7, <1>8, <1>9, <1>10, <1>11, <1>12
     DEF Next, RequestStep, SendStep, ReceiveStep, ReceiveThrows

(* All that is known of a request in progress: the inductive invariant. *)
THEOREM RequestInvariant == Spec => []IInv
  BY InitIInv, NextIInv, PTL DEF Spec

-----------------------------------------------------------------------------
(* By the time send() returns, the peer has been handed the whole message:  *)
(* each byte once and in order if no call of ::send has failed, and none    *)
(* left out in any case.                                                    *)
THEOREM MessageSent == Spec => []SentIsMessage
<1>1. IInv => SentIsMessage
  BY DEF IInv, SentSoFar, SentAll, SentIsMessage
<1> QED
  BY <1>1, RequestInvariant, PTL

(* recv() returns the bytes that it has read, in order, and only for one of *)
(* three reasons.                                                           *)
THEOREM ReceivesForAReason == Spec => []ReceivedForAReason
<1>1. IInv => ReceivedForAReason
  BY DEF IInv, ReadSoFar, Reasons, ReceivedForAReason
<1> QED
  BY <1>1, RequestInvariant, PTL

(* The one descriptor open is socket_, request after request. *)
THEOREM DescriptorsAreAccounted == Spec => []DescriptorsAccounted
<1>1. IInv => DescriptorsAccounted
  BY DEF IInv, Descriptor
<1> QED
  BY <1>1, RequestInvariant, PTL

-----------------------------------------------------------------------------
(* The transaction: the pool and the socket put together. *)

(* What each part does in a step of the whole. *)
LEMMA TransactionStep ==
  [TransactionNext]_transactionVars => [PoolNext]_poolVars /\ [Next]_vars
<1> SUFFICES ASSUME TransactionNext
             PROVE  [PoolNext]_poolVars /\ [Next]_vars
  BY DEF transactionVars
<1>1. CASE PoolStep
  BY <1>1 DEF PoolStep, PoolNext
<1>2. CASE \E t \in Threads : OtherRequest(t)
  BY <1>2 DEF OtherRequest, PoolNext
<1>3. CASE WatchedStep
  <2>1. PICK t \in Threads : RequestGoesOn(t) \/ RequestReturns(t) \/ RequestThrows(t)
    BY <1>3 DEF WatchedStep
  <2>2. CASE RequestGoesOn(t)
    BY <2>2 DEF RequestGoesOn, Next, RequestStep
  <2>3. CASE RequestReturns(t)
    BY <2>3 DEF RequestReturns, PoolNext, Next, RequestStep
  <2>4. CASE RequestThrows(t)
    BY <2>4 DEF RequestThrows, PoolNext, Next, RequestStep
  <2> QED
    BY <2>1, <2>2, <2>3, <2>4
<1>4. CASE PeerStep
  BY <1>4 DEF PeerStep, Next
<1> QED
  BY <1>1, <1>2, <1>3, <1>4 DEF TransactionNext

(* Put together, the pool does what HttpPool says, whatever happens at the  *)
(* sockets of its processors ...                                            *)
THEOREM TransactionIsPool == TransactionSpec => PoolSpec
<1>1. TransactionInit => PoolInit
  BY DEF TransactionInit
<1> QED
  BY <1>1, TransactionStep, PTL DEF TransactionSpec, PoolSpec

(* ... and the socket of any processor does what HttpSocket says, although  *)
(* one thread after the other performs its requests with it.                *)
THEOREM TransactionIsSocket == TransactionSpec => Spec
<1>1. TransactionInit => Init
  BY DEF TransactionInit
<1> QED
  BY <1>1, TransactionStep, PTL DEF TransactionSpec, Spec

(* Whoever is at the socket: a thread, as long as a request is under way;    *)
(* and where it threw, the processor is lost.  With the transaction the pool *)
(* is gone.                                                                  *)
AtSocket ==
  /\ (\A t \in Threads : at[t] = "gone") => processors = <<>>
  /\ pc \notin Nowhere => \E t \in Threads : Performing(t)
  /\ pc = "threw" => Watched \in lost

LEMMA AtSocketStep ==
  IndInv /\ AtSocket /\ [TransactionNext]_transactionVars => AtSocket'
<1> SUFFICES ASSUME IndInv, AtSocket, [TransactionNext]_transactionVars
             PROVE  AtSocket'
  OBVIOUS
<1> USE DEF AtSocket, Nowhere
<1>0. PoolTypeOK
  BY DEF IndInv, ExclusiveInv
<1>1. CASE PoolStep
  <2>1. lost' = lost /\ pc' = pc
    BY <1>1 DEF PoolStep, vars, Acquire, Release, AcquireLock, AcquireBack, AcquirePop,
                AcquireEmpty, AcquireNew, ReleaseLock, ReleasePush, Destroy
  <2>2. ASSUME NEW t \in Threads, Performing(t) PROVE Performing(t)'
    BY <1>0, <1>1, <2>2 DEF PoolStep, Performing, PoolTypeOK, Acquire, Release,
       AcquireLock, AcquireBack, AcquirePop, AcquireEmpty, AcquireNew, ReleaseLock,
       ReleasePush, Destroy
  <2>3. (\A t \in Threads : at'[t] = "gone") => processors' = <<>>
    BY <1>0, <1>1 DEF PoolStep, PoolTypeOK, Acquire, Release, AcquireLock, AcquireBack,
       AcquirePop, AcquireEmpty, AcquireNew, ReleaseLock, ReleasePush, Destroy
  <2> QED
    BY <2>1, <2>2, <2>3
<1>2. CASE \E u \in Threads : OtherRequest(u)
  <2>1. PICK u \in Threads : OtherRequest(u)
    BY <1>2
  <2>2. pc' = pc /\ lost \subseteq lost'
    BY <2>1 DEF OtherRequest, Perform, PerformThrows, vars
  <2>3. ASSUME NEW t \in Threads, Performing(t), pc \notin Nowhere
        PROVE  Performing(t)'
    BY <1>0, <2>1, <2>3 DEF OtherRequest, Spent, Perform, PerformThrows, Performing,
                            PoolTypeOK
  <2>4. \E t \in Threads : at'[t] # "gone"
    BY <1>0, <2>1 DEF OtherRequest, Perform, PerformThrows, PoolTypeOK
  <2> QED
    BY <2>2, <2>3, <2>4
<1>3. CASE WatchedStep
  <2>1. PICK t \in Threads : RequestGoesOn(t) \/ RequestReturns(t) \/ RequestThrows(t)
    BY <1>3 DEF WatchedStep
  <2>2. CASE RequestGoesOn(t)
    <3>1. Performing(t)' /\ processors' = processors /\ at' = at
      BY <2>2 DEF RequestGoesOn, Performing, poolVars
    <3>2. ASSUME Connect \/ ConnectAgain PROVE pc' # "threw"
      BY <3>2 DEF Connect, ConnectAgain, Connecting
    <3>3. ASSUME SendStep PROVE pc' # "threw"
      BY <3>3 DEF SendStep, SendSome, Sending, SendKills, SendFails, SendMovesBack,
                  SendDone
    <3>4. ASSUME ReceiveStep PROVE pc' # "threw"
      <4>1. ASSUME Receive PROVE pc' # "threw"
        <5>1. pc' = IF EndsWithTerminator(buffer)' THEN "parse" ELSE "recv"
          BY <4>1 DEF Receive
        <5> QED
          BY <5>1
      <4> QED
        BY <3>4, <4>1 DEF ReceiveStep, FirstWait, ReceiveEnd, ReceiveAgain, AgainTimeout
    <3> QED
      BY <2>2, <3>1, <3>2, <3>3, <3>4 DEF RequestGoesOn
  <2>3. CASE RequestReturns(t)
    <3>1. pc' = "idle" /\ at'[t] # "gone"
      BY <1>0, <2>3 DEF RequestReturns, Close, Perform, PoolTypeOK
    <3> QED
      BY <3>1
  <2>4. CASE RequestThrows(t)
    <3>1. pc' = "threw" /\ Watched \in lost' /\ at'[t] # "gone"
      BY <1>0, <2>4 DEF RequestThrows, ReceiveThrows, AgainThrows, ReceiveError,
                        PerformThrows, Performing, PoolTypeOK
    <3> QED
      BY <3>1
  <2> QED
    BY <2>1, <2>2, <2>3, <2>4
<1>4. CASE PeerStep
  BY <1>4 DEF PeerStep, Arrive, PeerCloses, Performing, poolVars
<1>5. CASE UNCHANGED transactionVars
  BY <1>5 DEF transactionVars, poolVars, vars, Performing
<1> QED
  BY <1>1, <1>2, <1>3, <1>4, <1>5 DEF TransactionNext

(* A socket is one thread's: nobody else has a processor that is performing *)
(* a request, and nobody gets one whose request threw.                      *)
THEOREM SocketIsOneThreads == TransactionSpec => []SocketIsOnes
<1>1. TransactionInit => AtSocket
  BY DEF TransactionInit, PoolInit, Init, AtSocket, Nowhere
<1>2. TransactionSpec => []IndInv
  BY TransactionIsPool, PoolInvariance, PTL
<1>3. TransactionSpec => []AtSocket
  BY <1>1, <1>2, AtSocketStep, PTL DEF TransactionSpec
<1>4. IndInv /\ AtSocket => SocketIsOnes
  <2> SUFFICES ASSUME IndInv, AtSocket PROVE SocketIsOnes
    OBVIOUS
  <2>1. ASSUME pc \notin Nowhere
        PROVE  \E t \in Threads :
                 /\ Performing(t)
                 /\ \A u \in Threads \ {t} : Using(u) => processor[u] # Watched
    BY <2>1 DEF AtSocket, IndInv, ExclusiveInv, ExclusiveUse, Performing, Using
  <2>2. ASSUME pc = "threw"
        PROVE  /\ Watched \notin Pooled
               /\ \A t \in Threads : Using(t) => processor[t] # Watched
    <3>1. CASE \A t \in Threads : at[t] = "gone"
      <4>1. Pooled = {}
        BY <3>1 DEF AtSocket, Pooled
      <4> QED
        BY <3>1, <4>1 DEF Using
    <3>2. CASE \E t \in Threads : at[t] # "gone"
      BY <2>2, <3>2 DEF AtSocket, IndInv, OwnedInv, InUse
    <3> QED
      BY <3>1, <3>2
  <2> QED
    BY <2>1, <2>2 DEF SocketIsOnes
<1> QED
  BY <1>2, <1>3, <1>4, PTL

(* The promises of the parts hold of the whole. *)
THEOREM TransactionKeepsPromises ==
  TransactionSpec =>
    [](ExclusiveUse /\ PoolBounded /\ NothingLeaks
         /\ SentIsMessage /\ ReceivedForAReason /\ DescriptorsAccounted)
  BY TransactionIsPool, TransactionIsSocket, Exclusive, Bounded, NoLeak, MessageSent,
     ReceivesForAReason, DescriptorsAreAccounted, PTL
=============================================================================
