------------------------------ MODULE HttpPool ------------------------------
(***************************************************************************)
(* SimpleHttpTransaction (src/kwctoolkit/transport/simple_http_            *)
(* transaction.cc): requests executed by several threads on one            *)
(* transaction share a pool of SimpleHttpProcessors.                       *)
(*                                                                         *)
(* SimpleHttpRequest::doExecute acquires a processor, performs the request *)
(* with it and releases it.  The pool is a vector used as a stack under    *)
(* mutex_; a new processor is made, outside the lock, when it was empty.   *)
(* performRequest may throw (parsing a response does: see HttpSocket and   *)
(* HttpProcessor), and then releaseProcessor is not reached.               *)
(***************************************************************************)
EXTENDS Integers, Sequences, FiniteSets

CONSTANTS
  Threads,
  Processors,           \* the processors that may ever be allocated
  NoThread,             \* holder of the free mutex
  NoProcessor           \* value of a thread's local before it has one

ASSUME ThreadsAssumption == IsFiniteSet(Threads) /\ NoThread \notin Threads
ASSUME ProcessorsAssumption == NoProcessor \notin Processors

VARIABLES
  mutex,                \* the holder of mutex_
  processors,           \* processors_, a stack whose top is the last element
  at,                   \* at[t]: where t is in doExecute
  processor,            \* processor[t]: doExecute's local variable
  created,              \* processors allocated so far
  deleted,              \* processors deleted by the destructor
  lost                  \* processors whose request ended in an exception

poolVars == <<mutex, processors, at, processor, created, deleted, lost>>

Labels == {"idle", "test", "pop", "new", "perform", "lock", "push", "gone"}

Top == processors[Len(processors)]
Pooled == {processors[i] : i \in 1..Len(processors)}

-----------------------------------------------------------------------------
PoolInit ==
  /\ mutex = NoThread
  /\ processors = <<>>
  /\ at = [t \in Threads |-> "idle"]
  /\ processor = [t \in Threads |-> NoProcessor]
  /\ created = {}
  /\ deleted = {}
  /\ lost = {}

(* Faulty variants, for the mutation runs: the lock is not waited for; a    *)
(* processor is made although the pool has one.                             *)
AcquireLockAlways(t) ==
  /\ at[t] = "idle"
  /\ mutex' = t
  /\ at' = [at EXCEPT ![t] = "test"]
  /\ UNCHANGED <<processors, processor, created, deleted, lost>>

AcquireEmptyAlways(t) ==
  /\ at[t] = "test"
  /\ mutex' = NoThread
  /\ at' = [at EXCEPT ![t] = "new"]
  /\ UNCHANGED <<processors, processor, created, deleted, lost>>

(* acquireProcessor: the lock_guard is constructed. *)
AcquireLock(t) ==
  /\ at[t] = "idle"
  /\ mutex = NoThread
  /\ mutex' = t
  /\ at' = [at EXCEPT ![t] = "test"]
  /\ UNCHANGED <<processors, processor, created, deleted, lost>>

(* The pool has a processor: its top is read ... *)
AcquireBack(t) ==
  /\ at[t] = "test"
  /\ processors # <<>>
  /\ processor' = [processor EXCEPT ![t] = Top]
  /\ at' = [at EXCEPT ![t] = "pop"]
  /\ UNCHANGED <<mutex, processors, created, deleted, lost>>

(* ... and removed, and the lock_guard goes out of scope. *)
AcquirePop(t) ==
  /\ at[t] = "pop"
  /\ processors' = SubSeq(processors, 1, Len(processors) - 1)
  /\ mutex' = NoThread
  /\ at' = [at EXCEPT ![t] = "perform"]
  /\ UNCHANGED <<processor, created, deleted, lost>>

(* The pool is empty: the lock is given up before `new'. *)
AcquireEmpty(t) ==
  /\ at[t] = "test"
  /\ processors = <<>>
  /\ mutex' = NoThread
  /\ at' = [at EXCEPT ![t] = "new"]
  /\ UNCHANGED <<processors, processor, created, deleted, lost>>

AcquireNew(t) ==
  /\ at[t] = "new"
  /\ \E p \in Processors \ created :
       /\ created' = created \cup {p}
       /\ processor' = [processor EXCEPT ![t] = p]
  /\ at' = [at EXCEPT ![t] = "perform"]
  /\ UNCHANGED <<mutex, processors, deleted, lost>>

(* performRequest returns. *)
Perform(t) ==
  /\ at[t] = "perform"
  /\ at' = [at EXCEPT ![t] = "lock"]
  /\ UNCHANGED <<mutex, processors, processor, created, deleted, lost>>

(* performRequest throws out of doExecute: the processor is not released.  *)
PerformThrows(t) ==
  /\ at[t] = "perform"
  /\ lost' = lost \cup {processor[t]}
  /\ processor' = [processor EXCEPT ![t] = NoProcessor]
  /\ at' = [at EXCEPT ![t] = "idle"]
  /\ UNCHANGED <<mutex, processors, created, deleted>>

(* releaseProcessor. *)
ReleaseLock(t) ==
  /\ at[t] = "lock"
  /\ mutex = NoThread
  /\ mutex' = t
  /\ at' = [at EXCEPT ![t] = "push"]
  /\ UNCHANGED <<processors, processor, created, deleted, lost>>

(* Faulty variant: the processor is forgotten. *)
ReleaseForgets(t) ==
  /\ at[t] = "push"
  /\ processor' = [processor EXCEPT ![t] = NoProcessor]
  /\ mutex' = NoThread
  /\ at' = [at EXCEPT ![t] = "idle"]
  /\ UNCHANGED <<processors, created, deleted, lost>>

ReleasePush(t) ==
  /\ at[t] = "push"
  /\ processors' = Append(processors, processor[t])
  /\ processor' = [processor EXCEPT ![t] = NoProcessor]
  /\ mutex' = NoThread
  /\ at' = [at EXCEPT ![t] = "idle"]
  /\ UNCHANGED <<created, deleted, lost>>

(* ~SimpleHttpTransaction: the owner destroys the transaction when no      *)
(* request is being executed, and nobody uses it afterwards.               *)
Destroy ==
  /\ \A t \in Threads : at[t] = "idle"
  /\ deleted' = Pooled
  /\ processors' = <<>>
  /\ at' = [t \in Threads |-> "gone"]
  /\ UNCHANGED <<mutex, processor, created, lost>>

Acquire(t) ==
  AcquireBack(t) \/ AcquirePop(t) \/ AcquireEmpty(t) \/ AcquireNew(t)
Release(t) == ReleaseLock(t) \/ ReleasePush(t)

PoolNext ==
  \/ \E t \in Threads :
       \/ AcquireLock(t) \/ Acquire(t)
       \/ Perform(t) \/ PerformThrows(t)
       \/ Release(t)
  \/ Destroy

PoolSpec == PoolInit /\ [][PoolNext]_poolVars

-----------------------------------------------------------------------------
Using(t) == at[t] \in {"perform", "lock", "push"}
Active == {t \in Threads : at[t] \in {"new", "perform", "lock", "push"}}

(* The types of all variables. *)
PoolTypeOK ==
  /\ mutex \in Threads \cup {NoThread}
  /\ processors \in Seq(Processors)
  /\ at \in [Threads -> Labels]
  /\ processor \in [Threads -> Processors \cup {NoProcessor}]
  /\ created \in SUBSET Processors
  /\ deleted \in SUBSET Processors
  /\ lost \in SUBSET Processors

(* "The caller has exclusive use of the given processor until              *)
(* releaseProcessor() is called": no two threads perform a request with    *)
(* the same processor, and the pool neither offers one that is in use nor  *)
(* offers one twice.                                                       *)
ExclusiveUse ==
  /\ \A t, u \in Threads :
       Using(t) /\ Using(u) /\ t # u => processor[t] # processor[u]
  /\ \A t \in Threads : Using(t) => processor[t] \notin Pooled
  /\ \A i, j \in 1..Len(processors) :
       processors[i] = processors[j] => i = j

(* The pool does not grow beyond the threads that ever ran at once: it and *)
(* the processors in use or about to be made never exceed their number.    *)
PoolBounded == Len(processors) + Cardinality(Active) <= Cardinality(Threads)

(* Destroying the transaction frees every processor ever made, except      *)
(* those whose request threw.                                              *)
NothingLeaks ==
  (\E t \in Threads : at[t] = "gone") => deleted = created \ lost
=============================================================================
