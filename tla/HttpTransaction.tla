--------------------------- MODULE HttpTransaction ---------------------------
(***************************************************************************)
(* A transaction whose requests go over sockets: HttpPool and HttpSocket   *)
(* put together.  SimpleHttpRequest::doExecute (src/kwctoolkit/transport/  *)
(* simple_http_transaction.cc) calls performRequest of the processor that  *)
(* acquireProcessor gave it; of one processor, the watched one, that call  *)
(* is HttpSocket step by step, while the other threads go on.  Those of    *)
(* the others are single steps, as in HttpPool.                            *)
(*                                                                         *)
(* What a thread does in performRequest it does with the members of its    *)
(* processor and without the mutex: that no two threads do so with one     *)
(* processor is what the pool is for.                                      *)
(***************************************************************************)
EXTENDS HttpPool, HttpSocket

CONSTANT Watched        \* the processor whose socket is followed

ASSUME WatchedAssumption == Watched \in Processors

transactionVars == <<poolVars, vars>>

(* t is in performRequest of the watched processor. *)
Performing(t) == at[t] = "perform" /\ processor[t] = Watched

(* Requests beyond the bound are single steps as well. *)
Spent == requests = MaxRequests /\ pc = "idle"

-----------------------------------------------------------------------------
TransactionInit == PoolInit /\ Init

(* Steps of doExecute before and behind performRequest, and of the owner. *)
PoolStep ==
  /\ \/ \E t \in Threads : AcquireLock(t) \/ Acquire(t) \/ Release(t)
     \/ Destroy
  /\ UNCHANGED vars

(* performRequest of a processor that is not watched. *)
OtherRequest(t) ==
  /\ Performing(t) => Spent
  /\ Perform(t) \/ PerformThrows(t)
  /\ UNCHANGED vars

(* performRequest of the watched one: it calls connect(), sends, receives ... *)
RequestGoesOn(t) ==
  /\ Performing(t)
  /\ Connect \/ ConnectAgain \/ SendStep \/ ReceiveStep
  /\ UNCHANGED poolVars

(* ... and returns behind close(), or throws out of doExecute. *)
RequestReturns(t) == Performing(t) /\ Close /\ Perform(t)
RequestThrows(t) == Performing(t) /\ ReceiveThrows /\ PerformThrows(t)

WatchedStep ==
  \E t \in Threads : RequestGoesOn(t) \/ RequestReturns(t) \/ RequestThrows(t)

PeerStep == (Arrive \/ PeerCloses) /\ UNCHANGED poolVars

(* A process that is killed takes all threads along. *)
TransactionNext ==
  /\ pc # "killed"
  /\ \/ PoolStep
     \/ \E t \in Threads : OtherRequest(t)
     \/ WatchedStep
     \/ PeerStep

(* The thread in the watched processor runs on, as in HttpSocket. *)
TransactionSpec ==
  /\ TransactionInit
  /\ [][TransactionNext]_transactionVars
  /\ WF_transactionVars(pc # "idle" /\ WatchedStep)

-----------------------------------------------------------------------------
(* While a request is under way at the watched socket, exactly one thread  *)
(* is in performRequest of its processor, and no other is about to be; and *)
(* once a request has thrown, nobody ever gets that processor again, from  *)
(* the pool or otherwise, whose socket has stayed open.                    *)
SocketIsOnes ==
  /\ pc \notin Nowhere =>
       \E t \in Threads :
         /\ Performing(t)
         /\ \A u \in Threads \ {t} : Using(u) => processor[u] # Watched
  /\ pc = "threw" =>
       /\ Watched \notin Pooled
       /\ \A t \in Threads : Using(t) => processor[t] # Watched
=============================================================================
