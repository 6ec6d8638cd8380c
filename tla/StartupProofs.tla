---------------------------- MODULE StartupProofs ----------------------------
(***************************************************************************)
(* How a program starts, for any command line, any number of threads and   *)
(* executors, and integers of any width.                                   *)
(*                                                                         *)
(* What a thread has read stays as it was because of where main is while   *)
(* there are threads (StartupInv): it fills the list before it starts one, *)
(* and deletes an executor after it has joined the last.  The walk over    *)
(* the flags is followed by where the arguments that are left in argv came *)
(* from, and by which of those that it has passed was the last to count    *)
(* (WalkInv).  What is left in argv at the end is what a client reads: its *)
(* flags (ClientFlagsInv), its CommandLine (PassInv, HeldInv), and what    *)
(* initializeInstance is told from that (ToldInv).                         *)
(*                                                                         *)
(* The walks over a list that are folds in the model are reasoned about    *)
(* through the sequence of their intermediate results; a statement about   *)
(* all of these is proved by the first place where it would be false.      *)
(***************************************************************************)
EXTENDS Startup, SequenceTheorems, WellFoundedInduction, TLAPS

(* Where main is while there are no threads yet.                            *)
Before == {"flags", "client", "initialize", "publish", "exited", "terminated"}

(* The threads, and where main is while there are any. *)
ThreadsInv ==
  /\ at \in Before \union {"running", "stopping", "undefined", "ended"}
  /\ thread_ \in [Threads -> {"none", "thread", "no thread"}]
  /\ run \in [Threads -> {"none", "feature", "lookup", "executor", "add", "ended"}]
  /\ at \in Before \union {"ended"} => \A t \in Threads : thread_[t] = "none"
  /\ at \in Before => \A t \in Threads : run[t] = "none"
  /\ \A t \in Threads : thread_[t] # "thread" => run[t] \in {"none", "ended"}

(* The instance changes before there are threads only, and is published    *)
(* when it is complete.                                                    *)
FeaturesInv ==
  /\ DOMAIN seen = Threads
  /\ DOMAIN answer = Threads
  /\ instance.exists => instance.initialized
  /\ at = "publish" => "initialized" \in DOMAIN building
  /\ \A t \in Threads :
       /\ run[t] = "lookup" => seen[t] = instance
       /\ run[t] \in {"executor", "add", "ended"} =>
            answer[t] = {f \in Features : isEnabled(instance, f)}

(* A default is there when the once_flag is done, and only then is it set   *)
(* to another.  Nothing is deleted before main has ended.                   *)
ExecutorsInv ==
  /\ DOMAIN using = Threads
  /\ restored \in BOOLEAN
  /\ at \in Before => own = NoExecutor
  /\ own # NoExecutor => module_init = "done"
  /\ module_init = "done" => default_executor # NoExecutor
  /\ own # NoExecutor /\ ~restored => default_executor = own
  /\ deleted # {} => at = "ended"
  /\ \A t \in Threads : run[t] = "add" => using[t] # NoExecutor

StartupInv == ThreadsInv /\ FeaturesInv /\ ExecutorsInv

LEMMA InitStartup == Init => StartupInv
<1> SUFFICES ASSUME Init PROVE StartupInv
  OBVIOUS
<1>1. ThreadsInv
  BY DEF Init, ThreadsInv, Before
<1>2. FeaturesInv
  BY DEF Init, FeaturesInv, NoList
<1>3. ExecutorsInv
  BY DEF Init, ExecutorsInv, NoExecutor
<1> QED
  BY <1>1, <1>2, <1>3 DEF StartupInv

LEMMA NextStartup == StartupInv /\ [Next]_vars => StartupInv'
<1> SUFFICES ASSUME StartupInv, [Next]_vars PROVE StartupInv'
  OBVIOUS
<1> USE DEF StartupInv
<1>1. CASE TakeFlag \/ SkipArgument \/ MakeCommandLine \/ AppendSwitch \/ AppendArg
  <2>1. UNCHANGED <<features, executors, threads>>
    BY <1>1 DEF TakeFlag, SkipArgument, MakeCommandLine, AppendSwitch, AppendArg
  <2>2. at \in Before /\ at' \in Before /\ at' # "publish"
    BY <1>1 DEF TakeFlag, SkipArgument, MakeCommandLine, AppendSwitch, AppendArg, Before
  <2>3. ThreadsInv'
    BY <2>1, <2>2 DEF threads, ThreadsInv
  <2>4. FeaturesInv'
    BY <2>1, <2>2 DEF features, threads, FeaturesInv, isEnabled
  <2>5. ExecutorsInv'
    BY <2>1, <2>2 DEF executors, threads, ExecutorsInv, Before
  <2> QED
    BY <2>3, <2>4, <2>5
<1>2. CASE DeleteInstance \/ FillList \/ SetInstance
  <2>1. UNCHANGED <<executors, threads>>
    BY <1>2 DEF DeleteInstance, FillList, SetInstance
  <2>2. at \in Before /\ at' \in Before
    BY <1>2 DEF DeleteInstance, FillList, SetInstance, Before
  <2>3. ThreadsInv'
    BY <2>1, <2>2 DEF threads, ThreadsInv
  <2>4. \A t \in Threads : run'[t] = "none"
    BY <2>1, <2>2 DEF threads, ThreadsInv
  <2>5. instance'.exists => instance'.initialized
    <3>1. CASE DeleteInstance
      BY <3>1 DEF DeleteInstance, NoList
    <3>2. CASE FillList
      BY <3>2 DEF FillList, FeaturesInv
    <3>3. CASE SetInstance
      BY <3>3 DEF SetInstance, FeaturesInv
    <3> QED
      BY <1>2, <3>1, <3>2, <3>3
  <2>6. at' = "publish" => "initialized" \in DOMAIN building'
    <3>1. CASE DeleteInstance
      BY <3>1 DEF DeleteInstance
    <3>2. CASE FillList
      BY <3>2 DEF FillList, initializeFromCommandLine
    <3>3. CASE SetInstance
      BY <3>3 DEF SetInstance
    <3> QED
      BY <1>2, <3>1, <3>2, <3>3
  <2>7. FeaturesInv'
    BY <2>1, <2>4, <2>5, <2>6 DEF threads, FeaturesInv
  <2>8. ExecutorsInv'
    BY <2>1, <2>2 DEF executors, threads, ExecutorsInv, Before
  <2> QED
    BY <2>3, <2>7, <2>8
<1>3. CASE \E t \in Threads : Start(t)
  <2> PICK t \in Threads : Start(t)
    BY <1>3
  <2>1. ThreadsInv'
    BY DEF Start, ThreadsInv, Before
  <2>2. FeaturesInv'
    BY ZenonT(60) DEF Start, features, FeaturesInv, ThreadsInv, isEnabled
  <2>3. ExecutorsInv'
    BY DEF Start, executors, ExecutorsInv, ThreadsInv, Before
  <2> QED
    BY <2>1, <2>2, <2>3
<1>4. CASE \E t \in Threads : Stop(t)
  <2> PICK t \in Threads : Stop(t)
    BY <1>4
  <2>1. ThreadsInv'
    BY DEF Stop, ThreadsInv, Before
  <2>2. FeaturesInv'
    BY DEF Stop, features, FeaturesInv, isEnabled
  <2>3. ExecutorsInv'
    BY DEF Stop, executors, ExecutorsInv, Before
  <2> QED
    BY <2>1, <2>2, <2>3
<1>5. CASE MainEntersOnce \/ MainInitModule \/ SetDefaultExecutor
  <2>1. UNCHANGED <<at, features, threads>> /\ at = "running"
    BY <1>5 DEF MainEntersOnce, MainInitModule, SetDefaultExecutor, ClientAtExecutors
  <2>2. ThreadsInv'
    BY <2>1 DEF threads, ThreadsInv
  <2>3. FeaturesInv'
    BY <2>1 DEF features, threads, FeaturesInv, isEnabled
  <2>4. ExecutorsInv'
    <3>1. CASE MainEntersOnce
      BY <2>1, <3>1
         DEF MainEntersOnce, ClientAtExecutors, EnterOnce, threads, ExecutorsInv
    <3>2. CASE MainInitModule
      BY <2>1, <3>2
         DEF MainInitModule, InitModule, threads, ExecutorsInv, Inline, NoExecutor
    <3>3. CASE SetDefaultExecutor
      BY <2>1, <3>3, ExecutorsAssumption
         DEF SetDefaultExecutor, ClientAtExecutors, threads, ExecutorsInv, Before
    <3> QED
      BY <1>5, <3>1, <3>2, <3>3
  <2> QED
    BY <2>2, <2>3, <2>4
<1>6. CASE RestoreExecutor \/ Finish
  <2>1. UNCHANGED <<features, threads>> /\ at = "stopping"
    BY <1>6 DEF RestoreExecutor, Finish
  <2>2. ThreadsInv'
    BY <1>6, <2>1 DEF RestoreExecutor, Finish, threads, ThreadsInv, Before
  <2>3. FeaturesInv'
    BY <1>6, <2>1 DEF RestoreExecutor, Finish, features, threads, FeaturesInv, isEnabled
  <2>4. ExecutorsInv'
    <3>1. CASE RestoreExecutor
      BY <2>1, <3>1
         DEF RestoreExecutor, threads, ExecutorsInv, Before, Inline, NoExecutor
    <3>2. CASE Finish
      BY <2>1, <3>2 DEF Finish, threads, ExecutorsInv, Before
    <3> QED
      BY <1>6, <3>1, <3>2
  <2> QED
    BY <2>2, <2>3, <2>4
<1>7. CASE \E t \in Threads : Run(t)
  <2> PICK t \in Threads : Run(t)
    BY <1>7
  <2>1. UNCHANGED <<at, features>>
    BY DEF Run, ReadInstance, LookUp, ThreadEntersOnce, ThreadInitModule, DefaultExecutor, Add
  <2>2. at \notin Before /\ thread_[t] = "thread" /\ thread_' = thread_
    BY DEF Run, ReadInstance, LookUp, ThreadEntersOnce, ThreadInitModule, DefaultExecutor, Add,
           ThreadsInv, threads
  <2>3. ThreadsInv'
    <3>1. run' \in [Threads -> {"none", "feature", "lookup", "executor", "add", "ended"}]
      BY DEF Run, ReadInstance, LookUp, ThreadEntersOnce, ThreadInitModule, DefaultExecutor,
             Add, ThreadsInv, threads
    <3>2. \A u \in Threads \ {t} : run'[u] = run[u]
      BY DEF Run, ReadInstance, LookUp, ThreadEntersOnce, ThreadInitModule, DefaultExecutor,
             Add, ThreadsInv, threads
    <3> QED
      BY <2>1, <2>2, <3>1, <3>2 DEF ThreadsInv
  <2>4. CASE ReadInstance(t)
    <3>1. FeaturesInv'
      BY <2>1, <2>4, ZenonT(60) DEF ReadInstance, features, FeaturesInv, ThreadsInv, isEnabled
    <3>2. ExecutorsInv'
      BY <2>1, <2>4 DEF ReadInstance, executors, ExecutorsInv, ThreadsInv
    <3> QED
      BY <2>3, <3>1, <3>2
  <2>5. CASE LookUp(t)
    <3>1. FeaturesInv'
      <4> DEFINE Enabled(list) == {f \in Features : isEnabled(list, f)}
      <4>1. answer' = [answer EXCEPT ![t] = Enabled(seen[t])] /\ seen[t] = instance
        BY <2>5 DEF LookUp, FeaturesInv
      <4>2. /\ UNCHANGED <<at, instance, building, seen>>
            /\ run' = [run EXCEPT ![t] = "executor"]
        BY <2>1, <2>5 DEF LookUp, features
      <4>3. \A u \in Threads : run[u] \in {"executor", "add", "ended"} =>
                                  answer[u] = Enabled(instance)
        BY DEF FeaturesInv
      <4> HIDE DEF Enabled
      <4>4. DOMAIN answer' = Threads /\ answer'[t] = Enabled(instance)
        BY <4>1 DEF FeaturesInv
      <4>5. \A u \in Threads : run'[u] \in {"executor", "add", "ended"} =>
                                  answer'[u] = Enabled(instance)
        BY <4>1, <4>2, <4>3, <4>4 DEF ThreadsInv, FeaturesInv
      <4>6. \A u \in Threads : run'[u] = "lookup" => seen'[u] = instance'
        BY <4>2 DEF ThreadsInv, FeaturesInv
      <4> QED
        BY <4>2, <4>4, <4>5, <4>6 DEF FeaturesInv, Enabled
    <3>2. ExecutorsInv'
      BY <2>1, <2>5 DEF LookUp, executors, ExecutorsInv, ThreadsInv
    <3> QED
      BY <2>3, <3>1, <3>2
  <2>6. CASE ThreadEntersOnce(t) \/ ThreadInitModule(t)
    <3>1. UNCHANGED threads
      BY <2>6 DEF ThreadEntersOnce, ThreadInitModule
    <3>2. FeaturesInv'
      BY <2>1, <3>1 DEF features, threads, FeaturesInv, isEnabled
    <3>3. ExecutorsInv'
      <4>1. CASE ThreadEntersOnce(t)
        BY <2>1, <3>1, <4>1, ThreadsAssumption
           DEF ThreadEntersOnce, EnterOnce, threads, ExecutorsInv
      <4>2. CASE ThreadInitModule(t)
        BY <2>1, <3>1, <4>2, ThreadsAssumption
           DEF ThreadInitModule, InitModule, threads, ExecutorsInv, Inline, NoExecutor
      <4> QED
        BY <2>6, <4>1, <4>2
    <3> QED
      BY <2>3, <3>2, <3>3
  <2>7. CASE DefaultExecutor(t)
    <3>1. FeaturesInv'
      BY <2>1, <2>7, ZenonT(60) DEF DefaultExecutor, features, FeaturesInv, ThreadsInv, isEnabled
    <3>2. ExecutorsInv'
      BY <2>1, <2>7 DEF DefaultExecutor, executors, ExecutorsInv, ThreadsInv
    <3> QED
      BY <2>3, <3>1, <3>2
  <2>8. CASE Add(t)
    <3>1. FeaturesInv'
      BY <2>1, <2>8, ZenonT(60) DEF Add, features, FeaturesInv, ThreadsInv, isEnabled
    <3>2. ExecutorsInv'
      BY <2>1, <2>8 DEF Add, executors, ExecutorsInv, ThreadsInv
    <3> QED
      BY <2>3, <3>1, <3>2
  <2> QED
    BY <2>4, <2>5, <2>6, <2>7, <2>8 DEF Run
<1>8. CASE UNCHANGED vars
  <2>1. UNCHANGED <<at, features, executors, threads>>
    BY <1>8 DEF vars
  <2> QED
    BY <2>1
       DEF features, executors, threads, ThreadsInv, FeaturesInv, ExecutorsInv,
           isEnabled
<1> QED
  BY <1>1, <1>2, <1>3, <1>4, <1>5, <1>6, <1>7, <1>8 DEF Next, Main

(* Threads run while main is between the features and the deletion of what *)
(* they use; the once_flag is done only when there is a default.            *)
THEOREM StartupInvariant == Spec => []StartupInv
<1> QED
  BY InitStartup, NextStartup, PTL DEF Spec

(* No thread uses a list of features that has been deleted or is not        *)
(* complete, nor an executor that is none or has been deleted; and a        *)
(* default that the client has set stays until it is put back: for any      *)
(* number of threads and executors, in whatever order the threads come to   *)
(* call_once and the client to setDefaultExecutor (thread.cc, executor.cc,  *)
(* feature_list.cc).                                                        *)
THEOREM ThreadsUseWhatIsAlive == Spec => []ThreadsUseLive
<1>1. StartupInv => ThreadsUseLive
  <2> SUFFICES ASSUME StartupInv PROVE ThreadsUseLive
    OBVIOUS
  <2> USE DEF StartupInv
  <2>1. deleted # {} => \A t \in Threads : run[t] \in {"none", "ended"}
    BY DEF ThreadsInv, ExecutorsInv
  <2>2. \A t \in Threads : run[t] = "add" => using[t] \notin deleted \union {NoExecutor}
    BY <2>1 DEF ExecutorsInv
  <2>3. \A t \in Threads : /\ run[t] = "lookup" => seen[t] = instance
                           /\ run[t] = "lookup" /\ seen[t].exists => seen[t].initialized
    BY DEF FeaturesInv
  <2> QED
    BY <2>1, <2>2, <2>3 DEF ThreadsUseLive, ExecutorsInv
<1> QED
  BY <1>1, StartupInvariant, PTL

-----------------------------------------------------------------------------
(* ParseInt32Flag reads exactly the numbers that an int32 can be, of a flag *)
(* that has a value.                                                        *)
IsVerbosity(text) == ~text.blanks /\ text.dashes = 2 /\ text.name = <<"v">>
Reads(text) == ParseInt32Flag(text, <<"v">>)

LEMMA Remainder ==
  ASSUME NEW m \in Nat, m > 0, NEW n \in Int
  PROVE  n % m = n <=> n \in 0..(m - 1)
<1>1. n % m \in 0..(m - 1)
  OBVIOUS
<1>2. n \in 0..(m - 1) => n % m = n
  OBVIOUS
<1> QED
  BY <1>1, <1>2

LEMMA Narrowing ==
  ASSUME NEW n \in Int
  PROVE  LET l == strtol(n)
         IN /\ (l \notin {LongMin, LongMax} /\ AsInt32(l) = l)
                 <=> n \in -(2 ^ (IntBits - 1)) .. 2 ^ (IntBits - 1) - 1
            /\ n \in -(2 ^ (IntBits - 1)) .. 2 ^ (IntBits - 1) - 1 => l = n
<1> PICK H \in Nat : H = 2 ^ (IntBits - 1) /\ H > 0
  BY PowersAssumption
<1> PICK L \in Nat : L = 2 ^ (LongBits - 1) /\ L >= 2 * H
  BY PowersAssumption
<1>1. 2 ^ IntBits = 2 * H
  BY PowersAssumption
<1>2. LongMin = -L /\ LongMax = L - 1
  BY DEF LongMin, LongMax
<1> PICK l : l = strtol(n)
  OBVIOUS
<1>3. l = IF n < -L THEN -L ELSE IF n > L - 1 THEN L - 1 ELSE n
  BY <1>2 DEF strtol
<1>4. l \in Int
  BY <1>3
<1>5. AsInt32(l) = l <=> l \in (-H)..(H - 1)
  <2>1. AsInt32(l) = ((l + H) % (2 * H)) - H
    BY <1>1 DEF AsInt32
  <2>2. (l + H) % (2 * H) = l + H <=> l + H \in 0..(2 * H - 1)
    BY <1>4, Remainder
  <2>3. (l + H) % (2 * H) \in Int
    BY <1>4
  <2> QED
    BY <1>4, <2>1, <2>2, <2>3
<1>6. n \in (-H)..(H - 1) <=> l \notin {-L, L - 1} /\ l \in (-H)..(H - 1)
  BY <1>3
<1>7. n \in (-H)..(H - 1) => l = n
  BY <1>3
<1> QED
  BY <1>2, <1>5, <1>6, <1>7, Zenon

LEMMA Words ==
  ASSUME NEW r, NEW s
  PROVE  /\ <<r>> = <<s>> => r = s
         /\ <<" ", r>> = <<" ", s>> => r = s
         /\ <<r>> # <<" ", s>>
         /\ <<s>> # <<>> /\ Head(<<s>>) = s
         /\ <<" ", s>> # <<>> /\ Head(<<" ", s>>) = " " /\ Tail(<<" ", s>>) = <<s>>
<1>1. <<r>> = <<s>> => r = s
  OBVIOUS
<1>2. <<" ", r>> = <<" ", s>> => r = s
  OBVIOUS
<1>3. <<r>> # <<" ", s>>
  <2>1. Len(<<r>>) = 1 /\ Len(<<" ", s>>) = 2
    OBVIOUS
  <2> QED
    BY <2>1
<1>4. <<s>> # <<>> /\ Head(<<s>>) = s
  OBVIOUS
<1>5. <<" ", s>> # <<>> /\ Head(<<" ", s>>) = " "
  OBVIOUS
<1>6. Tail(<<" ", s>>) = <<s>>
  OBVIOUS
<1> QED
  BY <1>1, <1>2, <1>3, <1>4, <1>5, <1>6

LEMMA TwoWords ==
  ASSUME NEW S, NEW value \in Seq(S), value # <<>>, Len(Tail(value)) = 1
  PROVE  value = <<Head(value), Tail(value)[1]>>
<1>1. Len(value) = 2 /\ value[1] = Head(value)
  OBVIOUS
<1>2. value[2] = Tail(value)[1]
  BY <1>1
<1> QED
  BY <1>1, <1>2

LEMMA NumbersAre ==
  ASSUME NEW text, text.value \in Seq(Range(text.value)), text.equals
  PROVE  \/ \E n \in Int : /\ Consumed(text.value) /\ Written(text.value) = n
                          /\ Numbers(text) = {n}
         \/ ~Consumed(text.value) /\ Numbers(text) = {}
<1> PICK value : value = text.value
  OBVIOUS
<1>1. CASE value = <<>>
  <2>1. Digits(value) = <<>>
    BY <1>1 DEF Digits
  <2>2. \A s : <<>> # <<s>>
    OBVIOUS
  <2>3. Consumed(value) /\ Written(value) = 0 /\ Numbers(text) = {0}
    BY <1>1, <2>1, <2>2, Zenon DEF Consumed, Written, Numbers
  <2>4. 0 \in Int
    OBVIOUS
  <2> QED
    BY <2>3, <2>4, Zenon
<1>2. CASE value # <<>> /\ \E s \in DOMAIN Numeral : value \in {<<s>>, <<" ", s>>}
  <2> PICK s \in DOMAIN Numeral : value \in {<<s>>, <<" ", s>>}
    BY <1>2
  <2>1. s # " " /\ Numeral[s] \in Int
    BY NumeralAssumption
  <2>2. Digits(value) = <<s>>
    <3>1. CASE value = <<s>>
      BY <2>1, <3>1, Words, Zenon DEF Digits
    <3>2. CASE value = <<" ", s>>
      BY <3>2, Words, Zenon DEF Digits
    <3> QED
      BY <3>1, <3>2
  <2>3. Consumed(value) /\ Written(value) = Numeral[s]
    <3>1. \E r \in DOMAIN Numeral : Digits(value) = <<r>>
      BY <2>2
    <3>2. Head(Digits(value)) = s
      BY <2>2, Words, Zenon
    <3> QED
      BY <3>1, <3>2, Zenon DEF Consumed, Written
  <2>4. \A r \in DOMAIN Numeral : value \in {<<r>>, <<" ", r>>} => r = s
    <3> SUFFICES ASSUME NEW r \in DOMAIN Numeral, value \in {<<r>>, <<" ", r>>}
                 PROVE  r = s
      OBVIOUS
    <3>1. value = <<r>> \/ value = <<" ", r>>
      OBVIOUS
    <3>2. value = <<s>> \/ value = <<" ", s>>
      OBVIOUS
    <3>3. <<r>> # <<" ", s>> /\ <<s>> # <<" ", r>>
      BY Words
    <3>4. CASE value = <<r>> /\ value = <<s>>
      BY <3>4, Words
    <3>5. CASE value = <<" ", r>> /\ value = <<" ", s>>
      BY <3>5, Words
    <3> QED
      BY <3>1, <3>2, <3>3, <3>4, <3>5, Zenon
  <2>5. Numbers(text) = {Numeral[r] : r \in {r \in DOMAIN Numeral :
                                                value \in {<<r>>, <<" ", r>>}}}
    BY <1>2, Zenon DEF Numbers
  <2>6. Numbers(text) = {Numeral[s]}
    BY <2>4, <2>5
  <2> QED
    BY <2>1, <2>3, <2>6, Zenon
<1>3. CASE value # <<>> /\ ~\E s \in DOMAIN Numeral : value \in {<<s>>, <<" ", s>>}
  <2>1. ~Consumed(value)
    <3> SUFFICES ASSUME NEW s \in DOMAIN Numeral, Digits(value) = <<s>> PROVE FALSE
      BY <1>3 DEF Consumed
    <3>1. CASE Head(value) = " "
      <4>1. Tail(value) = <<s>>
        BY <1>3, <3>1, Zenon DEF Digits
      <4>2. value \in Seq(Range(value)) /\ value # <<>>
        BY <1>3
      <4>3. value = <<" ", s>>
        <5>1. Len(<<s>>) = 1 /\ <<s>>[1] = s
          OBVIOUS
        <5>2. Len(Tail(value)) = 1 /\ Tail(value)[1] = s
          BY <4>1, <5>1, Zenon
        <5>3. value = <<Head(value), Tail(value)[1]>>
          BY <4>2, <5>2, TwoWords
        <5> QED
          BY <3>1, <5>2, <5>3, Zenon
      <4> QED
        BY <1>3, <4>3
    <3>2. CASE Head(value) # " "
      BY <1>3, <3>2, Zenon DEF Digits
    <3> QED
      BY <3>1, <3>2
  <2>2. Numbers(text) = {}
    BY <1>3 DEF Numbers
  <2> QED
    BY <2>1, <2>2
<1> QED
  BY <1>1, <1>2, <1>3

LEMMA ReadsInt32s ==
  ASSUME NEW text, text.value \in Seq(Range(text.value)), text.equals \in BOOLEAN
  PROVE  /\ IsVerbosity(text) => Reads(text) = Int32s(text)
         /\ ~IsVerbosity(text) => Reads(text) = {}
         /\ Int32s(text) # {} => \E v : Int32s(text) = {v}
<1> PICK value : value = text.value
  OBVIOUS
<1> DEFINE Width == -(2 ^ (IntBits - 1)) .. 2 ^ (IntBits - 1) - 1
<1>1. ~IsVerbosity(text) => Reads(text) = {}
  BY DEF IsVerbosity, Reads, ParseInt32Flag, ParseFlagValue
<1>2. CASE ~text.equals
  <2>1. Int32s(text) = {}
    BY <1>2 DEF Int32s, Numbers
  <2>2. Reads(text) = {}
    BY <1>2 DEF Reads, ParseInt32Flag, ParseFlagValue
  <2> QED
    BY <1>1, <2>1, <2>2
<1>3. CASE text.equals
  <2>1. IsVerbosity(text) => Reads(text) = ParseInt32(value)
    BY <1>3 DEF IsVerbosity, Reads, ParseInt32Flag, ParseFlagValue
  <2>2. CASE \E n \in Int : Consumed(value) /\ Written(value) = n /\ Numbers(text) = {n}
    <3> PICK n \in Int : Consumed(value) /\ Written(value) = n /\ Numbers(text) = {n}
      BY <2>2
    <3>1. ParseInt32(value) = IF n \in Width THEN {n} ELSE {}
      BY Narrowing DEF ParseInt32
    <3>2. Int32s(text) = IF n \in Width THEN {n} ELSE {}
      BY DEF Int32s
    <3> QED
      BY <1>1, <2>1, <3>1, <3>2
  <2>3. CASE ~Consumed(value) /\ Numbers(text) = {}
    <3>1. ParseInt32(value) = {} /\ Int32s(text) = {}
      BY <2>3 DEF ParseInt32, Int32s
    <3> QED
      BY <1>1, <2>1, <3>1
  <2> QED
    BY <1>3, <2>2, <2>3, NumbersAre
<1> QED
  BY <1>2, <1>3

-----------------------------------------------------------------------------
(* ParseCmdLineFlags' walk.  So many arguments has it looked at.            *)
LookedAt == (idx - 1) + (Len(given) + 1 - argc)
IsHelp(text) == IsFlag(text, <<"help">>)

(* Of the first n arguments, the last that is a verbosity counts.           *)
VerbosityOf(n) ==
  \/ verbosity = INFO /\ \A i \in 1..n : Reads(given[i]) = {}
  \/ \E i \in 1..n : /\ verbosity \in Reads(given[i])
                     /\ \A j \in (i + 1)..n : Reads(given[j]) = {}

(* What is left of argv is the rest of the arguments, wherever the walk has *)
(* moved them to.                                                           *)
WalkInv ==
  /\ given \in CommandLines
  /\ DOMAIN argv = 1..(Len(given) + 1)
  /\ argc \in 1..(Len(given) + 1) /\ idx \in 1..argc
  /\ at = "flags" =>
       \A i \in (idx + 1)..argc : argv[i] = given[(i - 1) + (Len(given) + 1 - argc)]
  /\ \A i \in 1..LookedAt : ~IsHelp(given[i])
  /\ VerbosityOf(LookedAt)
  /\ at = "exited" => LookedAt < Len(given) /\ IsHelp(given[LookedAt + 1])
  /\ at \notin {"flags", "exited"} => LookedAt = Len(given)

LEMMA GivenIs ==
  ASSUME given \in CommandLines
  PROVE  /\ Len(given) \in Nat /\ DOMAIN given = 1..Len(given)
         /\ \A i \in 1..Len(given) : /\ given[i].value \in Seq(Range(given[i].value))
                                     /\ given[i].equals \in BOOLEAN
<1>1. given \in Seq(Range(given))
  BY CommandLinesAssumption
<1>2. PICK S : given \in Seq(S)
  BY <1>1
<1>3. Len(given) \in Nat /\ DOMAIN given = 1..Len(given)
  BY <1>2
<1>4. ASSUME NEW i \in 1..Len(given)
      PROVE  given[i].value \in Seq(Range(given[i].value)) /\ given[i].equals \in BOOLEAN
  <2> PICK text : text = given[i]
    OBVIOUS
  <2>1. IsText(text)
    BY <1>3, CommandLinesAssumption
  <2> PICK N, V : N = Seq(Range(text.name)) /\ V = Seq(Range(text.value))
    OBVIOUS
  <2>2. text \in [dashes : 0..2, name : N, equals : BOOLEAN, value : V, blanks : BOOLEAN]
    BY <2>1, Zenon DEF IsText
  <2>3. text.value \in V /\ text.equals \in BOOLEAN
    BY <2>2
  <2> QED
    BY <2>3
<1> QED
  BY <1>3, <1>4

LEMMA HelpIsNoVerbosity == ASSUME NEW text, IsHelp(text) PROVE Reads(text) = {}
<1>1. text.name = <<"help">>
  BY DEF IsHelp, IsFlag, ParseFlagValue
<1>2. <<"help">> # <<"v">>
  <2>1. <<"help">>[1] = "help" /\ <<"v">>[1] = "v"
    OBVIOUS
  <2>2. "help" # "v"
    OBVIOUS
  <2> QED
    BY <2>1, <2>2
<1> QED
  BY <1>1, <1>2 DEF Reads, ParseInt32Flag, ParseFlagValue

LEMMA InitWalk == Init => WalkInv
<1> SUFFICES ASSUME Init PROVE WalkInv
  OBVIOUS
<1>1. Len(given) \in Nat /\ given \in Seq(Range(given))
  BY GivenIs, CommandLinesAssumption DEF Init
<1>2. LookedAt = 0
  BY <1>1 DEF Init, LookedAt
<1>3. argv = <<Program>> \o given
  BY DEF Init
<1> PICK S : given \in Seq(S)
  BY <1>1
<1>4. DOMAIN argv = 1..(Len(given) + 1) /\ \A i \in 2..(Len(given) + 1) : argv[i] = given[i - 1]
  <2>1. <<Program>> \in Seq({Program}) /\ Len(<<Program>>) = 1
    OBVIOUS
  <2> PICK one : one = <<Program>>
    OBVIOUS
  <2>2. one \in Seq({Program} \cup S) /\ given \in Seq({Program} \cup S) /\ Len(one) = 1
    BY <2>1
  <2>3. argv = one \o given
    BY <1>3
  <2> QED
    BY <2>2, <2>3
<1>5. \A i \in (idx + 1)..argc : argv[i] = given[(i - 1) + (Len(given) + 1 - argc)]
  BY <1>1, <1>4 DEF Init
<1>6. VerbosityOf(0)
  BY DEF Init, VerbosityOf
<1>7. argc = Len(given) + 1 /\ idx = 1 /\ at = "flags" /\ given \in CommandLines
  BY DEF Init
<1> QED
  BY <1>1, <1>2, <1>4, <1>5, <1>6, <1>7 DEF WalkInv

LEMMA NextWalk == WalkInv /\ [Next]_vars => WalkInv'
<1> SUFFICES ASSUME WalkInv, [Next]_vars PROVE WalkInv'
  OBVIOUS
<1> PICK n \in Nat : n = Len(given)
  BY GivenIs DEF WalkInv
<1> PICK k : k = LookedAt
  OBVIOUS
<1>1. /\ argc \in 1..(n + 1) /\ idx \in 1..argc /\ DOMAIN argv = 1..(n + 1)
      /\ given \in CommandLines
      /\ k = (idx - 1) + (n + 1 - argc) /\ k \in 0..n
      /\ \A i \in 1..k : ~IsHelp(given[i])
      /\ VerbosityOf(k)
  BY DEF WalkInv, LookedAt
<1>2. CASE TakeFlag
  <2>1. /\ at = "flags" /\ at' = at /\ idx < argc /\ idx' = idx /\ argc' = argc - 1
        /\ UNCHANGED given
        /\ verbosity' \in Reads(argv[idx + 1])
        /\ argv' = [i \in DOMAIN argv |->
                      IF idx < i /\ i < argc THEN argv[i + 1] ELSE argv[i]]
    BY <1>2 DEF TakeFlag, Reads
  <2>2. \A i \in (idx + 1)..argc : argv[i] = given[(i - 1) + (n + 1 - argc)]
    BY <2>1 DEF WalkInv
  <2>3. argv[idx + 1] = given[k + 1]
    <3>1. idx + 1 \in (idx + 1)..argc /\ ((idx + 1) - 1) + (n + 1 - argc) = k + 1
      BY <1>1, <2>1
    <3> QED
      BY <2>2, <3>1
  <2>4. LookedAt' = k + 1 /\ k + 1 \in 1..n
    BY <1>1, <2>1 DEF LookedAt
  <2>5. DOMAIN argv' = 1..(n + 1)
    BY <1>1, <2>1
  <2>6. \A i \in (idx + 1)..(argc - 1) : argv'[i] = given[(i - 1) + (n + 1 - (argc - 1))]
    <3> SUFFICES ASSUME NEW i \in (idx + 1)..(argc - 1)
                 PROVE  argv'[i] = given[(i - 1) + (n + 1 - (argc - 1))]
      OBVIOUS
    <3>1. i \in DOMAIN argv /\ idx < i /\ i < argc
      BY <1>1
    <3>2. argv'[i] = argv[i + 1]
      BY <2>1, <3>1
    <3>3. /\ i + 1 \in (idx + 1)..argc
          /\ ((i + 1) - 1) + (n + 1 - argc) = (i - 1) + (n + 1 - (argc - 1))
      BY <1>1
    <3> QED
      BY <2>2, <3>2, <3>3
  <2>7. ~IsHelp(given[k + 1])
    BY <2>1, <2>3, HelpIsNoVerbosity
  <2>8. \A i \in 1..(k + 1) : ~IsHelp(given[i])
    BY <1>1, <2>7
  <2>9. VerbosityOf(k + 1)'
    BY <1>1, <2>1, <2>3, SMTT(60) DEF VerbosityOf, Reads
  <2>10. VerbosityOf(LookedAt)'
    BY <2>4, <2>9 DEF VerbosityOf
  <2>11. argc' \in 1..(n + 1) /\ idx' \in 1..argc'
    BY <1>1, <2>1
  <2> QED
    BY <1>1, <2>1, <2>4, <2>5, <2>6, <2>8, <2>10, <2>11 DEF WalkInv, IsHelp
<1>3. CASE SkipArgument
  <2>1. /\ at = "flags" /\ idx < argc /\ Reads(argv[idx + 1]) = {}
        /\ UNCHANGED <<given, argc, argv, verbosity>>
        /\ \/ IsHelp(argv[idx + 1]) /\ at' = "exited" /\ idx' = idx
           \/ ~IsHelp(argv[idx + 1]) /\ at' = at /\ idx' = idx + 1
    BY <1>3 DEF SkipArgument, Reads, IsHelp
  <2>2. \A i \in (idx + 1)..argc : argv[i] = given[(i - 1) + (n + 1 - argc)]
    BY <2>1 DEF WalkInv
  <2>3. argv[idx + 1] = given[k + 1] /\ k < n
    BY <1>1, <2>1, <2>2, SMTT(60)
  <2>4. CASE IsHelp(argv[idx + 1]) /\ at' = "exited" /\ idx' = idx
    <3>1. LookedAt' = k
      BY <1>1, <2>1, <2>4 DEF LookedAt
    <3>2. VerbosityOf(k)'
      BY <1>1, <2>1 DEF VerbosityOf, Reads
    <3>3. VerbosityOf(LookedAt)'
      BY <3>1, <3>2 DEF VerbosityOf
    <3> QED
      BY <1>1, <2>1, <2>3, <2>4, <3>1, <3>3 DEF WalkInv, IsHelp
  <2>5. CASE ~IsHelp(argv[idx + 1]) /\ at' = at /\ idx' = idx + 1
    <3>1. LookedAt' = k + 1
      BY <1>1, <2>1, <2>5 DEF LookedAt
    <3>2. VerbosityOf(k + 1)'
      <4>1. Reads(given[k + 1]) = {} /\ verbosity' = verbosity /\ given' = given
        BY <2>1, <2>3
      <4>2. CASE verbosity = INFO /\ \A i \in 1..k : Reads(given[i]) = {}
        <5>1. \A i \in 1..(k + 1) : Reads(given[i]) = {}
          <6> SUFFICES ASSUME NEW i \in 1..(k + 1) PROVE Reads(given[i]) = {}
            OBVIOUS
          <6>1. i \in 1..k \/ i = k + 1
            BY <1>1
          <6> QED
            BY <4>1, <4>2, <6>1, Zenon
        <5> QED
          BY <4>1, <4>2, <5>1 DEF VerbosityOf, Reads
      <4>3. CASE \E i \in 1..k : /\ verbosity \in Reads(given[i])
                                 /\ \A j \in (i + 1)..k : Reads(given[j]) = {}
        <5> PICK i \in 1..k : /\ verbosity \in Reads(given[i])
                              /\ \A j \in (i + 1)..k : Reads(given[j]) = {}
          BY <4>3
        <5>1. \A j \in (i + 1)..(k + 1) : Reads(given[j]) = {}
          <6> SUFFICES ASSUME NEW j \in (i + 1)..(k + 1) PROVE Reads(given[j]) = {}
            OBVIOUS
          <6>1. j \in (i + 1)..k \/ j = k + 1
            <7>1. k \in Nat /\ i \in Nat /\ j \in Nat
              BY <1>1
            <7> QED
              BY <7>1
          <6> QED
            BY <4>1, <6>1, Zenon
        <5>2. i \in 1..(k + 1)
          BY <1>1
        <5> QED
          BY <4>1, <5>1, <5>2 DEF VerbosityOf, Reads
      <4> QED
        BY <1>1, <4>2, <4>3 DEF VerbosityOf
    <3>3. VerbosityOf(LookedAt)'
      BY <3>1, <3>2 DEF VerbosityOf
    <3>4. \A i \in 1..(k + 1) : ~IsHelp(given[i])
      <4> SUFFICES ASSUME NEW i \in 1..(k + 1) PROVE ~IsHelp(given[i])
        OBVIOUS
      <4>1. i \in 1..k \/ i = k + 1
        BY <1>1
      <4>2. ~IsHelp(given[k + 1])
        BY <2>3, <2>5, Zenon
      <4> QED
        BY <1>1, <4>1, <4>2, Zenon
    <3>5. \A i \in (idx + 2)..argc : argv[i] = given[(i - 1) + (n + 1 - argc)]
      BY <1>1, <2>2
    <3> QED
      BY <1>1, <2>1, <2>5, <3>1, <3>3, <3>4, <3>5 DEF WalkInv, IsHelp
  <2> QED
    BY <2>1, <2>4, <2>5
<1>4. CASE MakeCommandLine
  <2>1. /\ at = "flags" /\ at' \notin {"flags", "exited"} /\ idx >= argc
        /\ UNCHANGED <<given, argc, argv, idx, verbosity>>
    BY <1>4 DEF MakeCommandLine
  <2>2. LookedAt' = k /\ k = n
    BY <1>1, <2>1 DEF LookedAt
  <2>3. VerbosityOf(k)'
    BY <1>1, <2>1 DEF VerbosityOf, Reads
  <2>4. VerbosityOf(LookedAt)'
    BY <2>2, <2>3 DEF VerbosityOf
  <2> QED
    BY <1>1, <2>1, <2>2, <2>4 DEF WalkInv, IsHelp
<1>5. ASSUME UNCHANGED <<given, argc, argv, idx, verbosity>>,
             \/ at' = at
             \/ at \notin {"flags", "exited"} /\ at' \notin {"flags", "exited"}
      PROVE  WalkInv'
  <2>1. LookedAt' = k
    BY <1>1, <1>5 DEF LookedAt
  <2>2. VerbosityOf(k)'
    BY <1>1, <1>5 DEF VerbosityOf, Reads
  <2>3. VerbosityOf(LookedAt)'
    BY <2>1, <2>2 DEF VerbosityOf
  <2> QED
    BY <1>5, <2>1, <2>3 DEF WalkInv, IsHelp
<1>6. CASE \/ AppendSwitch \/ AppendArg \/ DeleteInstance \/ FillList \/ SetInstance
           \/ MainEntersOnce \/ MainInitModule \/ SetDefaultExecutor
           \/ RestoreExecutor \/ Finish
  <2>1. UNCHANGED <<given, argc, argv, idx, verbosity>>
    BY <1>6
       DEF AppendSwitch, AppendArg, DeleteInstance, FillList, SetInstance,
           MainEntersOnce,
                MainInitModule, SetDefaultExecutor, RestoreExecutor, Finish, commandline
  <2>2. at \notin {"flags", "exited"} /\ at' \notin {"flags", "exited"}
    BY <1>6
       DEF AppendSwitch, AppendArg, DeleteInstance, FillList, SetInstance,
           MainEntersOnce,
                MainInitModule, SetDefaultExecutor, RestoreExecutor, Finish, ClientAtExecutors
  <2> QED
    BY <1>5, <2>1, <2>2
<1>7. CASE \E t \in Threads : Start(t) \/ Stop(t)
  BY <1>5, <1>7 DEF Start, Stop, commandline
<1>8. CASE \E t \in Threads : Run(t)
  <2>1. UNCHANGED <<given, argc, argv, idx, verbosity>> /\ at' = at
    BY <1>8 DEF Run, ReadInstance, LookUp, ThreadEntersOnce, ThreadInitModule,
                DefaultExecutor, Add, commandline
  <2> QED
    BY <1>5, <2>1, Zenon
<1>9. CASE UNCHANGED vars
  <2>1. UNCHANGED <<given, argc, argv, idx, verbosity>> /\ at' = at
    BY <1>9 DEF vars, commandline
  <2> QED
    BY <1>5, <2>1, Zenon
<1> QED
  BY <1>2, <1>3, <1>4, <1>6, <1>7, <1>8, <1>9 DEF Next, Main

(* ParseCmdLineFlags moves what is left of argv and never loses its place:  *)
(* the argument at its index is the first that it has not looked at.        *)
THEOREM WalkInvariant == Spec => []WalkInv
<1> QED
  BY InitWalk, NextWalk, PTL DEF Spec

LEMMA MaxOf ==
  ASSUME NEW S \in SUBSET Nat, NEW m \in S, \A i \in S : i <= m
  PROVE  Max(S) = m
<1>1. \A y \in S : m >= y
  OBVIOUS
<1>2. \A x \in S : (\A y \in S : x >= y) => x = m
  OBVIOUS
<1> QED
  BY <1>1, <1>2, Zenon DEF Max

LEMMA MinOf ==
  ASSUME NEW S \in SUBSET Nat, NEW m \in S, \A i \in S : m <= i
  PROVE  Min(S) = m
<1>1. \A y \in S : m =< y
  OBVIOUS
<1>2. \A x \in S : (\A y \in S : x =< y) => x = m
  OBVIOUS
<1> QED
  BY <1>1, <1>2, Zenon DEF Min

LEMMA LastReadIsMeant ==
  ASSUME given \in CommandLines, NEW m \in 0..Len(given), VerbosityOf(m),
         NEW args, DOMAIN args = 1..m, \A i \in 1..m : args[i] = given[i]
  PROVE  verbosity = LastMeant(args, <<"v">>, Int32s, INFO)
<1> DEFINE S == {i \in 1..m : Reads(given[i]) # {}}
           Told == {i \in DOMAIN args : /\ ~args[i].blanks /\ args[i].dashes = 2
                                        /\ args[i].name = <<"v">> /\ Int32s(args[i]) # {}}
           texts == {args[i] : i \in {Max({0} \union Told)} \ {0}}
           Meant == CHOOSE v \in IF texts = {} THEN {INFO}
                                 ELSE UNION {Int32s(text) : text \in texts} : TRUE
<1>1. LastMeant(args, <<"v">>, Int32s, INFO) = Meant
  BY Zenon DEF LastMeant
<1>2. m \in Nat /\ m <= Len(given)
  BY GivenIs
<1>3. \A i \in 1..m : /\ IsVerbosity(given[i]) => Reads(given[i]) = Int32s(given[i])
                      /\ ~IsVerbosity(given[i]) => Reads(given[i]) = {}
                      /\ Int32s(given[i]) # {} => \E v : Int32s(given[i]) = {v}
  <2> SUFFICES ASSUME NEW i \in 1..m
               PROVE  /\ IsVerbosity(given[i]) => Reads(given[i]) = Int32s(given[i])
                      /\ ~IsVerbosity(given[i]) => Reads(given[i]) = {}
                      /\ Int32s(given[i]) # {} => \E v : Int32s(given[i]) = {v}
    OBVIOUS
  <2>1. i \in 1..Len(given)
    BY <1>2, GivenIs
  <2>2. /\ given[i].value \in Seq(Range(given[i].value))
        /\ given[i].equals \in BOOLEAN
    BY <2>1, GivenIs
  <2> QED
    BY <2>2, ReadsInt32s, Zenon
<1>4. \A i \in 1..m : Reads(given[i]) # {} <=> IsVerbosity(given[i]) /\ Int32s(given[i]) # {}
  BY <1>3, Zenon
<1>5. Told = S
  <2>1. \A i \in 1..m : i \in Told <=> i \in S
    BY <1>4, Zenon DEF IsVerbosity
  <2>2. Told \subseteq 1..m /\ S \subseteq 1..m
    OBVIOUS
  <2> HIDE DEF Told, S
  <2> QED
    BY <2>1, <2>2
<1>6. CASE verbosity = INFO /\ \A i \in 1..m : Reads(given[i]) = {}
  <2>1. S = {}
    BY <1>6
  <2>2. Max({0} \union Told) = 0
    <3> HIDE DEF S, Told
    <3>1. {0} \union Told = {0}
      BY <1>5, <2>1
    <3>2. 0 \in {0} /\ {0} \in SUBSET Nat /\ \A i \in {0} : i <= 0
      OBVIOUS
    <3>3. Max({0}) = 0
      BY <3>2, MaxOf
    <3> QED
      BY <3>1, <3>3
  <2>3. texts = {}
    BY <2>2
  <2> HIDE DEF texts
  <2>4. Meant = INFO
    BY <2>3
  <2> QED
    BY <1>1, <1>6, <2>4
<1>7. CASE \E i \in 1..m : /\ verbosity \in Reads(given[i])
                           /\ \A j \in (i + 1)..m : Reads(given[j]) = {}
  <2> PICK i \in 1..m : /\ verbosity \in Reads(given[i])
                        /\ \A j \in (i + 1)..m : Reads(given[j]) = {}
    BY <1>7
  <2>1. i \in S /\ S \subseteq Nat
    BY <1>2
  <2>2. \A j \in S : j <= i
    <3> SUFFICES ASSUME NEW j \in 1..m, Reads(given[j]) # {} PROVE j <= i
      OBVIOUS
    <3>1. ~(j \in (i + 1)..m)
      OBVIOUS
    <3> QED
      BY <1>2, <3>1
  <2>3. Max({0} \union S) = i
    <3> HIDE DEF S
    <3>1. {0} \union S \in SUBSET Nat /\ i \in {0} \union S /\ i \in Nat
      BY <2>1
    <3>2. \A j \in {0} \union S : j <= i
      BY <2>2, <3>1
    <3> QED
      BY <3>1, <3>2, MaxOf
  <2>4. i # 0
    OBVIOUS
  <2> HIDE DEF S
  <2>5. texts = {given[i]}
    BY <1>5, <2>3, <2>4
  <2>6. Int32s(given[i]) = {verbosity}
    <3>1. Reads(given[i]) = Int32s(given[i]) /\ Int32s(given[i]) # {}
      BY <1>3, <1>4, Zenon
    <3>2. PICK v : Int32s(given[i]) = {v}
      BY <1>3, <3>1, Zenon
    <3> QED
      BY <3>1, <3>2
  <2>7. UNION {Int32s(text) : text \in texts} = {verbosity}
    BY <2>5, <2>6
  <2>8. texts # {}
    BY <2>5
  <2> HIDE DEF texts
  <2>9. Meant = CHOOSE v \in {verbosity} : TRUE
    BY <2>7, <2>8, Zenon
  <2> QED
    BY <1>1, <2>9
<1> QED
  BY <1>6, <1>7 DEF VerbosityOf

(* The verbosity is the last number that the command line gives it, of      *)
(* those before the first --help, which ends the program and nothing else   *)
(* does; although the walk takes arguments out of the array that it walks   *)
(* over (main.cc), it passes none by and takes none twice: for command      *)
(* lines of any length, and an int32 of any width.                          *)
THEOREM VerbosityIsAsGiven == Spec => []VerbosityAsGiven
<1>1. WalkInv => VerbosityAsGiven
  <2> SUFFICES ASSUME WalkInv, at # "flags"
               PROVE  LET helps == {i \in DOMAIN given : IsFlag(given[i], <<"help">>)}
                      IN /\ (at = "exited") <=> (helps # {})
                         /\ verbosity = LastMeant(IF helps = {} THEN given
                                                  ELSE SubSeq(given, 1, Min(helps)),
                                                  <<"v">>, Int32s, INFO)
    BY DEF VerbosityAsGiven
  <2> DEFINE helps == {i \in DOMAIN given : IsFlag(given[i], <<"help">>)}
  <2> PICK n \in Nat : n = Len(given)
    BY GivenIs DEF WalkInv
  <2> PICK k : k = LookedAt
    OBVIOUS
  <2>1. /\ given \in CommandLines /\ DOMAIN given = 1..n
        /\ k \in 0..n /\ \A i \in 1..k : ~IsHelp(given[i])
        /\ VerbosityOf(k)
    BY GivenIs DEF WalkInv, LookedAt
  <2>2. helps = {i \in 1..n : IsHelp(given[i])}
    BY <2>1, Zenon DEF IsHelp
  <2>3. CASE at = "exited"
    <3>1. k < n /\ IsHelp(given[k + 1])
      BY <2>3 DEF WalkInv
    <3>2. k + 1 \in helps /\ helps \in SUBSET Nat
      BY <2>1, <2>2, <3>1
    <3>3. \A i \in helps : k + 1 <= i
      <4> SUFFICES ASSUME NEW i \in 1..n, IsHelp(given[i]) PROVE k + 1 <= i
        BY <2>2
      <4>1. ~(i \in 1..k)
        BY <2>1
      <4> QED
        BY <2>1, <4>1
    <3>4. Min(helps) = k + 1
      <4> HIDE DEF helps
      <4> QED
        BY <3>2, <3>3, MinOf
    <3>5. helps # {}
      BY <3>2
    <3> PICK args : args = SubSeq(given, 1, k + 1)
      OBVIOUS
    <3>6. DOMAIN args = 1..(k + 1) /\ \A i \in 1..(k + 1) : args[i] = given[i]
      <4>1. given \in Seq(Range(given))
        BY <2>1, CommandLinesAssumption
      <4> PICK S : given \in Seq(S)
        BY <4>1
      <4> QED
        BY <2>1, <3>1
    <3>7. VerbosityOf(k + 1)
      <4>1. Reads(given[k + 1]) = {}
        BY <3>1, HelpIsNoVerbosity
      <4>2. CASE verbosity = INFO /\ \A i \in 1..k : Reads(given[i]) = {}
        <5>1. \A i \in 1..(k + 1) : Reads(given[i]) = {}
          <6> SUFFICES ASSUME NEW i \in 1..(k + 1) PROVE Reads(given[i]) = {}
            OBVIOUS
          <6>1. i \in 1..k \/ i = k + 1
            BY <2>1
          <6> QED
            BY <4>1, <4>2, <6>1, Zenon
        <5> QED
          BY <4>2, <5>1 DEF VerbosityOf
      <4>3. CASE \E i \in 1..k : /\ verbosity \in Reads(given[i])
                                 /\ \A j \in (i + 1)..k : Reads(given[j]) = {}
        <5> PICK i \in 1..k : /\ verbosity \in Reads(given[i])
                              /\ \A j \in (i + 1)..k : Reads(given[j]) = {}
          BY <4>3
        <5>1. \A j \in (i + 1)..(k + 1) : Reads(given[j]) = {}
          <6> SUFFICES ASSUME NEW j \in (i + 1)..(k + 1) PROVE Reads(given[j]) = {}
            OBVIOUS
          <6>1. j \in (i + 1)..k \/ j = k + 1
            <7>1. k \in Nat /\ i \in Nat /\ j \in Nat
              BY <2>1
            <7> QED
              BY <7>1
          <6> QED
            BY <4>1, <6>1, Zenon
        <5>2. i \in 1..(k + 1)
          BY <2>1
        <5> QED
          BY <5>1, <5>2 DEF VerbosityOf
      <4> QED
        BY <2>1, <4>2, <4>3 DEF VerbosityOf
    <3>8. k + 1 \in 0..Len(given)
      BY <2>1, <3>1
    <3>9. verbosity = LastMeant(args, <<"v">>, Int32s, INFO)
      BY <2>1, <3>6, <3>7, <3>8, LastReadIsMeant
    <3>10. args = IF helps = {} THEN given ELSE SubSeq(given, 1, Min(helps))
      BY <3>4, <3>5, Zenon
    <3> QED
      BY <2>3, <3>5, <3>9, <3>10, Zenon
  <2>4. CASE at # "exited"
    <3>1. k = n
      BY <2>4 DEF WalkInv
    <3>2. helps = {}
      BY <2>1, <2>2, <3>1
    <3>3. n \in 0..Len(given) /\ VerbosityOf(n)
      BY <2>1, <3>1
    <3>4. verbosity = LastMeant(given, <<"v">>, Int32s, INFO)
      BY <2>1, <3>3, LastReadIsMeant
    <3> QED
      BY <2>4, <3>2, <3>4, Zenon
  <2> QED
    BY <2>3, <2>4
<1> QED
  BY <1>1, WalkInvariant, PTL

-----------------------------------------------------------------------------
(* The list that is published has been filled from the command line as it is *)
(* then: nothing is appended while initializeInstance runs.                 *)
Disabled == SplitFeatureListString(getSwitchValue(cl, <<"disable_features">>))
Enabled == SplitFeatureListString(getSwitchValue(cl, <<"enable_features">>))
ListInv ==
  at = "publish" =>
    building = initializeFromCommandLine(getSwitchValue(cl, <<"enable_features">>),
                                         getSwitchValue(cl, <<"disable_features">>))

LEMMA ListInvariant == Spec => []ListInv
<1>1. Init => ListInv
  BY DEF Init, ListInv
<1>2. ListInv /\ [Next]_vars => ListInv'
  <2> SUFFICES ASSUME ListInv, [Next]_vars, at' = "publish"
               PROVE  building' =
                        initializeFromCommandLine(getSwitchValue(cl, <<"enable_features">>),
                                                  getSwitchValue(cl, <<"disable_features">>))'
    BY DEF ListInv
  <2>1. CASE FillList
    <3>1. cl' = cl
      BY <2>1 DEF FillList, commandline
    <3>2. building' = initializeFromCommandLine(getSwitchValue(cl, <<"enable_features">>),
                                                getSwitchValue(cl, <<"disable_features">>))
      BY <2>1 DEF FillList
    <3> QED
      BY <3>1, <3>2
         DEF initializeFromCommandLine, getSwitchValue, SplitFeatureListString
  <2>2. CASE UNCHANGED <<at, cl, building>>
    BY <2>2
       DEF ListInv, initializeFromCommandLine, getSwitchValue, SplitFeatureListString
  <2>3. CASE \/ \E t \in Threads : Run(t)
             \/ MainEntersOnce \/ MainInitModule \/ SetDefaultExecutor
             \/ UNCHANGED vars
    <3>1. UNCHANGED <<at, cl, building>>
      BY <2>3
         DEF Run, ReadInstance, LookUp, ThreadEntersOnce, ThreadInitModule, DefaultExecutor,
             Add, MainEntersOnce, MainInitModule, SetDefaultExecutor, ClientAtExecutors,
             vars, commandline, features
    <3> QED
      BY <2>2, <3>1, Zenon
  <2>4. CASE \/ TakeFlag \/ SkipArgument \/ MakeCommandLine \/ AppendSwitch \/ AppendArg
             \/ DeleteInstance \/ SetInstance \/ RestoreExecutor \/ Finish
             \/ \E t \in Threads : Start(t) \/ Stop(t)
    BY <2>4 DEF TakeFlag, SkipArgument, MakeCommandLine, AppendSwitch, AppendArg,
                DeleteInstance, SetInstance, RestoreExecutor, Finish, Start, Stop
  <2> QED
    BY <2>1, <2>3, <2>4 DEF Next, Main
<1> QED
  BY <1>1, <1>2, PTL DEF Spec

(* In the list that setInstance publishes, what --disable_features names is *)
(* disabled, also when --enable_features names it too; what else the latter *)
(* names is enabled, and a feature that neither names is as it is by        *)
(* default, whatever the two switches' values are made of.                  *)
THEOREM DisablingWins ==
  Spec => [][SetInstance =>
               \A f \in Features :
                 isEnabled(instance', f)
                   <=> f \notin Disabled /\ (f \in Enabled \/ f \in EnabledByDefault)]_vars
<1>1. ASSUME ListInv, SetInstance, NEW f \in Features
      PROVE  isEnabled(instance', f)
               <=> f \notin Disabled /\ (f \in Enabled \/ f \in EnabledByDefault)
  <2> DEFINE overrides == [n \in Enabled \union Disabled |->
                             IF n \in Disabled THEN "OVERRIDE_DISABLE_FEATURE"
                             ELSE "OVERRIDE_ENABLE_FEATURE"]
  <2>1. building = [exists |-> TRUE, initialized |-> FALSE, overrides |-> overrides]
    BY <1>1, Zenon
       DEF ListInv, SetInstance, initializeFromCommandLine, Enabled, Disabled
  <2>2. instance' = [building EXCEPT !.initialized = TRUE]
    BY <1>1 DEF SetInstance
  <2> HIDE DEF overrides
  <2>3. instance'.exists /\ instance'.overrides = overrides
    BY <2>1, <2>2
  <2>4. isEnabled(instance', f) <=>
          IF f \in DOMAIN overrides THEN overrides[f] = "OVERRIDE_ENABLE_FEATURE"
          ELSE f \in EnabledByDefault
    BY <2>3, Zenon DEF isEnabled
  <2>5. "OVERRIDE_DISABLE_FEATURE" # "OVERRIDE_ENABLE_FEATURE"
    OBVIOUS
  <2> QED
    BY <2>4, <2>5 DEF overrides
<1>2. ListInv => [SetInstance =>
               \A f \in Features :
                 isEnabled(instance', f)
                   <=> f \notin Disabled /\ (f \in Enabled \/ f \in EnabledByDefault)]_vars
  BY <1>1, Zenon
<1> QED
  BY <1>2, ListInvariant, PTL

-----------------------------------------------------------------------------
LEMMA SmallestOf ==
  ASSUME NEW S \in SUBSET Nat, S # {}
  PROVE  \E n \in S : \A m \in S : n <= m
<1>1. PICK n \in S : \A m \in S : ~ (<<m, n>> \in OpToRel(<, Nat))
  BY WFMin, NatLessThanWellFounded, Zenon
<1>2. \A m \in S : ~ (m < n)
  BY <1>1, Zenon DEF OpToRel
<1> QED
  BY <1>2

(* What holds at 0, and after each number if it holds there, holds up to n. *)
LEMMA UpTo ==
  ASSUME NEW n \in Nat, NEW G, 0 \in G, \A k \in 0..(n - 1) : k \in G => k + 1 \in G
  PROVE  \A k \in 0..n : k \in G
<1> DEFINE Bad == {k \in 0..n : k \notin G}
<1>1. CASE Bad # {}
  <2>1. Bad \in SUBSET Nat
    OBVIOUS
  <2> HIDE DEF Bad
  <2>2. PICK k \in Bad : \A j \in Bad : k <= j
    BY <1>1, <2>1, SmallestOf, Zenon
  <2> USE DEF Bad
  <2>3. k \in 0..n /\ k # 0 /\ k \notin G
    OBVIOUS
  <2>4. k - 1 \in 0..(n - 1) /\ k - 1 \in 0..n /\ ~(k <= k - 1) /\ (k - 1) + 1 = k
    BY <2>3
  <2>5. k - 1 \in G
    BY <2>2, <2>4, Zenon
  <2> QED
    BY <2>3, <2>4, <2>5
<1> QED
  BY <1>1

(* A set of numbers below a bound has a greatest member.                    *)
LEMMA MaxIn ==
  ASSUME NEW n \in Nat, NEW S \in SUBSET (1..n), S # {}
  PROVE  Max(S) \in S /\ \A x \in S : x <= Max(S)
<1> DEFINE T == {n - x : x \in S}
<1>1. T \in SUBSET Nat /\ T # {}
  <2>1. PICK x \in S : TRUE
    OBVIOUS
  <2>2. n - x \in T
    OBVIOUS
  <2> QED
    BY <2>2
<1>2. PICK t \in T : \A u \in T : t <= u
  BY <1>1, SmallestOf, Zenon
<1>3. PICK m \in S : t = n - m
  OBVIOUS
<1>4. \A x \in S : x <= m
  BY <1>2, <1>3
<1>5. S \in SUBSET Nat
  OBVIOUS
<1>6. Max(S) = m
  BY <1>4, <1>5, MaxOf
<1> QED
  BY <1>4, <1>6

(* The first k indices, of which the fold takes the last.                   *)
LEMMA Segment ==
  ASSUME NEW m \in Nat, NEW k \in 1..m
  PROVE  /\ 1..k \in SUBSET (1..m) /\ 1..k # {} /\ Max(1..k) = k
         /\ (1..k) \ {k} = 1..(k - 1)
<1>1. 1..k \in SUBSET Nat /\ k \in 1..k /\ \A i \in 1..k : i <= k
  OBVIOUS
<1> QED
  BY <1>1, MaxOf

IsFold(iter, step, base, seq, m) ==
  iter = [s \in SUBSET (1..m) |->
            IF s = {} THEN base ELSE step[iter[s \ {Max(s)}], seq[Max(s)]]]

LEMMA FoldExists ==
  ASSUME NEW S, NEW T, NEW step \in [S \X T -> S], NEW base \in S, NEW seq \in Seq(T)
  PROVE  \E iter \in [SUBSET (1..Len(seq)) -> S] : IsFold(iter, step, base, seq, Len(seq))
<1> DEFINE P(m) == \E iter \in [SUBSET (1..m) -> S] : IsFold(iter, step, base, seq, m)
           G == {m \in 0..Len(seq) : P(m)}
<1>1. P(0)
  <2> DEFINE iter == [s \in SUBSET (1..0) |-> base]
  <2>1. SUBSET (1..0) = {{}}
    OBVIOUS
  <2>2. iter \in [SUBSET (1..0) -> S] /\ IsFold(iter, step, base, seq, 0)
    BY <2>1 DEF IsFold
  <2> QED
    BY <2>2, Zenon
<1>2. ASSUME NEW m \in 0..Len(seq), m + 1 \in 0..Len(seq), P(m) PROVE P(m + 1)
  <2>1. PICK h \in [SUBSET (1..m) -> S] : IsFold(h, step, base, seq, m)
    BY <1>2
  <2> DEFINE k == m + 1
             iter == [s \in SUBSET (1..k) |-> IF k \notin s THEN h[s] ELSE step[h[s \ {k}], seq[k]]]
  <2>2. k \in 1..Len(seq) /\ seq[k] \in T
    BY <1>2, LenProperties
  <2>3. ASSUME NEW s \in SUBSET (1..k), k \notin s PROVE s \in SUBSET (1..m)
    BY <2>3, <1>2
  <2>4. ASSUME NEW s \in SUBSET (1..k) PROVE s \ {k} \in SUBSET (1..m)
    BY <1>2
  <2>5. iter \in [SUBSET (1..k) -> S]
    BY <2>2, <2>3, <2>4
  <2>6. ASSUME NEW s \in SUBSET (1..k), k \notin s
        PROVE  iter[s] = h[s]
    BY <2>6
  <2>7. ASSUME NEW s \in SUBSET (1..k), k \in s
        PROVE  iter[s] = step[h[s \ {k}], seq[k]] /\ iter[s \ {k}] = h[s \ {k}] /\ Max(s) = k
    <3>1. iter[s] = step[h[s \ {k}], seq[k]] /\ iter[s \ {k}] = h[s \ {k}]
      BY <2>7, Zenon
    <3>2. s \in SUBSET Nat /\ \A n \in s : n <= k
      BY <2>2
    <3>3. Max(s) = k
      BY <2>7, <3>2, MaxOf
    <3> QED
      BY <3>1, <3>3
  <2>8. ASSUME NEW s \in SUBSET (1..k)
        PROVE iter[s] = IF s = {} THEN base ELSE step[iter[s \ {Max(s)}], seq[Max(s)]]
    <3>1. CASE k \in s
      BY <2>7, <3>1, Zenon
    <3>2. CASE k \notin s
      <4>1. h[s] = IF s = {} THEN base ELSE step[h[s \ {Max(s)}], seq[Max(s)]]
        BY <2>1, <2>3, <3>2, Zenon DEF IsFold
      <4>2. s \ {Max(s)} \in SUBSET (1..k) /\ k \notin s \ {Max(s)}
        BY <3>2
      <4> QED
        BY <4>1, <4>2, <2>6, <3>2, Zenon
    <3> QED
      BY <3>1, <3>2
  <2> HIDE DEF iter, k
  <2>9. IsFold(iter, step, base, seq, k)
    <3>1. iter = [s \in SUBSET (1..k) |-> iter[s]]
      BY <2>5
    <3> QED
      BY <3>1, <2>8, Zenon DEF IsFold
  <2>10. P(k)
    BY <2>5, <2>9, Zenon
  <2> QED
    BY <2>10 DEF k
<1>3. Len(seq) \in Nat
  BY LenProperties
<1> HIDE DEF P
<1>4. 0 \in G
  BY <1>1, <1>3
<1>5. \A m \in 0..(Len(seq) - 1) : m \in G => m + 1 \in G
  <2> SUFFICES ASSUME NEW m \in 0..(Len(seq) - 1), P(m) PROVE m + 1 \in G
    OBVIOUS
  <2>1. m \in 0..Len(seq) /\ m + 1 \in 0..Len(seq)
    BY <1>3
  <2> QED
    BY <1>2, <2>1
<1> HIDE DEF G
<1>6. Len(seq) \in G
  <2>1. \A k \in 0..Len(seq) : k \in G
    BY <1>3, <1>4, <1>5, UpTo, Zenon
  <2>2. Len(seq) \in 0..Len(seq)
    BY <1>3
  <2> QED
    BY <2>1, <2>2
<1> QED
  BY <1>6 DEF G, P

(* What a fold over a sequence has come to after each of its elements.      *)
SelectsAlong(f, seq, chosen) ==
  /\ f[0] = <<>>
  /\ \A k \in 1..Len(seq) :
       f[k] = IF seq[k] \in chosen THEN Append(f[k - 1], seq[k]) ELSE f[k - 1]

IsSelection(g, seq, chosen) ==
  g = [s \in SUBSET DOMAIN seq |->
         IF s = {} THEN <<>>
         ELSE LET i == Max(s)
              IN IF seq[i] \in chosen THEN Append(g[s \ {i}], seq[i]) ELSE g[s \ {i}]]

LEMMA SelectedRuns ==
  ASSUME NEW T, NEW seq \in Seq(T), NEW chosen
  PROVE  \E f \in [0..Len(seq) -> Seq(T)] :
           SelectsAlong(f, seq, chosen) /\ Selected(seq, chosen) = f[Len(seq)]
<1> DEFINE m == Len(seq)
           step == [z \in Seq(T) \X T |->
                      IF z[2] \in chosen THEN Append(z[1], z[2]) ELSE z[1]]
<1>1. m \in Nat /\ DOMAIN seq = 1..m
  BY LenProperties
<1>2. \E g : IsSelection(g, seq, chosen)
  <2>1. step \in [Seq(T) \X T -> Seq(T)] /\ <<>> \in Seq(T)
    <3>1. ASSUME NEW z \in Seq(T) \X T
          PROVE  (IF z[2] \in chosen THEN Append(z[1], z[2]) ELSE z[1]) \in Seq(T)
      BY <3>1, AppendProperties
    <3>2. <<>> \in Seq(T)
      OBVIOUS
    <3> QED
      BY <3>1, <3>2
  <2> HIDE DEF step
  <2>2. PICK iter \in [SUBSET (1..m) -> Seq(T)] : IsFold(iter, step, <<>>, seq, m)
    BY <2>1, FoldExists, Zenon
  <2>3. ASSUME NEW s \in SUBSET (1..m), s # {}
        PROVE  step[iter[s \ {Max(s)}], seq[Max(s)]]
                 = IF seq[Max(s)] \in chosen THEN Append(iter[s \ {Max(s)}], seq[Max(s)])
                   ELSE iter[s \ {Max(s)}]
    <3>1. Max(s) \in 1..m
      BY <1>1, <2>3, MaxIn
    <3>2. seq[Max(s)] \in T /\ iter[s \ {Max(s)}] \in Seq(T)
      BY <1>1, <2>2, <3>1, ElementOfSeq
    <3> QED
      BY <3>2 DEF step
  <2>4. ASSUME NEW s \in SUBSET (1..m)
        PROVE  iter[s] = IF s = {} THEN <<>>
                         ELSE IF seq[Max(s)] \in chosen
                                THEN Append(iter[s \ {Max(s)}], seq[Max(s)])
                                ELSE iter[s \ {Max(s)}]
    <3>1. iter[s] = IF s = {} THEN <<>> ELSE step[iter[s \ {Max(s)}], seq[Max(s)]]
      BY <2>2, Zenon DEF IsFold
    <3> QED
      BY <2>3, <3>1, Zenon
  <2>5. iter = [s \in SUBSET (1..m) |-> iter[s]]
    BY <2>2
  <2>6. IsSelection(iter, seq, chosen)
    BY <1>1, <2>4, <2>5, Zenon DEF IsSelection
  <2> QED
    BY <2>6, Zenon
<1> DEFINE g == CHOOSE h : IsSelection(h, seq, chosen)
           f == [k \in 0..m |-> g[1..k]]
<1>3. IsSelection(g, seq, chosen)
  BY <1>2, Zenon
<1>4. Selected(seq, chosen) = g[1..m]
  BY <1>1, Zenon DEF Selected, FoldLeft, MapThenFoldSet, IsSelection
<1> HIDE DEF g, m, step
<1>5. \A s \in SUBSET (1..m) :
        g[s] = IF s = {} THEN <<>>
               ELSE IF seq[Max(s)] \in chosen THEN Append(g[s \ {Max(s)}], seq[Max(s)])
                    ELSE g[s \ {Max(s)}]
  BY <1>1, <1>3, Zenon DEF IsSelection
<1>6. f[0] = <<>>
  <2>1. 1..0 = {} /\ 0 \in 0..m /\ {} \in SUBSET (1..m)
    BY <1>1
  <2> QED
    BY <1>5, <2>1, Zenon
<1>7. ASSUME NEW k \in 1..m
      PROVE  f[k] = IF seq[k] \in chosen THEN Append(f[k - 1], seq[k]) ELSE f[k - 1]
  <2>1. k \in 0..m /\ k - 1 \in 0..m
    BY <1>1
  <2>2. /\ 1..k \in SUBSET (1..m) /\ 1..k # {} /\ Max(1..k) = k
        /\ (1..k) \ {k} = 1..(k - 1)
    BY <1>1, Segment
  <2> QED
    BY <1>5, <2>1, <2>2, Zenon
<1>8. SelectsAlong(f, seq, chosen)
  BY <1>6, <1>7, Zenon DEF SelectsAlong, m
<1>9. Selected(seq, chosen) = f[m]
  BY <1>1, <1>4
<1>10. f \in [0..m -> Seq(T)]
  <2> DEFINE G == {k \in 0..m : f[k] \in Seq(T)}
  <2>1. 0 \in G
    <3>1. <<>> \in Seq(T)
      OBVIOUS
    <3>2. f[0] \in Seq(T)
      BY <1>6, <3>1, Zenon
    <3>3. 0 \in 0..m
      BY <1>1
    <3> HIDE DEF f
    <3> QED
      BY <3>2, <3>3
  <2>2. ASSUME NEW k \in 0..(m - 1), k \in G PROVE k + 1 \in G
    <3>1. k + 1 \in 1..m /\ k + 1 \in 0..m /\ (k + 1) - 1 = k
      BY <1>1
    <3>2. f[k] \in Seq(T) /\ seq[k + 1] \in T
      BY <2>2, <3>1, ElementOfSeq DEF m
    <3>3. f[k + 1] = IF seq[k + 1] \in chosen THEN Append(f[k], seq[k + 1]) ELSE f[k]
      BY <1>7, <3>1
    <3> HIDE DEF f
    <3>4. f[k + 1] \in Seq(T)
      BY <3>2, <3>3, AppendProperties
    <3> QED
      BY <3>1, <3>4
  <2> HIDE DEF G
  <2>3. \A k \in 0..m : k \in G
    BY <1>1, <2>1, <2>2, UpTo, Zenon
  <2> QED
    BY <2>3 DEF G
<1> HIDE DEF f
<1> QED
  BY <1>8, <1>9, <1>10, Zenon DEF m

(* Where the two sequences and sets agree the folds do.                     *)
LEMMA SelectionsAgree ==
  ASSUME NEW S, NEW T, NEW s \in Seq(S), NEW t \in Seq(T), NEW chosen, NEW others,
         NEW f, NEW g, SelectsAlong(f, s, chosen), SelectsAlong(g, t, others),
         NEW n \in Nat, n <= Len(s), n <= Len(t),
         \A i \in 1..n : s[i] = t[i] /\ (s[i] \in chosen <=> t[i] \in others)
  PROVE  \A k \in 0..n : f[k] = g[k]
<1> DEFINE G == {k \in 0..n : f[k] = g[k]}
<1>1. 0 \in G
  BY DEF SelectsAlong
<1>2. ASSUME NEW k \in 0..(n - 1), k \in G PROVE k + 1 \in G
  <2>1. /\ k + 1 \in 1..n /\ k + 1 \in 0..n /\ (k + 1) - 1 = k
        /\ k + 1 \in 1..Len(s) /\ k + 1 \in 1..Len(t)
    BY LenProperties
  <2>2. /\ f[k + 1] = IF s[k + 1] \in chosen THEN Append(f[k], s[k + 1]) ELSE f[k]
        /\ g[k + 1] = IF t[k + 1] \in others THEN Append(g[k], t[k + 1]) ELSE g[k]
    BY <2>1, Zenon DEF SelectsAlong
  <2>3. f[k] = g[k]
    BY <1>2
  <2>4. f[k + 1] = g[k + 1]
    BY <2>1, <2>2, <2>3, Zenon
  <2> QED
    BY <2>1, <2>4
<1> HIDE DEF G
<1>3. \A k \in 0..n : k \in G
  BY <1>1, <1>2, UpTo, Zenon
<1> QED
  BY <1>3 DEF G

LEMMA SelectedType ==
  ASSUME NEW T, NEW seq \in Seq(T), NEW chosen
  PROVE  Selected(seq, chosen) \in Seq(T)
<1>1. PICK f \in [0..Len(seq) -> Seq(T)] :
        SelectsAlong(f, seq, chosen) /\ Selected(seq, chosen) = f[Len(seq)]
  BY SelectedRuns, Zenon
<1>2. Len(seq) \in 0..Len(seq)
  BY LenProperties
<1> QED
  BY <1>1, <1>2

(* Nothing else counts of the set than which of the elements are in it.     *)
LEMMA SelectedSame ==
  ASSUME NEW T, NEW seq \in Seq(T), NEW chosen, NEW others,
         \A i \in 1..Len(seq) : seq[i] \in chosen <=> seq[i] \in others
  PROVE  Selected(seq, chosen) = Selected(seq, others)
<1>1. PICK f : SelectsAlong(f, seq, chosen) /\ Selected(seq, chosen) = f[Len(seq)]
  BY SelectedRuns, Zenon
<1>2. PICK g : SelectsAlong(g, seq, others) /\ Selected(seq, others) = g[Len(seq)]
  BY SelectedRuns, Zenon
<1>3. Len(seq) \in Nat /\ Len(seq) <= Len(seq) /\ Len(seq) \in 0..Len(seq)
  BY LenProperties
<1>4. \A k \in 0..Len(seq) : f[k] = g[k]
  <2>1. \A i \in 1..Len(seq) : seq[i] = seq[i] /\ (seq[i] \in chosen <=> seq[i] \in others)
    OBVIOUS
  <2> QED
    BY <1>1, <1>2, <1>3, <2>1, SelectionsAgree
<1> QED
  BY <1>1, <1>2, <1>3, <1>4, Zenon

LEMMA SelectedEmpty == ASSUME NEW chosen PROVE Selected(<<>>, chosen) = <<>>
<1>1. <<>> \in Seq({}) /\ Len(<<>>) = 0
  OBVIOUS
<1>2. PICK f : SelectsAlong(f, <<>>, chosen) /\ Selected(<<>>, chosen) = f[Len(<<>>)]
  BY <1>1, SelectedRuns, Zenon
<1> QED
  BY <1>1, <1>2, Zenon DEF SelectsAlong

LEMMA SelectedAppend ==
  ASSUME NEW T, NEW seq \in Seq(T), NEW x \in T, NEW chosen
  PROVE  Selected(Append(seq, x), chosen)
           = IF x \in chosen THEN Append(Selected(seq, chosen), x) ELSE Selected(seq, chosen)
<1> DEFINE more == Append(seq, x)
<1>1. /\ more \in Seq(T) /\ Len(more) = Len(seq) + 1 /\ more[Len(seq) + 1] = x
      /\ \A i \in 1..Len(seq) : more[i] = seq[i]
  BY AppendProperties
<1> HIDE DEF more
<1>2. PICK f : SelectsAlong(f, seq, chosen) /\ Selected(seq, chosen) = f[Len(seq)]
  BY SelectedRuns, Zenon
<1>3. PICK g : SelectsAlong(g, more, chosen) /\ Selected(more, chosen) = g[Len(more)]
  BY <1>1, SelectedRuns, Zenon
<1>4. /\ Len(seq) \in Nat /\ Len(seq) <= Len(seq) /\ Len(seq) <= Len(more)
      /\ Len(seq) \in 0..Len(seq)
      /\ Len(seq) + 1 \in 1..Len(more) /\ (Len(seq) + 1) - 1 = Len(seq)
  BY <1>1, LenProperties
<1>5. \A i \in 1..Len(seq) : seq[i] = more[i] /\ (seq[i] \in chosen <=> more[i] \in chosen)
  BY <1>1, Zenon
<1>6. \A k \in 0..Len(seq) : f[k] = g[k]
  BY <1>1, <1>2, <1>3, <1>4, <1>5, SelectionsAgree
<1>7. g[Len(seq) + 1] = IF x \in chosen THEN Append(g[Len(seq)], x) ELSE g[Len(seq)]
  BY <1>1, <1>3, <1>4, Zenon DEF SelectsAlong
<1>8. g[Len(seq)] = f[Len(seq)]
  BY <1>4, <1>6, Zenon
<1>9. Selected(more, chosen)
        = IF x \in chosen THEN Append(Selected(seq, chosen), x) ELSE Selected(seq, chosen)
  BY <1>1, <1>2, <1>3, <1>7, <1>8, Zenon
<1> QED
  BY <1>9 DEF more

LEMMA SubSeqAppend ==
  ASSUME NEW T, NEW s \in Seq(T), NEW a \in Nat \ {0}, NEW k \in 0..(Len(s) - 1), a <= k + 1
  PROVE  SubSeq(s, a, k + 1) = Append(SubSeq(s, a, k), s[k + 1])
<1>1. Len(s) \in Nat /\ \A i \in 1..Len(s) : s[i] \in T
  BY LenProperties, ElementOfSeq
<1>2. k \in Nat /\ a \in Int /\ k \in Int /\ k + 1 \in Int /\ k + 1 \in 1..Len(s)
  BY <1>1
<1>3. (\A i \in a..(k + 1) : s[i] \in T) /\ (\A i \in a..k : s[i] \in T)
  BY <1>1, <1>2
<1> DEFINE l == SubSeq(s, a, k + 1)
           r == SubSeq(s, a, k)
<1>4. /\ l \in Seq(T) /\ Len(l) = (k + 1) - a + 1
      /\ \A i \in 1..((k + 1) - a + 1) : l[i] = s[a + i - 1]
  BY <1>2, <1>3, SubSeqProperties
<1>5. /\ r \in Seq(T) /\ Len(r) = k - a + 1
      /\ \A i \in 1..(k - a + 1) : r[i] = s[a + i - 1]
  BY <1>2, <1>3, SubSeqProperties
<1> HIDE DEF l, r
<1>6. s[k + 1] \in T
  BY <1>1, <1>2
<1> PICK x \in T : x = s[k + 1]
  BY <1>6
<1> DEFINE q == Append(r, x)
<1>7. /\ q \in Seq(T) /\ Len(q) = Len(r) + 1 /\ q[Len(r) + 1] = x
      /\ \A i \in 1..Len(r) : q[i] = r[i]
  <2>1. r \in Seq(T)
    BY <1>5
  <2> QED
    BY <2>1, AppendProperties
<1> HIDE DEF q
<1>8. Len(l) = Len(q)
  BY <1>2, <1>4, <1>5, <1>7
<1>9. ASSUME NEW i \in 1..Len(l) PROVE l[i] = q[i]
  <2>1. l[i] = s[a + i - 1]
    BY <1>4
  <2>2. CASE i = Len(r) + 1
    <3>1. a + i - 1 = k + 1
      BY <1>2, <1>5, <2>2
    <3> QED
      BY <1>7, <2>1, <2>2, <3>1
  <2>3. CASE i # Len(r) + 1
    <3>1. i \in 1..Len(r) /\ i \in 1..(k - a + 1)
      BY <1>2, <1>4, <1>5, <2>3
    <3> QED
      BY <1>5, <1>7, <2>1, <3>1
  <2> QED
    BY <2>2, <2>3
<1>10. l = q
  BY <1>4, <1>7, <1>8, <1>9, SeqEqual
<1> QED
  BY <1>10 DEF l, q, r

LEMMA SelectedPrefix ==
  ASSUME NEW T, NEW s \in Seq(T), NEW chosen, NEW m \in 0..Len(s),
         \A i \in 1..m : s[i] \in chosen, \A i \in (m + 1)..Len(s) : s[i] \notin chosen
  PROVE  Selected(s, chosen) = SubSeq(s, 1, m)
<1>1. PICK f : SelectsAlong(f, s, chosen) /\ Selected(s, chosen) = f[Len(s)]
  BY SelectedRuns, Zenon
<1>2. Len(s) \in Nat /\ m \in Nat
  BY LenProperties
<1> DEFINE end(k) == IF k <= m THEN k ELSE m
           G == {k \in 0..Len(s) : f[k] = SubSeq(s, 1, end(k))}
<1>3. 0 \in G
  <2>1. f[0] = <<>>
    BY <1>1 DEF SelectsAlong
  <2>2. SubSeq(s, 1, 0) = <<>>
    BY SubSeqEmpty
  <2>3. end(0) = 0 /\ 0 \in 0..Len(s)
    BY <1>2
  <2> QED
    BY <2>1, <2>2, <2>3, Zenon
<1>4. ASSUME NEW k \in 0..(Len(s) - 1), k \in G PROVE k + 1 \in G
  <2>1. k + 1 \in 1..Len(s) /\ k + 1 \in 0..Len(s) /\ (k + 1) - 1 = k
    BY <1>2
  <2>2. f[k + 1] = IF s[k + 1] \in chosen THEN Append(f[k], s[k + 1]) ELSE f[k]
    BY <1>1, <2>1, Zenon DEF SelectsAlong
  <2>3. f[k] = SubSeq(s, 1, end(k))
    BY <1>4
  <2>4. CASE k < m
    <3>1. end(k) = k /\ end(k + 1) = k + 1 /\ k + 1 \in 1..m /\ 1 \in Nat \ {0} /\ 1 <= k + 1
      BY <1>2, <2>4
    <3>2. SubSeq(s, 1, k + 1) = Append(SubSeq(s, 1, k), s[k + 1])
      BY <3>1, SubSeqAppend
    <3>3. f[k + 1] = SubSeq(s, 1, end(k + 1))
      BY <2>2, <2>3, <3>1, <3>2, Zenon
    <3> QED
      BY <2>1, <3>3
  <2>5. CASE ~(k < m)
    <3>1. end(k) = m /\ end(k + 1) = m /\ k + 1 \in (m + 1)..Len(s)
      BY <1>2, <2>5
    <3>2. f[k + 1] = SubSeq(s, 1, end(k + 1))
      BY <2>2, <2>3, <3>1, Zenon
    <3> QED
      BY <2>1, <3>2
  <2> QED
    BY <2>4, <2>5
<1> HIDE DEF G
<1>5. \A k \in 0..Len(s) : k \in G
  BY <1>2, <1>3, <1>4, UpTo, Zenon
<1>6. end(Len(s)) = m /\ Len(s) \in 0..Len(s)
  BY <1>2
<1> QED
  BY <1>1, <1>5, <1>6, Zenon DEF G

LEMMA SelectedSuffix ==
  ASSUME NEW T, NEW s \in Seq(T), NEW chosen, NEW m \in 0..Len(s),
         \A i \in 1..m : s[i] \notin chosen, \A i \in (m + 1)..Len(s) : s[i] \in chosen
  PROVE  Selected(s, chosen) = SubSeq(s, m + 1, Len(s))
<1>1. PICK f : SelectsAlong(f, s, chosen) /\ Selected(s, chosen) = f[Len(s)]
  BY SelectedRuns, Zenon
<1>2. Len(s) \in Nat /\ m \in Nat
  BY LenProperties
<1> DEFINE G == {k \in 0..Len(s) : f[k] = SubSeq(s, m + 1, k)}
<1>3. 0 \in G
  <2>1. f[0] = <<>>
    BY <1>1 DEF SelectsAlong
  <2>2. SubSeq(s, m + 1, 0) = <<>>
    BY <1>2, SubSeqEmpty
  <2>3. 0 \in 0..Len(s)
    BY <1>2
  <2> QED
    BY <2>1, <2>2, <2>3, Zenon
<1>4. ASSUME NEW k \in 0..(Len(s) - 1), k \in G PROVE k + 1 \in G
  <2>1. k + 1 \in 1..Len(s) /\ k + 1 \in 0..Len(s) /\ (k + 1) - 1 = k
    BY <1>2
  <2>2. f[k + 1] = IF s[k + 1] \in chosen THEN Append(f[k], s[k + 1]) ELSE f[k]
    BY <1>1, <2>1, Zenon DEF SelectsAlong
  <2>3. f[k] = SubSeq(s, m + 1, k)
    BY <1>4
  <2>4. CASE k < m
    <3>1. k + 1 \in 1..m /\ k < m + 1 /\ k + 1 < m + 1 /\ m + 1 \in Int /\ k \in Int
          /\ k + 1 \in Int
      BY <1>2, <2>4
    <3>2. SubSeq(s, m + 1, k + 1) = <<>> /\ SubSeq(s, m + 1, k) = <<>>
      BY <3>1, SubSeqEmpty
    <3>3. f[k + 1] = SubSeq(s, m + 1, k + 1)
      BY <2>2, <2>3, <3>1, <3>2, Zenon
    <3> QED
      BY <2>1, <3>3
  <2>5. CASE ~(k < m)
    <3>1. m + 1 \in Nat \ {0} /\ m + 1 <= k + 1 /\ k + 1 \in (m + 1)..Len(s)
      BY <1>2, <2>5
    <3>2. SubSeq(s, m + 1, k + 1) = Append(SubSeq(s, m + 1, k), s[k + 1])
      BY <3>1, SubSeqAppend
    <3>3. f[k + 1] = SubSeq(s, m + 1, k + 1)
      BY <2>2, <2>3, <3>1, <3>2, Zenon
    <3> QED
      BY <2>1, <3>3
  <2> QED
    BY <2>4, <2>5
<1> HIDE DEF G
<1>5. \A k \in 0..Len(s) : k \in G
  BY <1>2, <1>3, <1>4, UpTo, Zenon
<1>6. Len(s) \in 0..Len(s)
  BY <1>2
<1> QED
  BY <1>1, <1>5, <1>6, Zenon DEF G

-----------------------------------------------------------------------------
(* A CommandLine that has got these switches and these arguments, in this   *)
(* order, however they were mixed.                                          *)
AllTexts == (UNION {Range(g) : g \in CommandLines}) \union Switches \union Arguments
Symbols == UNION {Range(text.name) \union Range(text.value) : text \in AllTexts}
Texts ==
  [dashes : Nat, name : Seq(Symbols), equals : BOOLEAN, value : Seq(Symbols),
   blanks : BOOLEAN]

Normal(s) == Switch(IF s.dashes = 0 THEN 2 ELSE s.dashes, s.name, s.value)
Normals(sw) == [i \in DOMAIN sw |-> Normal(sw[i])]
NamesOf(sw) == {sw[i].name : i \in DOMAIN sw}
Line(texts, switches, start) ==
  [argv |-> texts, switches |-> switches, start_args |-> start]
Holding(sw, ar) ==
  Line((<<Program>> \o Normals(sw)) \o ar, [n \in NamesOf(sw) |-> ValueTold(sw, n)],
       1 + Len(sw))

LEMMA TextIs ==
  ASSUME NEW text \in AllTexts, IsText(text)
  PROVE  text \in Texts
<1> PICK N, V : N = Range(text.name) /\ V = Range(text.value)
  OBVIOUS
<1>1. N \subseteq Symbols /\ V \subseteq Symbols
  <2> DEFINE Of(t) == Range(t.name) \union Range(t.value)
  <2>1. Symbols = UNION {Of(t) : t \in AllTexts}
    BY Zenon DEF Symbols
  <2>2. N \subseteq Of(text) /\ V \subseteq Of(text)
    OBVIOUS
  <2> HIDE DEF Of
  <2> QED
    BY <2>1, <2>2
<1> PICK D : D = 0..2
  OBVIOUS
<1>2. text \in [dashes : D, name : Seq(N), equals : BOOLEAN, value : Seq(V), blanks : BOOLEAN]
  BY Zenon DEF IsText
<1> PICK T : T = Symbols
  OBVIOUS
<1>3. text.name \in Seq(T) /\ text.value \in Seq(T)
  <2>1. text.name \in Seq(N) /\ text.value \in Seq(V)
    BY <1>2
  <2> QED
    BY <1>1, <2>1, SeqMonotonic
<1> PICK S : S = Seq(T)
  OBVIOUS
<1>4. text \in [dashes : Nat, name : S, equals : BOOLEAN, value : S, blanks : BOOLEAN]
  <2>1. D \subseteq Nat
    OBVIOUS
  <2> QED
    BY ONLY <1>2, <1>3, <2>1, S = Seq(T)
<1> QED
  BY <1>4, Zenon DEF Texts

LEMMA TextsAre ==
  /\ CommandLines \subseteq Seq(Texts)
  /\ Switches \subseteq Texts /\ Arguments \subseteq Texts
<1>1. ASSUME NEW g \in CommandLines PROVE g \in Seq(Texts)
  <2>1. g \in Seq(Range(g)) /\ \A i \in DOMAIN g : IsText(g[i])
    BY CommandLinesAssumption
  <2>2. PICK S : S = Range(g)
    OBVIOUS
  <2>3. Len(g) \in Nat /\ DOMAIN g = 1..Len(g) /\ g = [i \in 1..Len(g) |-> g[i]]
    BY <2>1, <2>2, LenProperties
  <2>4. ASSUME NEW i \in 1..Len(g) PROVE g[i] \in Texts
    <3>1. g[i] \in Range(g)
      BY <2>3 DEF Range
    <3>2. g[i] \in AllTexts
      BY <3>1, Zenon DEF AllTexts
    <3> QED
      BY <2>1, <2>3, <3>2, TextIs
  <2> QED
    BY <2>3, <2>4
<1>2. ASSUME NEW text \in Switches \union Arguments PROVE text \in Texts
  <2>1. text \in AllTexts
    BY <1>2, Zenon DEF AllTexts
  <2>2. IsText(text)
    BY <1>2, AppendedAssumption
  <2> QED
    BY <2>1, <2>2, TextIs
<1> QED
  BY <1>1, <1>2

LEMMA NormalsAre ==
  ASSUME NEW sw \in Seq(Texts)
  PROVE  /\ Normals(sw) \in Seq({Normal(t) : t \in Texts})
         /\ Len(Normals(sw)) = Len(sw)
         /\ \A i \in 1..Len(sw) : Normals(sw)[i] = Normal(sw[i])
<1>1. Len(sw) \in Nat /\ DOMAIN sw = 1..Len(sw) /\ \A i \in 1..Len(sw) : sw[i] \in Texts
  BY LenProperties, ElementOfSeq
<1>2. \A i \in 1..Len(sw) : Normal(sw[i]) \in {Normal(t) : t \in Texts}
  BY <1>1
<1> DEFINE W == {Normal(t) : t \in Texts}
           l == Normals(sw)
<1>3. l = [i \in 1..Len(sw) |-> Normal(sw[i])]
  BY <1>1, Zenon DEF Normals
<1> HIDE DEF W, l
<1>4. \A i \in 1..Len(sw) : l[i] = Normal(sw[i]) /\ Normal(sw[i]) \in W
  BY <1>2, <1>3 DEF W
<1>5. l \in Seq(W) /\ Len(l) = Len(sw)
  BY <1>1, <1>3, <1>4
<1> QED
  BY <1>4, <1>5 DEF W, l

LEMMA InsertBetween ==
  ASSUME NEW S, NEW h \in Seq(S), NEW t \in Seq(S), NEW e \in S
  PROVE  InsertAt(h \o t, Len(h) + 1, e) = Append(h, e) \o t
<1>1. Len(h) \in Nat /\ Len(t) \in Nat
  BY LenProperties
<1> DEFINE c == h \o t
<1>2. /\ c \in Seq(S) /\ Len(c) = Len(h) + Len(t)
      /\ \A i \in 1..(Len(h) + Len(t)) : c[i] = IF i <= Len(h) THEN h[i] ELSE t[i - Len(h)]
  BY ConcatProperties
<1> HIDE DEF c
<1>3. \A i \in 1..Len(c) : c[i] \in S
  BY <1>2, ElementOfSeq
<1>4. SubSeq(c, 1, Len(h)) = h
  <2> DEFINE l == SubSeq(c, 1, Len(h))
  <2>1. \A i \in 1..Len(h) : c[i] \in S
    BY <1>1, <1>2, <1>3
  <2>2. l \in Seq(S) /\ Len(l) = Len(h) /\ \A i \in 1..(Len(h) - 1 + 1) : l[i] = c[1 + i - 1]
    BY <1>1, <2>1, SubSeqProperties
  <2> HIDE DEF l
  <2>3. ASSUME NEW i \in 1..Len(l) PROVE l[i] = h[i]
    <3>1. i \in 1..(Len(h) - 1 + 1) /\ 1 + i - 1 = i /\ i <= Len(h) /\ i \in 1..(Len(h) + Len(t))
      BY <1>1, <2>2
    <3> QED
      BY <1>2, <2>2, <3>1
  <2>4. l = h
    BY <2>2, <2>3, SeqEqual
  <2> QED
    BY <2>4 DEF l
<1>5. SubSeq(c, Len(h) + 1, Len(c)) = t
  <2> DEFINE l == SubSeq(c, Len(h) + 1, Len(c))
  <2>1. (\A i \in (Len(h) + 1)..Len(c) : c[i] \in S) /\ Len(h) + 1 \in Int /\ Len(c) \in Int
    BY <1>1, <1>2, <1>3
  <2>2. /\ l \in Seq(S)
        /\ Len(l) = IF Len(h) + 1 <= Len(c) THEN Len(c) - (Len(h) + 1) + 1 ELSE 0
        /\ \A i \in 1..(Len(c) - (Len(h) + 1) + 1) : l[i] = c[(Len(h) + 1) + i - 1]
    BY <2>1, SubSeqProperties
  <2> HIDE DEF l
  <2>3. Len(l) = Len(t)
    BY <1>1, <1>2, <2>2
  <2>4. ASSUME NEW i \in 1..Len(l) PROVE l[i] = t[i]
    <3>1. /\ i \in 1..(Len(c) - (Len(h) + 1) + 1) /\ (Len(h) + 1) + i - 1 = Len(h) + i
          /\ ~(Len(h) + i <= Len(h)) /\ Len(h) + i \in 1..(Len(h) + Len(t))
          /\ (Len(h) + i) - Len(h) = i
      BY <1>1, <1>2, <2>3
    <3> QED
      BY <1>2, <2>2, <3>1
  <2>5. l = t
    BY <2>2, <2>3, <2>4, SeqEqual
  <2> QED
    BY <2>5 DEF l
<1>6. InsertAt(c, Len(h) + 1, e) = (h \o <<e>>) \o t
  <2>1. (Len(h) + 1) - 1 = Len(h)
    BY <1>1
  <2> QED
    BY <1>4, <1>5, <2>1, Zenon DEF InsertAt
<1> QED
  BY <1>6, AppendIsConcat DEF c

LEMMA ValueToldAppend ==
  ASSUME NEW T, NEW sw \in Seq(T), NEW s \in T, NEW n
  PROVE  ValueTold(Append(sw, s), n) = IF n = s.name THEN s.value ELSE ValueTold(sw, n)
<1> DEFINE more == Append(sw, s)
           named == {i \in DOMAIN sw : sw[i].name = n}
           after == {i \in DOMAIN more : more[i].name = n}
<1>1. /\ more \in Seq(T) /\ Len(more) = Len(sw) + 1 /\ more[Len(sw) + 1] = s
      /\ \A i \in 1..Len(sw) : more[i] = sw[i]
  BY AppendProperties
<1>2. Len(sw) \in Nat /\ DOMAIN sw = 1..Len(sw) /\ DOMAIN more = 1..(Len(sw) + 1)
  BY <1>1, LenProperties
<1>3. /\ ValueTold(more, n) = IF after = {} THEN <<>> ELSE more[Max(after)].value
      /\ ValueTold(sw, n) = IF named = {} THEN <<>> ELSE sw[Max(named)].value
  BY Zenon DEF ValueTold
<1> HIDE DEF more
<1>4. CASE n = s.name
  <2>1. Len(sw) + 1 \in after /\ after \in SUBSET Nat /\ \A i \in after : i <= Len(sw) + 1
    BY <1>1, <1>2, <1>4
  <2> HIDE DEF after
  <2>2. Max(after) = Len(sw) + 1 /\ after # {}
    BY <2>1, MaxOf
  <2>3. ValueTold(more, n) = s.value
    BY <1>1, <1>3, <2>2, Zenon
  <2> QED
    BY <1>4, <2>3 DEF more
<1>5. CASE n # s.name
  <2>1. after = named
    BY <1>1, <1>2, <1>5
  <2>2. CASE named = {}
    <3> HIDE DEF named, after
    <3> QED
      BY <1>3, <1>5, <2>1, <2>2 DEF more
  <2>3. CASE named # {}
    <3>1. named \in SUBSET (1..Len(sw))
      BY <1>2
    <3> HIDE DEF named, after
    <3>2. Max(named) \in 1..Len(sw)
      BY <1>2, <2>3, <3>1, MaxIn
    <3> QED
      BY <1>1, <1>3, <1>5, <2>1, <2>3, <3>2, Zenon DEF more
  <2> QED
    BY <2>2, <2>3
<1> QED
  BY <1>4, <1>5

Everything == Texts \union {Normal(t) : t \in Texts} \union {Program}

LEMMA HoldingIs ==
  ASSUME NEW sw \in Seq(Texts), NEW ar \in Seq(Texts)
  PROVE  /\ <<Program>> \o Normals(sw) \in Seq(Everything)
         /\ Len(<<Program>> \o Normals(sw)) = Len(sw) + 1
         /\ ar \in Seq(Everything)
         /\ <<Program>> \in Seq(Everything) /\ Normals(sw) \in Seq(Everything)
         /\ Len(Normals(sw)) = Len(sw) /\ Len(sw) \in Nat
<1>1. Normals(sw) \in Seq({Normal(t) : t \in Texts}) /\ Len(Normals(sw)) = Len(sw)
  BY NormalsAre
<1>2. /\ {Normal(t) : t \in Texts} \subseteq Everything /\ Texts \subseteq Everything
      /\ Program \in Everything
  BY Zenon DEF Everything
<1> PICK l : l = Normals(sw)
  OBVIOUS
<1>3. l \in Seq(Everything) /\ ar \in Seq(Everything)
  BY <1>1, <1>2, SeqMonotonic
<1> PICK one : one = <<Program>>
  OBVIOUS
<1>4. one \in Seq(Everything) /\ Len(one) = 1
  BY <1>2
<1>5. one \o l \in Seq(Everything) /\ Len(one \o l) = 1 + Len(l)
  BY <1>3, <1>4, ConcatProperties
<1>6. Len(sw) \in Nat
  BY LenProperties
<1> QED
  BY <1>1, <1>3, <1>4, <1>5, <1>6

LEMMA NamesAppend ==
  ASSUME NEW T, NEW sw \in Seq(T), NEW s \in T
  PROVE  NamesOf(Append(sw, s)) = NamesOf(sw) \union {s.name}
<1> DEFINE more == Append(sw, s)
<1>1. /\ more \in Seq(T) /\ Len(more) = Len(sw) + 1 /\ more[Len(sw) + 1] = s
      /\ \A i \in 1..Len(sw) : more[i] = sw[i]
  BY AppendProperties
<1>2. Len(sw) \in Nat /\ DOMAIN sw = 1..Len(sw) /\ DOMAIN more = 1..(Len(sw) + 1)
  BY <1>1, LenProperties
<1> HIDE DEF more
<1>3. \A i \in DOMAIN more : more[i].name \in NamesOf(sw) \union {s.name}
  <2> SUFFICES ASSUME NEW i \in 1..(Len(sw) + 1) PROVE more[i].name \in NamesOf(sw) \union {s.name}
    BY <1>2
  <2>1. CASE i = Len(sw) + 1
    BY <1>1, <2>1
  <2>2. CASE i # Len(sw) + 1
    <3>1. i \in DOMAIN sw /\ more[i] = sw[i]
      BY <1>1, <1>2, <2>2
    <3> QED
      BY <3>1 DEF NamesOf
  <2> QED
    BY <2>1, <2>2
<1>4. \A i \in DOMAIN sw : sw[i].name \in NamesOf(more)
  <2> SUFFICES ASSUME NEW i \in DOMAIN sw PROVE sw[i].name \in NamesOf(more)
    OBVIOUS
  <2>1. i \in DOMAIN more /\ more[i] = sw[i]
    BY <1>1, <1>2
  <2>2. more[i].name \in NamesOf(more)
    BY <2>1, Zenon DEF NamesOf
  <2> QED
    BY <2>1, <2>2
<1>5. s.name \in NamesOf(more)
  <2>1. Len(sw) + 1 \in DOMAIN more
    BY <1>2
  <2> QED
    BY <1>1, <2>1 DEF NamesOf
<1>6. NamesOf(more) \subseteq NamesOf(sw) \union {s.name}
  BY <1>3 DEF NamesOf
<1>7. NamesOf(sw) \subseteq NamesOf(more)
  BY <1>4 DEF NamesOf
<1> QED
  BY <1>5, <1>6, <1>7 DEF more

LEMMA NormalsAppend ==
  ASSUME NEW sw \in Seq(Texts), NEW s \in Texts
  PROVE  Normals(Append(sw, s)) = Append(Normals(sw), Normal(s))
<1> DEFINE more == Append(sw, s)
           l == Normals(more)
           r == Append(Normals(sw), Normal(s))
           W == {Normal(t) : t \in Texts}
<1>1. /\ more \in Seq(Texts) /\ Len(more) = Len(sw) + 1 /\ more[Len(sw) + 1] = s
      /\ \A i \in 1..Len(sw) : more[i] = sw[i]
  BY AppendProperties
<1>2. Len(sw) \in Nat
  BY LenProperties
<1> HIDE DEF more
<1>3. l \in Seq(W) /\ Len(l) = Len(sw) + 1 /\ \A i \in 1..(Len(sw) + 1) : l[i] = Normal(more[i])
  BY <1>1, NormalsAre, Zenon
<1>4. /\ Normals(sw) \in Seq(W) /\ Len(Normals(sw)) = Len(sw)
      /\ \A i \in 1..Len(sw) : Normals(sw)[i] = Normal(sw[i])
  BY NormalsAre
<1>5. Normal(s) \in W
  OBVIOUS
<1> HIDE DEF l, W
<1>6. /\ r \in Seq(W) /\ Len(r) = Len(sw) + 1 /\ r[Len(sw) + 1] = Normal(s)
      /\ \A i \in 1..Len(sw) : r[i] = Normals(sw)[i]
  <2> PICK n \in Seq(W) : n = Normals(sw)
    BY <1>4
  <2> PICK e \in W : e = Normal(s)
    BY <1>5
  <2>1. /\ Append(n, e) \in Seq(W) /\ Len(Append(n, e)) = Len(n) + 1
        /\ Append(n, e)[Len(n) + 1] = e
        /\ \A i \in 1..Len(n) : Append(n, e)[i] = n[i]
    BY AppendProperties
  <2> QED
    BY <1>4, <2>1, Zenon
<1> HIDE DEF r
<1>7. \A i \in 1..Len(l) : l[i] = r[i]
  <2> SUFFICES ASSUME NEW i \in 1..(Len(sw) + 1) PROVE l[i] = r[i]
    BY <1>3
  <2>1. CASE i = Len(sw) + 1
    BY <1>1, <1>3, <1>6, <2>1, Zenon
  <2>2. CASE i # Len(sw) + 1
    <3>1. i \in 1..Len(sw)
      BY <1>2, <2>2
    <3> QED
      BY <1>1, <1>3, <1>4, <1>6, <3>1, Zenon
  <2> QED
    BY <2>1, <2>2
<1>8. l = r
  BY <1>3, <1>6, <1>7, SeqEqual
<1> QED
  BY <1>8 DEF l, r, more

LEMMA NewHoldsNothing == NewCommandLine(Program) = Holding(<<>>, <<>>)
<1>1. <<>> \in Seq(Texts) /\ DOMAIN <<>> = {} /\ Len(<<>>) = 0
  OBVIOUS
<1>2. NamesOf(<<>>) = {}
  BY <1>1 DEF NamesOf
<1>3. Normals(<<>>) = <<>>
  <2>1. /\ Normals(<<>>) \in Seq({Normal(t) : t \in Texts})
        /\ Len(Normals(<<>>)) = Len(<<>>)
    BY <1>1, NormalsAre, Zenon
  <2> PICK l : l = Normals(<<>>)
    OBVIOUS
  <2> PICK W : l \in Seq(W)
    BY <2>1
  <2> QED
    BY <1>1, <2>1, EmptySeq
<1>4. (<<Program>> \o <<>>) \o <<>> = <<Program>>
  OBVIOUS
<1>5. [n \in {} |-> ValueTold(<<>>, n)] = <<>>
  OBVIOUS
<1>6. 1 + Len(<<>>) = 1
  BY <1>1
<1> QED
  BY <1>2, <1>3, <1>4, <1>5, <1>6, Zenon DEF NewCommandLine, Holding, Line

LEMMA HoldingSwitch ==
  ASSUME NEW sw \in Seq(Texts), NEW ar \in Seq(Texts), NEW s \in Texts
  PROVE  appendSwitch(Holding(sw, ar), s.dashes, s.name, s.value) = Holding(Append(sw, s), ar)
<1> DEFINE h == <<Program>> \o Normals(sw)
           more == Append(sw, s)
<1>1. h \in Seq(Everything) /\ Len(h) = Len(sw) + 1 /\ ar \in Seq(Everything)
  BY HoldingIs
<1>2. Normal(s) \in Everything
  BY DEF Everything
<1> HIDE DEF h
<1>3. InsertAt(h \o ar, Len(h) + 1, Normal(s)) = Append(h, Normal(s)) \o ar
  BY <1>1, <1>2, InsertBetween
<1>4. Append(h, Normal(s)) = <<Program>> \o Normals(more)
  <2>1. Normals(more) = Append(Normals(sw), Normal(s))
    BY NormalsAppend
  <2> PICK n \in Seq(Everything) : n = Normals(sw)
    BY HoldingIs
  <2> PICK one \in Seq(Everything) : one = <<Program>>
    BY HoldingIs
  <2> PICK e \in Everything : e = Normal(s)
    BY <1>2
  <2>2. Append(one \o n, e) = one \o Append(n, e)
    <3>1. <<e>> \in Seq(Everything) /\ one \o n \in Seq(Everything)
      BY ConcatProperties
    <3>2. Append(one \o n, e) = (one \o n) \o <<e>> /\ Append(n, e) = n \o <<e>>
      BY <3>1, AppendIsConcat
    <3> QED
      BY <3>1, <3>2, ConcatAssociative
  <2> QED
    BY <2>1, <2>2, Zenon DEF h
<1>5. NamesOf(more) = NamesOf(sw) \union {s.name}
  BY NamesAppend
<1>6. ASSUME NEW n \in NamesOf(sw) \union {s.name}
      PROVE  (IF n = s.name THEN s.value ELSE [k \in NamesOf(sw) |-> ValueTold(sw, k)][n])
               = ValueTold(more, n)
  <2>1. ValueTold(more, n) = IF n = s.name THEN s.value ELSE ValueTold(sw, n)
    BY ValueToldAppend
  <2> HIDE DEF more
  <2> QED
    BY <2>1
<1>7. 1 + Len(more) = (1 + Len(sw)) + 1
  <2>1. Len(more) = Len(sw) + 1 /\ Len(sw) \in Nat
    BY AppendProperties, LenProperties
  <2> QED
    BY <2>1
<1> DEFINE c == Holding(sw, ar)
<1>8. /\ c.argv = h \o ar /\ c.switches = [k \in NamesOf(sw) |-> ValueTold(sw, k)]
      /\ c.start_args = 1 + Len(sw)
  BY DEF Holding, Line, h
<1> HIDE DEF c, more
<1>9. c.start_args + 1 = Len(h) + 1 /\ c.start_args + 1 = 1 + Len(more)
  BY <1>1, <1>7, <1>8, HoldingIs
<1>10. InsertAt(c.argv, c.start_args + 1, Normal(s)) = (<<Program>> \o Normals(more)) \o ar
  BY <1>3, <1>4, <1>8, <1>9, Zenon
<1>11. [n \in DOMAIN c.switches \union {s.name} |->
          IF n = s.name THEN s.value ELSE c.switches[n]]
         = [n \in NamesOf(more) |-> ValueTold(more, n)]
  <2>1. DOMAIN c.switches = NamesOf(sw)
    BY <1>8
  <2>2. DOMAIN c.switches \union {s.name} = NamesOf(more)
    BY <1>5, <2>1
  <2>3. \A n \in NamesOf(more) :
          (IF n = s.name THEN s.value ELSE c.switches[n]) = ValueTold(more, n)
    BY <1>5, <1>6, <1>8, Zenon
  <2> QED
    BY <2>2, <2>3, Zenon
<1> QED
  BY <1>9, <1>10, <1>11, Zenon DEF appendSwitch, Holding, Line, Normal, c, more

LEMMA AppendBehind ==
  ASSUME NEW T, NEW s \in Seq(T), NEW t \in Seq(T), NEW a \in T
  PROVE  s \o Append(t, a) = Append(s \o t, a)
<1>1. <<a>> \in Seq(T)
  OBVIOUS
<1>2. s \o t \in Seq(T)
  BY ConcatProperties
<1>3. Append(s \o t, a) = (s \o t) \o <<a>> /\ Append(t, a) = t \o <<a>>
  BY <1>1, <1>2, AppendIsConcat
<1>4. (s \o t) \o <<a>> = s \o (t \o <<a>>)
  <2> PICK last \in Seq(T) : last = <<a>>
    BY <1>1
  <2> QED
    BY ConcatAssociative
<1> QED
  BY <1>3, <1>4, Zenon

LEMMA ArgvUpdate ==
  ASSUME NEW x, NEW v, NEW m, NEW a
  PROVE  appendArg(Line(x, v, m), a) = Line(Append(x, a), v, m)
<1> PICK c : c = [argv |-> x, switches |-> v, start_args |-> m]
  OBVIOUS
<1>1. appendArg(c, a) = [argv |-> Append(x, a), switches |-> v, start_args |-> m]
  BY SMT DEF appendArg
<1> QED
  BY <1>1 DEF Line

LEMMA HoldingArg ==
  ASSUME NEW sw \in Seq(Texts), NEW ar \in Seq(Texts), NEW a \in Texts
  PROVE  appendArg(Holding(sw, ar), a) = Holding(sw, Append(ar, a))
<1> PICK h \in Seq(Everything) : h = <<Program>> \o Normals(sw)
  BY HoldingIs
<1>1. Append(h \o ar, a) = h \o Append(ar, a)
  <2>1. ar \in Seq(Everything) /\ a \in Everything
    BY HoldingIs DEF Everything
  <2> PICK S : S = Everything
    OBVIOUS
  <2>2. h \in Seq(S) /\ ar \in Seq(S) /\ a \in S
    BY <2>1
  <2>3. h \o Append(ar, a) = Append(h \o ar, a)
    BY ONLY <2>2, AppendBehind
  <2> QED
    BY <2>3
<1> DEFINE values == [n \in NamesOf(sw) |-> ValueTold(sw, n)]
<1>2. \A l : Holding(sw, l) = Line(h \o l, values, 1 + Len(sw))
  BY Zenon DEF Holding
<1> HIDE DEF values
<1>3. appendArg(Line(h \o ar, values, 1 + Len(sw)), a)
        = Line(Append(h \o ar, a), values, 1 + Len(sw))
  BY ArgvUpdate
<1> QED
  BY <1>1, <1>2, <1>3, Zenon

-----------------------------------------------------------------------------
LEMMA TrimEndIs == ASSUME NEW T, NEW s \in Seq(T) PROVE TrimEnd(s) \in Seq(T)
<1> DEFINE K == {0} \union {i \in DOMAIN s : s[i] # " "}
<1>1. Len(s) \in Nat /\ DOMAIN s = 1..Len(s) /\ \A i \in 1..Len(s) : s[i] \in T
  BY LenProperties, ElementOfSeq
<1>2. K \in SUBSET (0..Len(s)) /\ 0 \in K
  <2> PICK n \in Nat : n = Len(s)
    BY <1>1
  <2> PICK D : D = DOMAIN s
    OBVIOUS
  <2>0. D = 1..n
    BY <1>1
  <2>1. K \subseteq {0} \union D
    BY Zenon
  <2>2. {0} \union D \subseteq 0..n
    BY <2>0
  <2> QED
    BY <2>1, <2>2, Zenon
<1>3. TrimEnd(s) = SubSeq(s, 1, Max(K))
  BY Zenon DEF TrimEnd
<1> HIDE DEF K
<1>4. Max(K) \in 0..Len(s)
  <2>1. CASE K = {0}
    <3>1. Max(K) = 0
      BY <2>1, MaxOf
    <3> QED
      BY <1>1, <3>1
  <2>2. CASE K # {0}
    <3> PICK S : S = K \ {0}
      OBVIOUS
    <3>1. S \in SUBSET (1..Len(s)) /\ S # {}
      BY <1>1, <1>2, <2>2
    <3> PICK m : m = Max(S)
      OBVIOUS
    <3>2. m \in S /\ \A x \in S : x <= m
      BY <1>1, <3>1, MaxIn
    <3>3. m \in K /\ (\A x \in K : x <= m) /\ K \in SUBSET Nat
      <4>1. m \in Nat /\ \A x \in K : x = 0 \/ x \in S
        BY <1>1, <3>1, <3>2
      <4>2. \A x \in K : x <= m
        <5> SUFFICES ASSUME NEW x \in K PROVE x <= m
          OBVIOUS
        <5>1. CASE x = 0
          BY ONLY <4>1, <5>1
        <5>2. CASE x # 0
          BY <3>2, <4>1, <5>2, Zenon
        <5> QED
          BY <5>1, <5>2
      <4>3. K \in SUBSET Nat
        BY ONLY <1>1, <1>2
      <4> QED
        BY <3>2, <4>2, <4>3
    <3>4. Max(K) = m
      BY <3>3, MaxOf
    <3> QED
      BY <1>2, <3>3, <3>4
  <2> QED
    BY <2>1, <2>2
<1> PICK k \in 0..Len(s) : k = Max(K)
  BY <1>4
<1>5. SubSeq(s, 1, k) \in Seq(T)
  <2>1. 1 \in Int /\ k \in Int /\ \A i \in 1..k : s[i] \in T
    BY <1>1
  <2> QED
    BY ONLY <2>1, SubSeqProperties
<1> QED
  BY <1>3, <1>5

LEMMA TrimIs == ASSUME NEW text \in Texts PROVE TrimString(text) \in Texts
<1> PICK S : S = Seq(Symbols)
  OBVIOUS
<1>1. text \in [dashes : Nat, name : S, equals : BOOLEAN, value : S, blanks : BOOLEAN]
  BY Zenon DEF Texts
<1> PICK v : v = TrimEnd(text.value)
  OBVIOUS
<1> PICK n : n = IF text.equals THEN text.name ELSE TrimEnd(text.name)
  OBVIOUS
<1>2. v \in S /\ n \in S
  <2>1. text.value \in S /\ text.name \in S
    BY <1>1
  <2>2. \A x \in S : TrimEnd(x) \in S
    BY TrimEndIs
  <2> QED
    BY <2>1, <2>2
<1>3. TrimString(text) = [text EXCEPT !.blanks = FALSE, !.value = v, !.name = n]
  BY Zenon DEF TrimString
<1>4. [text EXCEPT !.blanks = FALSE, !.value = v, !.name = n]
        \in [dashes : Nat, name : S, equals : BOOLEAN, value : S, blanks : BOOLEAN]
  BY <1>1, <1>2
<1> QED
  BY <1>3, <1>4, Zenon DEF Texts

LEMMA TrimmedIs ==
  ASSUME NEW s \in Seq(Texts)
  PROVE  /\ Trimmed(s) \in Seq(Texts) /\ Len(Trimmed(s)) = Len(s)
         /\ \A i \in 1..Len(s) : Trimmed(s)[i] = TrimString(s[i])
<1> DEFINE l == Trimmed(s)
<1>1. Len(s) \in Nat /\ DOMAIN s = 1..Len(s) /\ \A i \in 1..Len(s) : s[i] \in Texts
  BY LenProperties, ElementOfSeq
<1>2. l = [i \in 1..Len(s) |-> TrimString(s[i])]
  BY <1>1, Zenon DEF Trimmed
<1>3. \A i \in 1..Len(s) : l[i] = TrimString(s[i]) /\ TrimString(s[i]) \in Texts
  BY <1>1, <1>2, TrimIs
<1> HIDE DEF l
<1>4. l \in Seq(Texts) /\ Len(l) = Len(s)
  BY <1>1, <1>2, <1>3
<1> QED
  BY <1>3, <1>4 DEF l

LEMMA TerminatorIsNoSwitch == ~isSwitch(kSwitchTerminator)
  BY DEF isSwitch, kSwitchTerminator, Text

LEMMA MinIn ==
  ASSUME NEW S \in SUBSET Nat, S # {}
  PROVE  Min(S) \in S /\ \A x \in S : Min(S) <= x
<1>1. PICK m \in S : \A x \in S : m <= x
  BY SmallestOf, Zenon
<1>2. Min(S) = m
  BY <1>1, MinOf
<1> QED
  BY <1>1, <1>2

Open(args) == \A i \in DOMAIN args : args[i] # kSwitchTerminator

LEMMA EndsIs ==
  ASSUME NEW T, NEW args \in Seq(T)
  PROVE  /\ Ends(args) \in 1..(Len(args) + 1)
         /\ \A i \in 1..(Ends(args) - 1) : args[i] # kSwitchTerminator
         /\ Ends(args) <= Len(args) => args[Ends(args)] = kSwitchTerminator
         /\ Open(args) <=> Ends(args) = Len(args) + 1
<1> DEFINE S == {Len(args) + 1} \union {i \in DOMAIN args : args[i] = kSwitchTerminator}
<1>1. Len(args) \in Nat /\ DOMAIN args = 1..Len(args)
  BY LenProperties
<1>2. S \in SUBSET Nat /\ S # {} /\ Len(args) + 1 \in S
  BY <1>1
<1>3. Ends(args) = Min(S)
  BY Zenon DEF Ends
<1>4. Ends(args) \in S /\ \A x \in S : Ends(args) <= x
  <2> HIDE DEF S
  <2> QED
    BY <1>2, <1>3, MinIn
<1> QED
  BY <1>1, <1>4 DEF Open

LEMMA EndsAre ==
  ASSUME NEW T, NEW args \in Seq(T), NEW e \in 1..(Len(args) + 1),
         \A i \in 1..(e - 1) : args[i] # kSwitchTerminator,
         e <= Len(args) => args[e] = kSwitchTerminator
  PROVE  Ends(args) = e
<1> DEFINE S == {Len(args) + 1} \union {i \in DOMAIN args : args[i] = kSwitchTerminator}
<1>1. Len(args) \in Nat /\ DOMAIN args = 1..Len(args)
  BY LenProperties
<1>2. S \in SUBSET Nat /\ e \in S
  BY <1>1
<1>3. \A x \in S : e <= x
  BY <1>1
<1>4. Ends(args) = Min(S)
  BY Zenon DEF Ends
<1> HIDE DEF S
<1> QED
  BY <1>2, <1>3, <1>4, MinOf

LEMMA EndsAppend ==
  ASSUME NEW T, NEW args \in Seq(T), NEW x \in T
  PROVE  Ends(Append(args, x)) = IF Open(args) /\ x # kSwitchTerminator THEN Len(args) + 2
                                 ELSE Ends(args)
<1> DEFINE more == Append(args, x)
<1>1. /\ more \in Seq(T) /\ Len(more) = Len(args) + 1 /\ more[Len(args) + 1] = x
      /\ \A i \in 1..Len(args) : more[i] = args[i]
  BY AppendProperties
<1>2. Len(args) \in Nat /\ DOMAIN args = 1..Len(args)
  BY LenProperties
<1>3. /\ Ends(args) \in 1..(Len(args) + 1)
      /\ \A i \in 1..(Ends(args) - 1) : args[i] # kSwitchTerminator
      /\ Ends(args) <= Len(args) => args[Ends(args)] = kSwitchTerminator
      /\ Open(args) <=> Ends(args) = Len(args) + 1
  BY EndsIs
<1> HIDE DEF more
<1>4. CASE Open(args) /\ x # kSwitchTerminator
  <2>1. Len(args) + 2 \in 1..(Len(more) + 1) /\ ~(Len(args) + 2 <= Len(more))
    BY <1>1, <1>2
  <2>2. \A i \in 1..((Len(args) + 2) - 1) : more[i] # kSwitchTerminator
    <3> SUFFICES ASSUME NEW i \in 1..((Len(args) + 2) - 1) PROVE more[i] # kSwitchTerminator
      OBVIOUS
    <3>1. CASE i = Len(args) + 1
      BY <1>1, <1>4, <3>1
    <3>2. CASE i # Len(args) + 1
      <4>1. i \in 1..Len(args)
        BY <1>2, <3>2
      <4> QED
        BY <1>1, <1>2, <1>4, <4>1 DEF Open
    <3> QED
      BY <3>1, <3>2
  <2>3. Ends(more) = Len(args) + 2
    BY <1>1, <2>1, <2>2, EndsAre
  <2> QED
    BY <1>4, <2>3 DEF more
<1>5. CASE ~(Open(args) /\ x # kSwitchTerminator)
  <2> PICK e : e = Ends(args)
    OBVIOUS
  <2>1. e \in 1..(Len(more) + 1) /\ e \in 1..(Len(args) + 1)
    BY <1>1, <1>2, <1>3
  <2>2. \A i \in 1..(e - 1) : more[i] # kSwitchTerminator
    BY <1>1, <1>2, <1>3
  <2>3. e <= Len(more) => more[e] = kSwitchTerminator
    <3>1. CASE e = Len(args) + 1
      BY <1>1, <1>3, <1>5, <3>1
    <3>2. CASE e # Len(args) + 1
      <4>1. e \in 1..Len(args) /\ e <= Len(args)
        BY <1>2, <2>1, <3>2
      <4> QED
        BY <1>1, <1>3, <4>1
    <3> QED
      BY <3>1, <3>2
  <2>4. Ends(more) = e
    BY <1>1, <2>1, <2>2, <2>3, EndsAre
  <2> QED
    BY <1>5, <2>4 DEF more
<1> QED
  BY <1>4, <1>5

-----------------------------------------------------------------------------
SwitchTexts == {t \in Texts : isSwitch(t)}
OtherTexts == {t \in Texts : ~isSwitch(t)}
Opening(args) == SubSeq(args, 1, Ends(args) - 1)

(* The switches and the arguments that a sequence of texts stands for.      *)
SwitchesIn(args) == Selected(Opening(args), SwitchTexts)
ArgumentsIn(args) ==
  Selected(Opening(args), OtherTexts) \o SubSeq(args, Ends(args), Len(args))

LEMMA PartIs ==
  ASSUME NEW T, NEW s \in Seq(T), NEW a \in Nat \ {0}, NEW k \in 0..Len(s)
  PROVE  /\ SubSeq(s, a, k) \in Seq(T)
         /\ Len(SubSeq(s, a, k)) = IF a <= k THEN k - a + 1 ELSE 0
         /\ \A i \in 1..(k - a + 1) : SubSeq(s, a, k)[i] = s[a + i - 1]
<1>1. Len(s) \in Nat /\ a \in Int /\ k \in Int
  BY LenProperties
<1>2. \A i \in a..k : s[i] \in T
  <2> SUFFICES ASSUME NEW i \in a..k PROVE s[i] \in T
    OBVIOUS
  <2>1. i \in 1..Len(s)
    BY <1>1
  <2> QED
    BY <2>1, ElementOfSeq
<1> QED
  BY <1>1, <1>2, SubSeqProperties

LEMMA PartOfAppend ==
  ASSUME NEW T, NEW s \in Seq(T), NEW x \in T, NEW a \in Nat \ {0}, NEW k \in 0..Len(s)
  PROVE  SubSeq(Append(s, x), a, k) = SubSeq(s, a, k)
<1> DEFINE more == Append(s, x)
           l == SubSeq(more, a, k)
           r == SubSeq(s, a, k)
<1>1. /\ more \in Seq(T) /\ Len(more) = Len(s) + 1
      /\ \A i \in 1..Len(s) : more[i] = s[i]
  BY AppendProperties
<1>2. Len(s) \in Nat
  BY LenProperties
<1> HIDE DEF more
<1>3. k \in 0..Len(more)
  BY <1>1, <1>2
<1>4. /\ l \in Seq(T) /\ Len(l) = (IF a <= k THEN k - a + 1 ELSE 0)
      /\ \A i \in 1..(k - a + 1) : l[i] = more[a + i - 1]
  BY <1>1, <1>3, PartIs
<1>5. /\ r \in Seq(T) /\ Len(r) = (IF a <= k THEN k - a + 1 ELSE 0)
      /\ \A i \in 1..(k - a + 1) : r[i] = s[a + i - 1]
  BY PartIs
<1> HIDE DEF l, r
<1>6. ASSUME NEW i \in 1..Len(l) PROVE l[i] = r[i]
  <2>1. i \in 1..(k - a + 1) /\ a + i - 1 \in 1..Len(s)
    BY <1>2, <1>4
  <2> QED
    BY <1>1, <1>4, <1>5, <2>1
<1>7. l = r
  BY <1>4, <1>5, <1>6, SeqEqual
<1> QED
  BY <1>7 DEF l, r, more

LEMMA OpeningIs ==
  ASSUME NEW T, NEW args \in Seq(T)
  PROVE  /\ Opening(args) \in Seq(T) /\ Len(Opening(args)) = Ends(args) - 1
         /\ \A i \in 1..(Ends(args) - 1) : Opening(args)[i] = args[i]
<1>1. Len(args) \in Nat /\ Ends(args) \in 1..(Len(args) + 1)
  BY EndsIs, LenProperties
<1> PICK e : e = Ends(args)
  OBVIOUS
<1>2. e - 1 \in 0..Len(args) /\ 1 \in Nat \ {0}
  BY <1>1
<1> DEFINE l == SubSeq(args, 1, e - 1)
<1>3. /\ l \in Seq(T) /\ Len(l) = (IF 1 <= e - 1 THEN (e - 1) - 1 + 1 ELSE 0)
      /\ \A i \in 1..((e - 1) - 1 + 1) : l[i] = args[1 + i - 1]
  BY <1>2, PartIs
<1> HIDE DEF l
<1>4. /\ l \in Seq(T) /\ Len(l) = e - 1
      /\ \A i \in 1..(e - 1) : l[i] = args[i]
  BY <1>1, <1>3
<1> QED
  BY <1>4 DEF Opening, l

LEMMA ToldAre ==
  ASSUME NEW args \in Seq(Texts)
  PROVE  /\ SwitchesIn(args) \in Seq(Texts) /\ ArgumentsIn(args) \in Seq(Texts)
         /\ \A more : /\ SwitchesTold(args, more)
                           = SwitchesIn(args) \o [i \in DOMAIN more |-> more[i].text]
                      /\ ArgumentsTold(args, more)
                           = ArgumentsIn(args) \o [i \in DOMAIN more |-> more[i].text]
<1>1. /\ Opening(args) \in Seq(Texts) /\ Len(Opening(args)) = Ends(args) - 1
      /\ \A i \in 1..(Ends(args) - 1) : Opening(args)[i] = args[i]
  BY OpeningIs
<1>2. Len(args) \in Nat /\ DOMAIN args = 1..Len(args) /\ Ends(args) \in 1..(Len(args) + 1)
  BY EndsIs, LenProperties
<1>3. ASSUME NEW i \in 1..Len(Opening(args))
      PROVE  Opening(args)[i] \in Range(args) /\ Opening(args)[i] \in Texts
  <2>1. i \in 1..Len(args) /\ Opening(args)[i] = args[i]
    BY <1>1, <1>2
  <2>2. args[i] \in Range(args)
    BY <1>2, <2>1 DEF Range
  <2>3. args[i] \in Texts
    BY <2>1, ElementOfSeq
  <2> QED
    BY <2>1, <2>2, <2>3
<1> PICK open \in Seq(Texts) : open = Opening(args)
  BY <1>1
<1> DEFINE tail == SubSeq(args, Ends(args), Len(args))
           heard == {text \in Range(args) : isSwitch(text)}
           others == {text \in Range(args) : ~isSwitch(text)}
<1>4. Selected(open, heard) = Selected(open, SwitchTexts)
  <2>1. \A i \in 1..Len(open) : open[i] \in heard <=> open[i] \in SwitchTexts
    BY <1>3 DEF SwitchTexts
  <2> HIDE DEF heard
  <2> QED
    BY <2>1, SelectedSame
<1>5. Selected(open, others) = Selected(open, OtherTexts)
  <2>1. \A i \in 1..Len(open) : open[i] \in others <=> open[i] \in OtherTexts
    BY <1>3 DEF OtherTexts
  <2> HIDE DEF others
  <2> QED
    BY <2>1, SelectedSame
<1>6. Selected(open, SwitchTexts) \in Seq(Texts) /\ Selected(open, OtherTexts) \in Seq(Texts)
  BY SelectedType
<1>7. tail \in Seq(Texts)
  <2>1. Ends(args) \in Nat \ {0} /\ Len(args) \in 0..Len(args)
    BY <1>2
  <2> QED
    BY <2>1, PartIs
<1>8. ArgumentsIn(args) \in Seq(Texts)
  <2> PICK a \in Seq(Texts) : a = Selected(open, OtherTexts)
    BY <1>6
  <2> PICK b \in Seq(Texts) : b = tail
    BY <1>7
  <2>1. a \o b \in Seq(Texts)
    BY ConcatProperties
  <2> QED
    BY <2>1, Zenon DEF ArgumentsIn
<1>9. \A more : SwitchesTold(args, more)
                  = SwitchesIn(args) \o [i \in DOMAIN more |-> more[i].text]
  BY <1>4, Zenon DEF SwitchesTold, SwitchesIn, Opening
<1>10. \A more : ArgumentsTold(args, more)
                   = ArgumentsIn(args) \o [i \in DOMAIN more |-> more[i].text]
  BY <1>5, Zenon DEF ArgumentsTold, ArgumentsIn, Opening
<1> QED
  BY <1>6, <1>8, <1>9, <1>10, Zenon DEF SwitchesIn

LEMMA ToldAppend ==
  ASSUME NEW args \in Seq(Texts), NEW x \in Texts
  PROVE  /\ SwitchesIn(Append(args, x))
              = IF Open(args) /\ isSwitch(x) THEN Append(SwitchesIn(args), x)
                ELSE SwitchesIn(args)
         /\ ArgumentsIn(Append(args, x))
              = IF Open(args) /\ isSwitch(x) THEN ArgumentsIn(args)
                ELSE Append(ArgumentsIn(args), x)
         /\ Open(Append(args, x)) <=> Open(args) /\ x # kSwitchTerminator
<1> PICK more : more = Append(args, x)
  OBVIOUS
<1> PICK n \in Nat : n = Len(args)
  BY LenProperties
<1>1. /\ more \in Seq(Texts) /\ Len(more) = n + 1 /\ more[n + 1] = x
      /\ \A i \in 1..n : more[i] = args[i]
  BY AppendProperties
<1> PICK e \in 1..(n + 1) : e = Ends(args)
  BY EndsIs
<1>2. Open(args) <=> e = n + 1
  BY EndsIs
<1>3. Ends(more) = IF Open(args) /\ x # kSwitchTerminator THEN n + 2 ELSE e
  BY EndsAppend
<1>4. Open(more) <=> Open(args) /\ x # kSwitchTerminator
  <2>1. Open(more) <=> Ends(more) = (n + 1) + 1
    BY <1>1, EndsIs
  <2> QED
    BY <1>3, <2>1
<1> PICK open \in Seq(Texts) : open = Opening(args)
  BY OpeningIs
<1> PICK sw \in Seq(Texts) : sw = Selected(open, SwitchTexts)
  BY SelectedType
<1> PICK ar \in Seq(Texts) : ar = Selected(open, OtherTexts)
  BY SelectedType
<1>5. /\ SwitchesIn(args) = sw
      /\ ArgumentsIn(args) = ar \o SubSeq(args, e, n)
  BY Zenon DEF SwitchesIn, ArgumentsIn
<1>6. CASE Open(args) /\ x # kSwitchTerminator
  <2>1. Opening(more) = Append(open, x)
    <3>1. Opening(more) = SubSeq(more, 1, n + 1)
      <4>1. (n + 2) - 1 = n + 1
        OBVIOUS
      <4> QED
        BY <1>3, <1>6, <4>1, Zenon DEF Opening
    <3>2. SubSeq(more, 1, n + 1) = Append(SubSeq(more, 1, n), more[n + 1])
      <4>1. n \in 0..(Len(more) - 1) /\ 1 \in Nat \ {0} /\ 1 <= n + 1
        BY <1>1
      <4> QED
        BY <1>1, <4>1, SubSeqAppend
    <3>3. SubSeq(more, 1, n) = SubSeq(args, 1, n)
      <4>1. n \in 0..Len(args) /\ 1 \in Nat \ {0}
        OBVIOUS
      <4> QED
        BY <4>1, PartOfAppend
    <3>4. open = SubSeq(args, 1, n)
      <4>1. e - 1 = n
        BY <1>2, <1>6
      <4> QED
        BY <4>1, Zenon DEF Opening
    <3> QED
      BY <1>1, <3>1, <3>2, <3>3, <3>4, Zenon
  <2>2. SubSeq(args, e, n) = <<>>
    <3>1. n < e
      BY <1>2, <1>6
    <3> QED
      BY <3>1, SubSeqEmpty
  <2>3. SubSeq(more, Ends(more), Len(more)) = <<>>
    <3>1. Ends(more) = n + 2 /\ Len(more) = n + 1 /\ n + 1 < n + 2 /\ n + 1 \in Int /\ n + 2 \in Int
      BY <1>1, <1>3, <1>6
    <3> QED
      BY <3>1, SubSeqEmpty
  <2>4. /\ SwitchesIn(more) = Selected(Append(open, x), SwitchTexts)
        /\ ArgumentsIn(more) = Selected(Append(open, x), OtherTexts) \o <<>>
    BY <2>1, <2>3, Zenon DEF SwitchesIn, ArgumentsIn
  <2>5. /\ Selected(Append(open, x), SwitchTexts)
             = IF x \in SwitchTexts THEN Append(sw, x) ELSE sw
        /\ Selected(Append(open, x), OtherTexts)
             = IF x \in OtherTexts THEN Append(ar, x) ELSE ar
    BY ONLY SelectedAppend, open \in Seq(Texts), x \in Texts,
            sw = Selected(open, SwitchTexts), ar = Selected(open, OtherTexts), SMTT(60)
  <2>6. (x \in SwitchTexts <=> isSwitch(x)) /\ (x \in OtherTexts <=> ~isSwitch(x))
    BY DEF SwitchTexts, OtherTexts
  <2>7. ar \o <<>> = ar /\ Append(ar, x) \o <<>> = Append(ar, x)
    <3>1. Append(ar, x) \in Seq(Texts)
      BY AppendProperties
    <3> QED
      BY <3>1, ConcatEmptySeq
  <2> QED
    BY <1>4, <1>5, <1>6, <2>2, <2>4, <2>5, <2>6, <2>7, Zenon
<1>7. CASE ~(Open(args) /\ x # kSwitchTerminator)
  <2>1. ~(Open(args) /\ isSwitch(x))
    BY <1>7, TerminatorIsNoSwitch
  <2>2. Ends(more) = e
    BY <1>3, <1>7
  <2>3. Opening(more) = open
    <3>1. e - 1 \in 0..Len(args) /\ 1 \in Nat \ {0}
      OBVIOUS
    <3>2. SubSeq(more, 1, e - 1) = SubSeq(args, 1, e - 1)
      BY <3>1, PartOfAppend
    <3> QED
      BY <2>2, <3>2, Zenon DEF Opening
  <2>4. SubSeq(more, e, n + 1) = Append(SubSeq(args, e, n), x)
    <3>1. e \in Nat \ {0} /\ n \in 0..(Len(more) - 1) /\ e <= n + 1 /\ n \in 0..Len(args)
      BY <1>1
    <3>2. SubSeq(more, e, n + 1) = Append(SubSeq(more, e, n), more[n + 1])
      BY <1>1, <3>1, SubSeqAppend
    <3>3. SubSeq(more, e, n) = SubSeq(args, e, n)
      BY <3>1, PartOfAppend
    <3> QED
      BY <1>1, <3>2, <3>3, Zenon
  <2>5. SwitchesIn(more) = sw /\ ArgumentsIn(more) = ar \o Append(SubSeq(args, e, n), x)
    BY <1>1, <2>2, <2>3, <2>4, Zenon DEF SwitchesIn, ArgumentsIn
  <2>6. ar \o Append(SubSeq(args, e, n), x) = Append(ar \o SubSeq(args, e, n), x)
    <3>1. SubSeq(args, e, n) \in Seq(Texts)
      <4>1. e \in Nat \ {0} /\ n \in 0..Len(args)
        OBVIOUS
      <4> QED
        BY <4>1, PartIs
    <3> PICK b \in Seq(Texts) : b = SubSeq(args, e, n)
      BY <3>1
    <3>2. ar \o Append(b, x) = Append(ar \o b, x)
      BY ONLY AppendBehind, ar \in Seq(Texts), b \in Seq(Texts), x \in Texts
    <3> QED
      BY <3>2
  <2> QED
    BY <1>4, <1>5, <1>7, <2>1, <2>5, <2>6, Zenon
<1> QED
  BY <1>6, <1>7

-----------------------------------------------------------------------------
Parsed(switches, line) == [switches |-> switches, cl |-> line]
Parsings ==
  {Parsed(z[1], Holding(z[2], z[3])) : z \in BOOLEAN \X Seq(Texts) \X Seq(Texts)}

(* What one more argument makes of it.                                      *)
After(b, sw, ar, arg) ==
  Parsed(b /\ arg # kSwitchTerminator,
         IF b /\ isSwitch(arg) THEN Holding(Append(sw, arg), ar)
         ELSE Holding(sw, Append(ar, arg)))

LEMMA ParseHolding ==
  ASSUME NEW b \in BOOLEAN, NEW sw \in Seq(Texts), NEW ar \in Seq(Texts), NEW text \in Texts
  PROVE  ParseArgument(Parsed(b, Holding(sw, ar)), text) = After(b, sw, ar, TrimString(text))
<1> PICK c : c = Holding(sw, ar)
  OBVIOUS
<1> PICK so_far : so_far = Parsed(b, c)
  OBVIOUS
<1> PICK arg \in Texts : arg = TrimString(text)
  BY TrimIs
<1>1. so_far.switches = b /\ so_far.cl = c
  BY Zenon DEF Parsed
<1> PICK switches \in BOOLEAN : switches = (b /\ arg # kSwitchTerminator)
  OBVIOUS
<1>2. (switches /\ isSwitch(arg)) <=> (b /\ isSwitch(arg))
  BY TerminatorIsNoSwitch, Zenon
<1>3. ParseArgument(so_far, text)
        = Parsed(switches, IF switches /\ isSwitch(arg)
                             THEN appendSwitch(c, arg.dashes, arg.name, arg.value)
                             ELSE appendArg(c, arg))
  BY <1>1, Zenon DEF ParseArgument, Parsed
<1>4. appendSwitch(c, arg.dashes, arg.name, arg.value) = Holding(Append(sw, arg), ar)
  BY HoldingSwitch
<1>5. appendArg(c, arg) = Holding(sw, Append(ar, arg))
  BY HoldingArg
<1> QED
  BY <1>2, <1>3, <1>4, <1>5, Zenon DEF After

IsParsing(g, base, seq) ==
  g = [s \in SUBSET DOMAIN seq |->
         IF s = {} THEN base
         ELSE LET i == Max(s) IN ParseArgument(g[s \ {i}], seq[i])]

LEMMA ParsingRuns ==
  ASSUME NEW seq \in Seq(Texts), NEW base \in Parsings
  PROVE  \E f : /\ f[0] = base
                /\ \A k \in 1..Len(seq) : f[k] = ParseArgument(f[k - 1], seq[k])
                /\ FoldLeft(ParseArgument, base, seq) = f[Len(seq)]
<1> DEFINE m == Len(seq)
           step == [z \in Parsings \X Texts |-> ParseArgument(z[1], z[2])]
<1>1. m \in Nat /\ DOMAIN seq = 1..m
  BY LenProperties
<1>2. \E g : IsParsing(g, base, seq)
  <2>1. step \in [Parsings \X Texts -> Parsings]
    <3>1. ASSUME NEW st \in Parsings, NEW text \in Texts
          PROVE  ParseArgument(st, text) \in Parsings
      <4>1. PICK z \in BOOLEAN \X Seq(Texts) \X Seq(Texts) : st = Parsed(z[1], Holding(z[2], z[3]))
        BY <3>1, Zenon DEF Parsings
      <4> PICK b \in BOOLEAN, sw \in Seq(Texts), ar \in Seq(Texts) :
                 b = z[1] /\ sw = z[2] /\ ar = z[3]
        OBVIOUS
      <4> PICK arg \in Texts : arg = TrimString(text)
        BY <3>1, TrimIs
      <4> PICK txt \in Texts : txt = text
        BY <3>1
      <4>2. ParseArgument(st, text) = After(b, sw, ar, arg)
        <5>1. ParseArgument(Parsed(b, Holding(sw, ar)), txt) = After(b, sw, ar, TrimString(txt))
          BY ParseHolding
        <5> QED
          BY <4>1, <5>1, Zenon
      <4> PICK c \in BOOLEAN : c = (b /\ arg # kSwitchTerminator)
        OBVIOUS
      <4>3. Append(sw, arg) \in Seq(Texts) /\ Append(ar, arg) \in Seq(Texts)
        BY AppendProperties
      <4>4. \A x \in Seq(Texts), y \in Seq(Texts) : Parsed(c, Holding(x, y)) \in Parsings
        <5> SUFFICES ASSUME NEW x \in Seq(Texts), NEW y \in Seq(Texts)
                     PROVE  Parsed(c, Holding(x, y)) \in Parsings
          OBVIOUS
        <5> PICK w : w = <<c, x, y>>
          OBVIOUS
        <5>1. w \in BOOLEAN \X Seq(Texts) \X Seq(Texts) /\ w[1] = c /\ w[2] = x /\ w[3] = y
          OBVIOUS
        <5> QED
          BY <5>1, Zenon DEF Parsings
      <4> QED
        BY <4>2, <4>3, <4>4, ZenonT(60) DEF After
    <3>2. \A z \in Parsings \X Texts : ParseArgument(z[1], z[2]) \in Parsings
      <4> SUFFICES ASSUME NEW z \in Parsings \X Texts PROVE ParseArgument(z[1], z[2]) \in Parsings
        OBVIOUS
      <4>1. z[1] \in Parsings /\ z[2] \in Texts
        OBVIOUS
      <4> QED
        BY <3>1, <4>1, Zenon
    <3> QED
      BY <3>2
  <2>2. \A st \in Parsings, text \in Texts : step[st, text] = ParseArgument(st, text)
    <3> SUFFICES ASSUME NEW st \in Parsings, NEW text \in Texts
                 PROVE  step[st, text] = ParseArgument(st, text)
      OBVIOUS
    <3> PICK z : z = <<st, text>>
      OBVIOUS
    <3>1. z \in Parsings \X Texts /\ z[1] = st /\ z[2] = text
      OBVIOUS
    <3>2. step[z] = ParseArgument(z[1], z[2])
      BY <3>1, Zenon
    <3> HIDE DEF step
    <3> QED
      BY <3>1, <3>2, Zenon
  <2> HIDE DEF step
  <2>3. PICK iter \in [SUBSET (1..m) -> Parsings] : IsFold(iter, step, base, seq, m)
    BY <2>1, FoldExists, Zenon
  <2>4. ASSUME NEW s \in SUBSET (1..m), s # {}
        PROVE  step[iter[s \ {Max(s)}], seq[Max(s)]]
                 = ParseArgument(iter[s \ {Max(s)}], seq[Max(s)])
    <3>1. Max(s) \in 1..m
      BY <1>1, <2>4, MaxIn
    <3>2. seq[Max(s)] \in Texts /\ iter[s \ {Max(s)}] \in Parsings
      BY <1>1, <2>3, <3>1, ElementOfSeq
    <3> QED
      BY <2>2, <3>2, Zenon
  <2>5. ASSUME NEW s \in SUBSET (1..m)
        PROVE  iter[s] = IF s = {} THEN base
                         ELSE ParseArgument(iter[s \ {Max(s)}], seq[Max(s)])
    <3>1. iter[s] = IF s = {} THEN base ELSE step[iter[s \ {Max(s)}], seq[Max(s)]]
      BY <2>3, Zenon DEF IsFold
    <3> QED
      BY <2>4, <3>1, Zenon
  <2>6. iter = [s \in SUBSET (1..m) |-> iter[s]]
    BY <2>3
  <2>7. IsParsing(iter, base, seq)
    BY <1>1, <2>5, <2>6, Zenon DEF IsParsing
  <2> QED
    BY <2>7, Zenon
<1> DEFINE g == CHOOSE h : IsParsing(h, base, seq)
           f == [k \in 0..m |-> g[1..k]]
<1>3. IsParsing(g, base, seq)
  BY <1>2, Zenon
<1>4. FoldLeft(ParseArgument, base, seq) = g[1..m]
  BY <1>1, Zenon DEF FoldLeft, MapThenFoldSet, IsParsing
<1> HIDE DEF g, m, step
<1>5. \A s \in SUBSET (1..m) :
        g[s] = IF s = {} THEN base ELSE ParseArgument(g[s \ {Max(s)}], seq[Max(s)])
  BY <1>1, <1>3, Zenon DEF IsParsing
<1>6. f[0] = base
  <2>1. 1..0 = {} /\ 0 \in 0..m /\ {} \in SUBSET (1..m)
    BY <1>1
  <2> QED
    BY <1>5, <2>1, Zenon
<1>7. ASSUME NEW k \in 1..m PROVE f[k] = ParseArgument(f[k - 1], seq[k])
  <2>1. k \in 0..m /\ k - 1 \in 0..m
    BY <1>1
  <2>2. /\ 1..k \in SUBSET (1..m) /\ 1..k # {} /\ Max(1..k) = k
        /\ (1..k) \ {k} = 1..(k - 1)
    BY <1>1, Segment
  <2> QED
    BY <1>5, <2>1, <2>2, Zenon
<1>8. FoldLeft(ParseArgument, base, seq) = f[m]
  BY <1>1, <1>4
<1> HIDE DEF f
<1> QED
  BY <1>6, <1>7, <1>8, Zenon DEF m

LEMMA ProgramFirst ==
  ASSUME NEW T, NEW s \in Seq(T), NEW p
  PROVE  Head(<<p>> \o s) = p /\ Tail(<<p>> \o s) = s
<1> DEFINE S == T \union {p}
<1> PICK one : one = <<p>>
  OBVIOUS
<1>1. one \in Seq(S) /\ Len(one) = 1 /\ one[1] = p
  OBVIOUS
<1>2. s \in Seq(S)
  BY SeqMonotonic
<1> HIDE DEF S
<1> PICK n \in Nat : n = Len(s)
  BY LenProperties
<1> DEFINE c == one \o s
<1>3. /\ c \in Seq(S) /\ Len(c) = 1 + n
      /\ \A i \in 1..(1 + n) : c[i] = IF i <= 1 THEN one[i] ELSE s[i - 1]
  BY <1>1, <1>2, ConcatProperties
<1> HIDE DEF c
<1>4. c # <<>>
  BY <1>3, EmptySeq
<1>5. Head(c) = p
  <2>1. Head(c) = c[1]
    BY <1>3, <1>4
  <2>2. 1 \in 1..(1 + n) /\ 1 <= 1
    OBVIOUS
  <2>3. c[1] = one[1]
    BY <1>3, <2>2, Zenon
  <2> QED
    BY <1>1, <2>1, <2>3
<1>6. Tail(c) = s
  <2> PICK t : t = Tail(c)
    OBVIOUS
  <2>1. t \in Seq(S) /\ Len(t) = n /\ \A i \in 1..n : t[i] = c[i + 1]
    BY <1>3, <1>4, HeadTailProperties
  <2>2. ASSUME NEW i \in 1..Len(t) PROVE t[i] = s[i]
    <3>1. i \in 1..n /\ i + 1 \in 1..(1 + n) /\ ~(i + 1 <= 1) /\ (i + 1) - 1 = i
      BY <2>1
    <3> QED
      BY <1>3, <2>1, <3>1
  <2>3. t = s
    BY <1>2, <2>1, <2>2, SeqEqual
  <2> QED
    BY <2>3
<1> QED
  BY <1>5, <1>6 DEF c

(* What initFromArgv makes of a program's arguments.                        *)
LEMMA InitFromArgv ==
  ASSUME NEW s \in Seq(Texts)
  PROVE  initFromArgv(<<Program>> \o s)
           = Holding(SwitchesIn(Trimmed(s)), ArgumentsIn(Trimmed(s)))
<1> PICK args \in Seq(Texts) : args = Trimmed(s)
  BY TrimmedIs
<1>1. Len(args) = Len(s) /\ \A i \in 1..Len(s) : args[i] = TrimString(s[i])
  BY TrimmedIs
<1> PICK n \in Nat : n = Len(s)
  BY LenProperties
<1> DEFINE Told(a) == Parsed(Open(a), Holding(SwitchesIn(a), ArgumentsIn(a)))
           base == Parsed(TRUE, NewCommandLine(Program))
<1>2. base = Told(<<>>)
  <2>1. <<>> \in Seq(Texts) /\ Len(<<>>) = 0 /\ DOMAIN <<>> = {}
    OBVIOUS
  <2>2. Open(<<>>) <=> TRUE
    BY <2>1 DEF Open
  <2>3. Ends(<<>>) = 1
    <3>1. Open(<<>>) <=> Ends(<<>>) = Len(<<>>) + 1
      BY <2>1, EndsIs, Zenon
    <3> QED
      BY <2>1, <2>2, <3>1
  <2>4. Opening(<<>>) = <<>> /\ SubSeq(<<>>, Ends(<<>>), Len(<<>>)) = <<>>
    <3>1. SubSeq(<<>>, 1, 0) = <<>>
      BY SubSeqEmpty
    <3>2. 1 - 1 = 0
      OBVIOUS
    <3> QED
      BY <2>1, <2>3, <3>1, <3>2, Zenon DEF Opening
  <2>5. SwitchesIn(<<>>) = <<>>
    BY <2>4, SelectedEmpty, Zenon DEF SwitchesIn
  <2>6. ArgumentsIn(<<>>) = <<>>
    <3>1. <<>> \o <<>> = <<>>
      OBVIOUS
    <3> QED
      BY <2>4, <3>1, SelectedEmpty, Zenon DEF ArgumentsIn
  <2>7. Open(<<>>) = TRUE
    BY <2>2 DEF Open
  <2> QED
    BY <2>5, <2>6, <2>7, NewHoldsNothing, Zenon
<1>3. base \in Parsings
  <2>1. <<>> \in Seq(Texts)
    OBVIOUS
  <2> PICK e \in Seq(Texts) : e = <<>>
    BY <2>1
  <2> PICK w : w = <<TRUE, e, e>>
    OBVIOUS
  <2>2. w \in BOOLEAN \X Seq(Texts) \X Seq(Texts) /\ w[1] = TRUE /\ w[2] = e /\ w[3] = e
    OBVIOUS
  <2> QED
    BY <2>2, NewHoldsNothing, Zenon DEF Parsings
<1>4. PICK f : /\ f[0] = base
               /\ \A k \in 1..n : f[k] = ParseArgument(f[k - 1], s[k])
               /\ FoldLeft(ParseArgument, base, s) = f[n]
  <2> PICK b \in Parsings : b = base
    BY <1>3
  <2>1. PICK f : /\ f[0] = b
                 /\ \A k \in 1..Len(s) : f[k] = ParseArgument(f[k - 1], s[k])
                 /\ FoldLeft(ParseArgument, b, s) = f[Len(s)]
    BY ParsingRuns, Zenon
  <2> QED
    BY <2>1, Zenon
<1> DEFINE G == {k \in 0..n : f[k] = Told(SubSeq(args, 1, k))}
<1>5. 0 \in G
  <2>1. SubSeq(args, 1, 0) = <<>>
    BY SubSeqEmpty
  <2>2. 0 \in 0..n
    OBVIOUS
  <2>3. f[0] = Told(SubSeq(args, 1, 0))
    BY <1>2, <1>4, <2>1, Zenon
  <2> HIDE DEF Told
  <2> QED
    BY <2>2, <2>3
<1>6. ASSUME NEW k \in 0..(n - 1), k \in G PROVE k + 1 \in G
  <2>1. k + 1 \in 1..n /\ k + 1 \in 0..n /\ (k + 1) - 1 = k
    OBVIOUS
  <2>2. f[k + 1] = ParseArgument(f[k], s[k + 1])
    BY <1>4, <2>1
  <2> PICK pre \in Seq(Texts) : pre = SubSeq(args, 1, k)
    <3>1. 1 \in Nat \ {0} /\ k \in 0..Len(args)
      BY <1>1
    <3> QED
      BY <3>1, PartIs
  <2> PICK text \in Texts : text = s[k + 1]
    BY <2>1, ElementOfSeq
  <2> PICK arg \in Texts : arg = TrimString(text)
    BY TrimIs
  <2>3. SubSeq(args, 1, k + 1) = Append(pre, arg)
    <3>1. 1 \in Nat \ {0} /\ k \in 0..(Len(args) - 1) /\ 1 <= k + 1
      BY <1>1
    <3>2. SubSeq(args, 1, k + 1) = Append(SubSeq(args, 1, k), args[k + 1])
      BY <3>1, SubSeqAppend
    <3>3. args[k + 1] = arg
      BY <1>1, <2>1
    <3> QED
      BY <3>2, <3>3, Zenon
  <2>4. f[k] = Told(pre)
    BY <1>6
  <2> PICK sw \in Seq(Texts) : sw = SwitchesIn(pre)
    BY ToldAre
  <2> PICK ar \in Seq(Texts) : ar = ArgumentsIn(pre)
    BY ToldAre
  <2> PICK b \in BOOLEAN : b = Open(pre)
    BY DEF Open
  <2>5. ParseArgument(f[k], text) = After(b, sw, ar, arg)
    <3>1. ParseArgument(Parsed(b, Holding(sw, ar)), text) = After(b, sw, ar, TrimString(text))
      BY ParseHolding
    <3> QED
      BY <2>4, <3>1, Zenon
  <2> PICK more : more = Append(pre, arg)
    OBVIOUS
  <2>6. /\ SwitchesIn(more) = IF b /\ isSwitch(arg) THEN Append(sw, arg) ELSE sw
        /\ ArgumentsIn(more) = IF b /\ isSwitch(arg) THEN ar ELSE Append(ar, arg)
        /\ Open(more) <=> b /\ arg # kSwitchTerminator
    BY ToldAppend, ZenonT(60)
  <2>7. Open(more) = (b /\ arg # kSwitchTerminator)
    BY <2>6, Zenon DEF Open
  <2>8. Told(more) = After(b, sw, ar, arg)
    BY <2>6, <2>7, Zenon DEF After
  <2>9. f[k + 1] = Told(SubSeq(args, 1, k + 1))
    BY <2>2, <2>3, <2>5, <2>8, Zenon
  <2> HIDE DEF Told
  <2> QED
    BY <2>1, <2>9
<1> HIDE DEF G
<1>7. \A k \in 0..n : k \in G
  BY <1>5, <1>6, UpTo, Zenon
<1>8. f[n] = Told(args)
  <2>1. n \in 0..n
    OBVIOUS
  <2>2. SubSeq(args, 1, n) = args
    BY <1>1, SubSeqFull
  <2> QED
    BY <1>7, <2>1, <2>2, Zenon DEF G
<1>9. initFromArgv(<<Program>> \o s) = FoldLeft(ParseArgument, base, s).cl
  <2>1. Head(<<Program>> \o s) = Program /\ Tail(<<Program>> \o s) = s
    BY ProgramFirst
  <2> QED
    BY <2>1, Zenon DEF initFromArgv, Parsed
<1>10. Told(args).cl = Holding(SwitchesIn(args), ArgumentsIn(args))
  <2> PICK h : h = Holding(SwitchesIn(args), ArgumentsIn(args))
    OBVIOUS
  <2> QED
    BY Zenon DEF Parsed
<1> QED
  BY <1>4, <1>8, <1>9, <1>10, Zenon

-----------------------------------------------------------------------------
(* What the client has appended.                                            *)
Entries == [switch : BOOLEAN, text : Texts]
SwitchEntries == {e \in Entries : e.switch}
OtherEntries == {e \in Entries : ~e.switch}

LEMMA AppendedAre ==
  ASSUME NEW more \in Seq(Entries)
  PROVE  /\ AppendedSwitches(more) = Selected(more, SwitchEntries)
         /\ AppendedArguments(more) = Selected(more, OtherEntries)
         /\ AppendedSwitches(more) \in Seq(Entries) /\ AppendedArguments(more) \in Seq(Entries)
<1>1. DOMAIN more = 1..Len(more)
  BY LenProperties
<1>2. ASSUME NEW i \in 1..Len(more) PROVE more[i] \in Range(more) /\ more[i] \in Entries
  <2>1. more[i] \in Range(more)
    BY <1>1, <1>2 DEF Range
  <2>2. more[i] \in Entries
    BY <1>2, ElementOfSeq
  <2> QED
    BY <2>1, <2>2
<1> DEFINE heard == {a \in Range(more) : a.switch}
           others == {a \in Range(more) : ~a.switch}
<1>3. Selected(more, heard) = Selected(more, SwitchEntries)
  <2>1. \A i \in 1..Len(more) : more[i] \in heard <=> more[i] \in SwitchEntries
    BY <1>2, Zenon DEF SwitchEntries
  <2> HIDE DEF heard
  <2> QED
    BY <2>1, SelectedSame
<1>4. Selected(more, others) = Selected(more, OtherEntries)
  <2>1. \A i \in 1..Len(more) : more[i] \in others <=> more[i] \in OtherEntries
    BY <1>2, Zenon DEF OtherEntries
  <2> HIDE DEF others
  <2> QED
    BY <2>1, SelectedSame
<1>5. Selected(more, SwitchEntries) \in Seq(Entries)
      /\ Selected(more, OtherEntries) \in Seq(Entries)
  BY SelectedType
<1> QED
  BY <1>3, <1>4, <1>5, Zenon DEF AppendedSwitches, AppendedArguments

TextsOf(more) == [i \in DOMAIN more |-> more[i].text]

LEMMA TextsOfAre ==
  ASSUME NEW more \in Seq(Entries)
  PROVE  /\ TextsOf(more) \in Seq(Texts) /\ Len(TextsOf(more)) = Len(more)
         /\ \A i \in 1..Len(more) : TextsOf(more)[i] = more[i].text
<1> DEFINE l == TextsOf(more)
<1>1. Len(more) \in Nat /\ DOMAIN more = 1..Len(more) /\ \A i \in 1..Len(more) : more[i] \in Entries
  BY LenProperties, ElementOfSeq
<1>2. \A i \in 1..Len(more) : more[i].text \in Texts
  BY <1>1 DEF Entries
<1>3. l = [i \in 1..Len(more) |-> more[i].text]
  BY <1>1, Zenon DEF TextsOf
<1> HIDE DEF l
<1>4. l \in Seq(Texts) /\ Len(l) = Len(more)
  BY <1>1, <1>2, <1>3
<1>5. \A i \in 1..Len(more) : l[i] = more[i].text
  BY <1>3
<1> QED
  BY <1>4, <1>5 DEF l

LEMMA TextsOfAppend ==
  ASSUME NEW more \in Seq(Entries), NEW e \in Entries
  PROVE  TextsOf(Append(more, e)) = Append(TextsOf(more), e.text)
<1> PICK longer : longer = Append(more, e)
  OBVIOUS
<1>1. /\ longer \in Seq(Entries) /\ Len(longer) = Len(more) + 1 /\ longer[Len(more) + 1] = e
      /\ \A i \in 1..Len(more) : longer[i] = more[i]
  BY AppendProperties
<1> PICK n \in Nat : n = Len(more)
  BY LenProperties
<1> PICK old \in Seq(Texts) : old = TextsOf(more)
  BY TextsOfAre
<1>2. Len(old) = n /\ \A i \in 1..n : old[i] = more[i].text
  BY TextsOfAre
<1> PICK new \in Seq(Texts) : new = TextsOf(longer)
  BY <1>1, TextsOfAre
<1>3. Len(new) = n + 1 /\ \A i \in 1..(n + 1) : new[i] = longer[i].text
  BY <1>1, TextsOfAre
<1>4. e.text \in Texts
  BY DEF Entries
<1> PICK last \in Texts : last = e.text
  BY <1>4
<1> PICK r : r = Append(old, last)
  OBVIOUS
<1>5. /\ r \in Seq(Texts) /\ Len(r) = n + 1 /\ r[n + 1] = last
      /\ \A i \in 1..n : r[i] = old[i]
  <2>1. /\ Append(old, last) \in Seq(Texts) /\ Len(Append(old, last)) = Len(old) + 1
        /\ Append(old, last)[Len(old) + 1] = last
        /\ \A i \in 1..Len(old) : Append(old, last)[i] = old[i]
    BY ONLY AppendProperties, old \in Seq(Texts), last \in Texts
  <2> QED
    BY <1>2, <2>1, Zenon
<1>6. \A i \in 1..Len(new) : new[i] = r[i]
  <2> SUFFICES ASSUME NEW i \in 1..(n + 1) PROVE new[i] = r[i]
    BY <1>3
  <2>1. CASE i = n + 1
    BY <1>1, <1>3, <1>5, <2>1, Zenon
  <2>2. CASE i # n + 1
    <3>1. i \in 1..n
      BY <2>2
    <3> QED
      BY <1>1, <1>2, <1>3, <1>5, <3>1, Zenon
  <2> QED
    BY <2>1, <2>2
<1>7. new = r
  BY ONLY <1>3, <1>5, <1>6, SeqEqual, new \in Seq(Texts)
<1> QED
  BY <1>7

LEMMA ToldTypes ==
  ASSUME NEW args \in Seq(Texts), NEW more \in Seq(Entries)
  PROVE  /\ SwitchesTold(args, more) \in Seq(Texts)
         /\ ArgumentsTold(args, more) \in Seq(Texts)
         /\ SwitchesTold(args, more) = SwitchesIn(args) \o TextsOf(more)
         /\ ArgumentsTold(args, more) = ArgumentsIn(args) \o TextsOf(more)
<1> PICK sw \in Seq(Texts) : sw = SwitchesIn(args)
  BY ToldAre
<1> PICK ar \in Seq(Texts) : ar = ArgumentsIn(args)
  BY ToldAre
<1> PICK t \in Seq(Texts) : t = TextsOf(more)
  BY TextsOfAre
<1>1. sw \o t \in Seq(Texts) /\ ar \o t \in Seq(Texts)
  BY ONLY ConcatProperties, sw \in Seq(Texts), ar \in Seq(Texts), t \in Seq(Texts)
<1>2. SwitchesTold(args, more) = sw \o t /\ ArgumentsTold(args, more) = ar \o t
  BY ToldAre, ZenonT(60) DEF TextsOf
<1> QED
  BY <1>1, <1>2, Zenon

LEMMA ToldEntry ==
  ASSUME NEW args \in Seq(Texts), NEW more \in Seq(Entries), NEW e \in Entries
  PROVE  /\ SwitchesTold(args, AppendedSwitches(Append(more, e)))
              = IF e.switch THEN Append(SwitchesTold(args, AppendedSwitches(more)), e.text)
                ELSE SwitchesTold(args, AppendedSwitches(more))
         /\ ArgumentsTold(args, AppendedArguments(Append(more, e)))
              = IF e.switch THEN ArgumentsTold(args, AppendedArguments(more))
                ELSE Append(ArgumentsTold(args, AppendedArguments(more)), e.text)
<1> PICK longer \in Seq(Entries) : longer = Append(more, e)
  BY AppendProperties
<1> PICK sw \in Seq(Entries) : sw = AppendedSwitches(more)
  BY AppendedAre
<1> PICK ar \in Seq(Entries) : ar = AppendedArguments(more)
  BY AppendedAre
<1>1. /\ Selected(longer, SwitchEntries)
           = IF e \in SwitchEntries THEN Append(Selected(more, SwitchEntries), e)
             ELSE Selected(more, SwitchEntries)
      /\ Selected(longer, OtherEntries)
           = IF e \in OtherEntries THEN Append(Selected(more, OtherEntries), e)
             ELSE Selected(more, OtherEntries)
  BY ONLY SelectedAppend, longer = Append(more, e), more \in Seq(Entries), e \in Entries
<1>2. (e \in SwitchEntries <=> e.switch) /\ (e \in OtherEntries <=> ~e.switch)
  BY Zenon DEF SwitchEntries, OtherEntries
<1>3. AppendedSwitches(longer) = IF e.switch THEN Append(sw, e) ELSE sw
  BY <1>1, <1>2, AppendedAre, Zenon
<1>4. AppendedArguments(longer) = IF e.switch THEN ar ELSE Append(ar, e)
  BY <1>1, <1>2, AppendedAre, Zenon
<1> PICK last \in Texts : last = e.text
  BY DEF Entries
<1>5. ASSUME NEW base \in Seq(Texts), NEW m \in Seq(Entries)
      PROVE  base \o TextsOf(Append(m, e)) = Append(base \o TextsOf(m), last)
  <2> PICK t \in Seq(Texts) : t = TextsOf(m)
    BY <1>5, TextsOfAre
  <2>1. TextsOf(Append(m, e)) = Append(t, last)
    BY <1>5, TextsOfAppend, Zenon
  <2>2. base \o Append(t, last) = Append(base \o t, last)
    BY ONLY <1>5, AppendBehind, t \in Seq(Texts), last \in Texts, SMTT(60)
  <2> QED
    BY <2>1, <2>2, Zenon
<1>6. ASSUME NEW m \in Seq(Entries)
      PROVE  /\ SwitchesTold(args, Append(m, e)) = Append(SwitchesTold(args, m), last)
             /\ ArgumentsTold(args, Append(m, e)) = Append(ArgumentsTold(args, m), last)
  <2>1. SwitchesIn(args) \in Seq(Texts) /\ ArgumentsIn(args) \in Seq(Texts)
    BY ToldAre
  <2>2. Append(m, e) \in Seq(Entries)
    BY ONLY <1>6, AppendProperties, e \in Entries
  <2> PICK next \in Seq(Entries) : next = Append(m, e)
    BY <2>2
  <2>3. /\ SwitchesTold(args, next) = SwitchesIn(args) \o TextsOf(next)
        /\ ArgumentsTold(args, next) = ArgumentsIn(args) \o TextsOf(next)
    BY ONLY ToldTypes, args \in Seq(Texts), next \in Seq(Entries)
  <2>4. /\ SwitchesTold(args, m) = SwitchesIn(args) \o TextsOf(m)
        /\ ArgumentsTold(args, m) = ArgumentsIn(args) \o TextsOf(m)
    BY ONLY ToldTypes, args \in Seq(Texts), <1>6
  <2>5. /\ SwitchesIn(args) \o TextsOf(Append(m, e)) = Append(SwitchesIn(args) \o TextsOf(m), last)
        /\ ArgumentsIn(args) \o TextsOf(Append(m, e))
             = Append(ArgumentsIn(args) \o TextsOf(m), last)
    BY <1>5, <1>6, <2>1, Zenon
  <2> QED
    BY <2>3, <2>4, <2>5, Zenon
<1> QED
  BY <1>3, <1>4, <1>6, Zenon

-----------------------------------------------------------------------------
(* ParseCmdLineFlags keeps the program first, then what it has skipped, and *)
(* behind its argc the last argument as often as it has taken one out.      *)
Kept == {t \in Texts : Reads(t) = {}}
Skipped == Selected(SubSeq(given, 1, LookedAt), Kept)
PassInv ==
  /\ argv \in Seq(Everything) /\ argv[1] = Program
  /\ Len(Skipped) = idx - 1
  /\ \A i \in 1..(idx - 1) : argv[i + 1] = Skipped[i]
  /\ \A i \in (argc + 1)..(Len(given) + 1) : argv[i] = given[Len(given)]

(* The client's CommandLine holds what the command line told and what has   *)
(* been appended.                                                           *)
Trimming == Trimmed(Passed)
HeldInv ==
  /\ appended \in Seq(Entries)
  /\ at = "flags" => appended = <<>>
  /\ at \notin {"flags", "exited", "terminated"} =>
       /\ argv = <<Program>> \o Passed /\ Passed \in Seq(Texts)
       /\ cl = Holding(SwitchesTold(Trimming, AppendedSwitches(appended)),
                       ArgumentsTold(Trimming, AppendedArguments(appended)))

LEMMA GivenTexts ==
  ASSUME given \in CommandLines
  PROVE  /\ given \in Seq(Texts) /\ given \in Seq(Everything) /\ Len(given) \in Nat
         /\ \A i \in 1..Len(given) : given[i] \in Texts /\ given[i] \in Everything
<1>1. given \in Seq(Texts)
  BY TextsAre
<1>2. Texts \subseteq Everything
  BY Zenon DEF Everything
<1>3. given \in Seq(Everything)
  BY <1>1, <1>2, SeqMonotonic
<1>4. Len(given) \in Nat /\ \A i \in 1..Len(given) : given[i] \in Texts
  BY <1>1, LenProperties, ElementOfSeq
<1> QED
  BY <1>1, <1>2, <1>3, <1>4

LEMMA InitPass == Init => PassInv
<1> SUFFICES ASSUME Init PROVE PassInv
  OBVIOUS
<1>1. given \in CommandLines /\ argc = Len(given) + 1 /\ idx = 1 /\ argv = <<Program>> \o given
  BY DEF Init
<1> PICK n \in Nat : n = Len(given)
  BY <1>1, GivenTexts
<1>2. LookedAt = 0
  BY <1>1 DEF LookedAt
<1>3. Skipped = <<>>
  <2>1. SubSeq(given, 1, 0) = <<>>
    BY SubSeqEmpty
  <2> QED
    BY <1>2, <2>1, SelectedEmpty, Zenon DEF Skipped
<1>4. argv \in Seq(Everything) /\ argv[1] = Program
  <2> PICK one : one = <<Program>>
    OBVIOUS
  <2> PICK s \in Seq(Everything) : s = given
    BY <1>1, GivenTexts
  <2>1. Program \in Everything
    BY Zenon DEF Everything
  <2>2. one \in Seq(Everything) /\ Len(one) = 1 /\ one[1] = Program
    BY <2>1
  <2> PICK c : c = one \o s
    OBVIOUS
  <2>3. /\ c \in Seq(Everything)
        /\ \A i \in 1..(Len(one) + Len(s)) :
              c[i] = IF i <= Len(one) THEN one[i] ELSE s[i - Len(one)]
    BY ONLY <2>2, ConcatProperties, s \in Seq(Everything), c = one \o s
  <2>4. 1 \in 1..(Len(one) + Len(s)) /\ 1 <= Len(one)
    BY <2>2
  <2>5. c[1] = one[1]
    BY <2>3, <2>4, Zenon
  <2> QED
    BY <1>1, <2>2, <2>3, <2>5, Zenon
<1>5. Len(<<>>) = 0
  OBVIOUS
<1> QED
  BY <1>1, <1>3, <1>4, <1>5 DEF PassInv

LEMMA NextPass == WalkInv /\ PassInv /\ [Next]_vars => PassInv'
<1> SUFFICES ASSUME WalkInv, PassInv, [Next]_vars PROVE PassInv'
  OBVIOUS
<1>1. given \in CommandLines
  BY DEF WalkInv
<1> PICK n \in Nat : n = Len(given)
  BY <1>1, GivenTexts
<1> PICK k : k = LookedAt
  OBVIOUS
<1>2. /\ argc \in 1..(n + 1) /\ idx \in 1..argc /\ DOMAIN argv = 1..(n + 1)
      /\ k = (idx - 1) + (n + 1 - argc) /\ k \in 0..n
  BY DEF WalkInv, LookedAt
<1> PICK f : f = Skipped
  OBVIOUS
<1>3. /\ argv \in Seq(Everything) /\ argv[1] = Program
      /\ Len(f) = idx - 1
      /\ \A i \in 1..(idx - 1) : argv[i + 1] = f[i]
      /\ \A i \in (argc + 1)..(n + 1) : argv[i] = given[n]
  BY DEF PassInv
<1>4. f = Selected(SubSeq(given, 1, k), Kept)
  BY Zenon DEF Skipped
<1>5. ASSUME k + 1 <= n
      PROVE  /\ given[k + 1] \in Texts
             /\ f \in Seq(Texts)
             /\ Selected(SubSeq(given, 1, k + 1), Kept)
                  = IF Reads(given[k + 1]) = {} THEN Append(f, given[k + 1]) ELSE f
  <2> PICK s \in Seq(Texts) : s = given
    BY <1>1, GivenTexts
  <2>1. k + 1 \in 1..Len(s) /\ k \in 0..Len(s) /\ k \in 0..(Len(s) - 1) /\ 1 \in Nat \ {0}
        /\ 1 <= k + 1
    BY <1>2, <1>5
  <2> PICK x \in Texts : x = s[k + 1]
    BY <2>1, ElementOfSeq
  <2> PICK pre \in Seq(Texts) : pre = SubSeq(s, 1, k)
    BY <2>1, PartIs
  <2>2. SubSeq(s, 1, k + 1) = Append(SubSeq(s, 1, k), s[k + 1])
    BY ONLY <2>1, SubSeqAppend, s \in Seq(Texts)
  <2>3. /\ Selected(pre, Kept) \in Seq(Texts)
        /\ Selected(Append(pre, x), Kept)
             = IF x \in Kept THEN Append(Selected(pre, Kept), x) ELSE Selected(pre, Kept)
    BY ONLY SelectedAppend, SelectedType, pre \in Seq(Texts), x \in Texts
  <2>4. x \in Kept <=> Reads(x) = {}
    BY Zenon DEF Kept
  <2> QED
    BY <1>4, <2>2, <2>3, <2>4, Zenon
<1>6. CASE TakeFlag
  <2>1. /\ at = "flags" /\ idx < argc /\ idx' = idx /\ argc' = argc - 1 /\ given' = given
        /\ Reads(argv[idx + 1]) # {}
        /\ argv' = [i \in DOMAIN argv |-> IF idx < i /\ i < argc THEN argv[i + 1] ELSE argv[i]]
    BY <1>6 DEF TakeFlag, Reads
  <2>2. \A i \in (idx + 1)..argc : argv[i] = given[(i - 1) + (n + 1 - argc)]
    BY <2>1 DEF WalkInv
  <2>3. argv[idx + 1] = given[k + 1] /\ k + 1 <= n
    <3>1. idx + 1 \in (idx + 1)..argc /\ ((idx + 1) - 1) + (n + 1 - argc) = k + 1 /\ k + 1 <= n
      BY <1>2, <2>1
    <3> QED
      BY <2>2, <3>1
  <2>4. LookedAt' = k + 1
    BY <1>2, <2>1 DEF LookedAt
  <2>5. Skipped' = f
    <3>1. Selected(SubSeq(given, 1, k + 1), Kept) = f
      BY <1>5, <2>1, <2>3, Zenon
    <3> QED
      BY <2>1, <2>4, <3>1, Zenon DEF Skipped, Kept, Reads
  <2>6. ASSUME NEW i \in 1..(n + 1)
        PROVE  /\ argv'[i] = IF idx < i /\ i < argc THEN argv[i + 1] ELSE argv[i]
               /\ argv'[i] \in Everything
    <3>1. argv'[i] = IF idx < i /\ i < argc THEN argv[i + 1] ELSE argv[i]
      BY <1>2, <2>1, <2>6
    <3>2. \A j \in 1..(n + 1) : argv[j] \in Everything
      <4>1. 1..Len(argv) = DOMAIN argv
        BY <1>3, LenProperties
      <4> QED
        BY <1>2, <1>3, <4>1, ElementOfSeq
    <3>3. CASE idx < i /\ i < argc
      <4>1. i + 1 \in 1..(n + 1)
        BY <1>2, <2>6, <3>3
      <4> QED
        BY <3>1, <3>2, <3>3, <4>1
    <3>4. CASE ~(idx < i /\ i < argc)
      BY <2>6, <3>1, <3>2, <3>4
    <3> QED
      BY <3>3, <3>4
  <2>7. argv' \in Seq(Everything)
    <3>1. argv' = [i \in 1..(n + 1) |-> argv'[i]]
      BY <1>2, <2>1
    <3> PICK a : a = argv'
      OBVIOUS
    <3>2. a = [i \in 1..(n + 1) |-> a[i]] /\ \A i \in 1..(n + 1) : a[i] \in Everything
      BY <2>6, <3>1
    <3>3. a \in Seq(Everything)
      BY <3>2
    <3> QED
      BY <3>3
  <2>8. argv'[1] = Program
    BY <1>2, <1>3, <2>6
  <2>9. \A i \in 1..(idx' - 1) : argv'[i + 1] = f[i]
    BY <1>2, <1>3, <2>1, <2>6
  <2>10. \A i \in (argc' + 1)..(n + 1) : argv'[i] = given[n]
    <3>1. argc' + 1 = argc
      BY <1>2, <2>1
    <3> SUFFICES ASSUME NEW i \in argc..(n + 1) PROVE argv'[i] = given[n]
      BY <3>1, Zenon
    <3>2. i \in 1..(n + 1) /\ ~(idx < i /\ i < argc)
      BY <1>2
    <3>3. argv'[i] = argv[i]
      BY <2>6, <3>2
    <3>4. CASE i = argc
      <4>1. argc \in (idx + 1)..argc /\ (argc - 1) + (n + 1 - argc) = n
        BY <1>2, <2>1
      <4> QED
        BY <2>2, <3>3, <3>4, <4>1
    <3>5. CASE i # argc
      <4>1. i \in (argc + 1)..(n + 1)
        BY <1>2, <3>5
      <4> QED
        BY <1>3, <3>3, <4>1
    <3> QED
      BY <3>4, <3>5
  <2> QED
    BY <1>3, <2>1, <2>5, <2>7, <2>8, <2>9, <2>10, ZenonT(60) DEF PassInv
<1>7. CASE SkipArgument
  <2>1. /\ at = "flags" /\ idx < argc /\ Reads(argv[idx + 1]) = {}
        /\ UNCHANGED <<given, argc, argv>>
        /\ idx' = idx \/ idx' = idx + 1
    BY <1>7 DEF SkipArgument, Reads
  <2>2. \A i \in (idx + 1)..argc : argv[i] = given[(i - 1) + (n + 1 - argc)]
    BY <2>1 DEF WalkInv
  <2>3. argv[idx + 1] = given[k + 1] /\ k + 1 <= n
    <3>1. idx + 1 \in (idx + 1)..argc /\ ((idx + 1) - 1) + (n + 1 - argc) = k + 1 /\ k + 1 <= n
      BY <1>2, <2>1
    <3> QED
      BY <2>2, <3>1
  <2>4. CASE idx' = idx
    <3>1. Skipped' = f
      BY <1>4, <2>1, <2>4, Zenon DEF Skipped, Kept, Reads, LookedAt
    <3> QED
      BY <1>3, <2>1, <2>4, <3>1 DEF PassInv
  <2>5. CASE idx' = idx + 1
    <3>1. LookedAt' = k + 1
      BY <1>2, <2>1, <2>5 DEF LookedAt
    <3>2. given[k + 1] \in Texts /\ f \in Seq(Texts)
      BY <1>5, <2>3
    <3> PICK x \in Texts : x = given[k + 1]
      BY <3>2
    <3>3. Selected(SubSeq(given, 1, k + 1), Kept) = Append(f, x)
      BY <1>5, <2>1, <2>3, Zenon
    <3> PICK g : g = Append(f, x)
      OBVIOUS
    <3>4. Skipped' = g
      BY <2>1, <3>1, <3>3, Zenon DEF Skipped, Kept, Reads
    <3>5. Len(g) = Len(f) + 1 /\ g[Len(f) + 1] = x /\ \A i \in 1..Len(f) : g[i] = f[i]
      BY ONLY <3>2, AppendProperties, x \in Texts, g = Append(f, x)
    <3>6. \A i \in 1..idx : argv[i + 1] = g[i]
      <4> SUFFICES ASSUME NEW i \in 1..idx PROVE argv[i + 1] = g[i]
        OBVIOUS
      <4>1. CASE i = idx
        <5>1. Len(f) + 1 = idx
          BY <1>2, <1>3
        <5> QED
          BY <2>3, <3>5, <4>1, <5>1, Zenon
      <4>2. CASE i # idx
        <5>1. i \in 1..(idx - 1)
          BY <1>2, <4>2
        <5> QED
          BY <1>3, <3>5, <5>1, Zenon
      <4> QED
        BY <4>1, <4>2
    <3>7. Len(g) = idx' - 1 /\ idx' - 1 = idx
      BY <1>2, <1>3, <2>5, <3>5
    <3> QED
      BY <1>3, <2>1, <3>4, <3>6, <3>7 DEF PassInv
  <2> QED
    BY <2>1, <2>4, <2>5
<1>8. CASE UNCHANGED <<given, argc, argv, idx>>
  BY <1>8 DEF PassInv, Skipped, Kept, Reads, LookedAt
<1>9. CASE \/ MakeCommandLine \/ AppendSwitch \/ AppendArg \/ DeleteInstance \/ FillList
           \/ SetInstance \/ MainEntersOnce \/ MainInitModule \/ SetDefaultExecutor
           \/ RestoreExecutor \/ Finish \/ \E t \in Threads : Start(t) \/ Stop(t)
  <2>1. UNCHANGED <<given, argc, argv, idx>>
    BY <1>9 DEF MakeCommandLine, AppendSwitch, AppendArg, DeleteInstance, FillList, SetInstance,
                MainEntersOnce, MainInitModule, SetDefaultExecutor, RestoreExecutor, Finish,
                Start, Stop, commandline
  <2> QED
    BY <1>8, <2>1
<1>10. CASE (\E t \in Threads : Run(t)) \/ UNCHANGED vars
  <2>1. UNCHANGED <<given, argc, argv, idx>>
    BY <1>10 DEF Run, ReadInstance, LookUp, ThreadEntersOnce, ThreadInitModule,
                 DefaultExecutor, Add, commandline, vars
  <2> QED
    BY <1>8, <2>1
<1> QED
  BY <1>6, <1>7, <1>9, <1>10 DEF Next, Main

(* What CommandLine gets is what was kept, then the last argument again.    *)
LEMMA PassedParts ==
  ASSUME given \in CommandLines, argc \in 1..(Len(given) + 1)
  PROVE  \E r \in Seq(Texts) :
           /\ Passed = Selected(given, Kept) \o r /\ Len(r) = (Len(given) + 1) - argc
           /\ \A i \in 1..((Len(given) + 1) - argc) : r[i] = given[Len(given)]
<1> PICK n \in Nat : n = Len(given)
  BY GivenTexts
<1> PICK s \in Seq(Texts) : s = given
  BY GivenTexts
<1>1. argc \in 1..(n + 1)
  OBVIOUS
<1> PICK f : f = Selected(s, Kept)
  OBVIOUS
<1>2. Selected(given, {text \in Range(given) : ParseInt32Flag(text, <<"v">>) = {}}) = f
  <2> DEFINE free == {text \in Range(s) : ParseInt32Flag(text, <<"v">>) = {}}
  <2>1. \A i \in 1..Len(s) : s[i] \in free <=> s[i] \in Kept
    <3> SUFFICES ASSUME NEW i \in 1..Len(s) PROVE s[i] \in free <=> s[i] \in Kept
      OBVIOUS
    <3>1. s[i] \in Texts
      BY ElementOfSeq
    <3>2. s[i] \in Range(s)
      <4>1. i \in DOMAIN s
        BY LenProperties
      <4> QED
        BY <4>1 DEF Range
    <3> QED
      BY <3>1, <3>2, Zenon DEF Kept, Reads
  <2> HIDE DEF free
  <2>2. Selected(s, free) = Selected(s, Kept)
    BY ONLY <2>1, SelectedSame, s \in Seq(Texts)
  <2> QED
    BY <2>2, Zenon DEF free
<1> DEFINE rest == [i \in 1..Len(given) + 1 - argc |-> Last(given)]
<1>3. /\ rest \in Seq(Texts) /\ Len(rest) = (n + 1) - argc
      /\ \A i \in 1..((n + 1) - argc) : rest[i] = s[n]
  <2> PICK m \in Nat : m = (n + 1) - argc
    BY <1>1
  <2> PICK last : last = Last(given)
    OBVIOUS
  <2>1. Len(given) + 1 - argc = m
    BY <1>1
  <2>2. rest = [i \in 1..m |-> last]
    BY <2>1, Zenon
  <2>3. last = s[n]
    BY DEF Last
  <2>4. CASE m = 0
    <3> HIDE DEF rest
    <3>1. [i \in 1..0 |-> last] = <<>>
      OBVIOUS
    <3>2. rest = <<>>
      BY <2>2, <2>4, <3>1, Zenon
    <3>3. rest \in Seq(Texts) /\ Len(rest) = m
      BY <2>4, <3>2
    <3>4. \A i \in 1..m : FALSE
      BY <2>4
    <3> QED
      BY <3>3, <3>4
  <2>5. CASE m # 0
    <3>1. n \in 1..n
      BY <1>1, <2>5
    <3>2. last \in Texts
      BY <2>3, <3>1, ElementOfSeq
    <3> HIDE DEF rest
    <3> QED
      BY <2>2, <2>3, <3>2
  <2> QED
    BY <2>4, <2>5
<1> PICK r \in Seq(Texts) : r = rest
  BY <1>3
<1>4. Passed = f \o r
  BY <1>2, Zenon DEF Passed
<1>5. Len(r) = (n + 1) - argc /\ \A i \in 1..((n + 1) - argc) : r[i] = s[n]
  BY <1>3
<1> QED
  BY <1>4, <1>5, Zenon

(* What main has left in its argv when the walk is over.                    *)
LEMMA PassedIs ==
  ASSUME WalkInv, PassInv, LookedAt = Len(given)
  PROVE  Passed \in Seq(Texts) /\ argv = <<Program>> \o Passed
<1>1. given \in CommandLines
  BY DEF WalkInv
<1> PICK n \in Nat : n = Len(given)
  BY <1>1, GivenTexts
<1> PICK s \in Seq(Texts) : s = given
  BY <1>1, GivenTexts
<1>2. argc \in 1..(n + 1) /\ idx = argc /\ DOMAIN argv = 1..(n + 1)
  BY DEF WalkInv, LookedAt
<1> PICK f : f = Selected(s, Kept)
  OBVIOUS
<1>3. f \in Seq(Texts)
  BY ONLY SelectedType, s \in Seq(Texts), f = Selected(s, Kept)
<1>4. Skipped = f
  <2>1. SubSeq(s, 1, n) = s
    BY SubSeqFull
  <2> QED
    BY <2>1, Zenon DEF Skipped
<1>5. /\ argv \in Seq(Everything) /\ argv[1] = Program
      /\ Len(f) = argc - 1
      /\ \A i \in 1..(argc - 1) : argv[i + 1] = f[i]
      /\ \A i \in (argc + 1)..(n + 1) : argv[i] = s[n]
  BY <1>2, <1>4 DEF PassInv
<1>6. PICK r \in Seq(Texts) :
        /\ Passed = Selected(given, Kept) \o r /\ Len(r) = (Len(given) + 1) - argc
        /\ \A i \in 1..((Len(given) + 1) - argc) : r[i] = given[Len(given)]
  BY <1>1, <1>2, PassedParts
<1>7. Passed = f \o r
  BY <1>6, Zenon
<1>8. Len(r) = (n + 1) - argc /\ \A i \in 1..((n + 1) - argc) : r[i] = s[n]
  BY <1>6, Zenon
<1> PICK p : p = f \o r
  OBVIOUS
<1>9. /\ p \in Seq(Texts) /\ Len(p) = n
       /\ \A i \in 1..n : p[i] = IF i <= argc - 1 THEN f[i] ELSE s[n]
  <2>1. /\ p \in Seq(Texts) /\ Len(p) = Len(f) + Len(r)
        /\ \A i \in 1..(Len(f) + Len(r)) : p[i] = IF i <= Len(f) THEN f[i] ELSE r[i - Len(f)]
    BY ONLY <1>3, ConcatProperties, r \in Seq(Texts), p = f \o r
  <2>2. Len(f) = argc - 1 /\ Len(f) + Len(r) = n
    BY <1>2, <1>5, <1>8
  <2>3. ASSUME NEW i \in 1..n PROVE p[i] = IF i <= argc - 1 THEN f[i] ELSE s[n]
    <3>1. p[i] = IF i <= argc - 1 THEN f[i] ELSE r[i - (argc - 1)]
      BY <2>1, <2>2, <2>3
    <3>2. ~(i <= argc - 1) => i - (argc - 1) \in 1..((n + 1) - argc)
      BY <1>2, <2>3
    <3> QED
      BY <1>8, <3>1, <3>2
  <2> QED
    BY <2>1, <2>2, <2>3
<1>10. argv = <<Program>> \o p
  <2> PICK one : one = <<Program>>
    OBVIOUS
  <2>1. Program \in Everything /\ Texts \subseteq Everything
    BY Zenon DEF Everything
  <2>2. one \in Seq(Everything) /\ Len(one) = 1 /\ one[1] = Program
    BY <2>1
  <2>3. p \in Seq(Everything)
    BY ONLY <1>9, <2>1, SeqMonotonic
  <2> PICK c : c = one \o p
    OBVIOUS
  <2>4. /\ c \in Seq(Everything) /\ Len(c) = Len(one) + Len(p)
        /\ \A i \in 1..(Len(one) + Len(p)) :
              c[i] = IF i <= Len(one) THEN one[i] ELSE p[i - Len(one)]
    BY ONLY <2>2, <2>3, ConcatProperties, c = one \o p
  <2>5. Len(c) = n + 1 /\ Len(argv) = n + 1
    <3>1. DOMAIN argv = 1..Len(argv) /\ Len(argv) \in Nat
      BY <1>5, LenProperties
    <3> QED
      BY <1>2, <1>9, <2>2, <2>4, <3>1
  <2>6. ASSUME NEW i \in 1..Len(argv) PROVE argv[i] = c[i]
    <3>1. i \in 1..(n + 1)
      BY <2>5, <2>6
    <3>2. c[i] = IF i <= 1 THEN one[i] ELSE p[i - 1]
      BY <1>9, <2>2, <2>4, <2>5, <3>1
    <3>3. CASE i = 1
      BY <1>5, <2>2, <3>2, <3>3
    <3>4. CASE i # 1
      <4>1. i - 1 \in 1..n /\ ~(i <= 1) /\ (i - 1) + 1 = i
        BY <3>1, <3>4
      <4>2. c[i] = p[i - 1]
        BY <3>2, <4>1
      <4>3. CASE i - 1 <= argc - 1
        <5>1. i - 1 \in 1..(argc - 1)
          BY <1>2, <4>1, <4>3
        <5> QED
          BY <1>5, <1>9, <4>1, <4>2, <4>3, <5>1, Zenon
      <4>4. CASE ~(i - 1 <= argc - 1)
        <5>1. i \in (argc + 1)..(n + 1)
          BY <1>2, <3>1, <4>4
        <5> QED
          BY <1>5, <1>9, <4>1, <4>2, <4>4, <5>1, Zenon
      <4> QED
        BY <4>3, <4>4
    <3> QED
      BY <3>3, <3>4
  <2>7. argv = c
    BY ONLY <1>5, <2>4, <2>5, <2>6, SeqEqual
  <2> QED
    BY <2>7
<1> QED
  BY <1>7, <1>9, <1>10, Zenon

LEMMA NothingTold ==
  ASSUME NEW args \in Seq(Texts)
  PROVE  /\ SwitchesTold(args, AppendedSwitches(<<>>)) = SwitchesIn(args)
         /\ ArgumentsTold(args, AppendedArguments(<<>>)) = ArgumentsIn(args)
<1>1. <<>> \in Seq(Entries)
  OBVIOUS
<1>2. AppendedSwitches(<<>>) = <<>> /\ AppendedArguments(<<>>) = <<>>
  BY <1>1, AppendedAre, SelectedEmpty, Zenon
<1> PICK t \in Seq(Texts) : t = TextsOf(<<>>)
  BY <1>1, TextsOfAre
<1>3. t = <<>>
  <2>1. Len(TextsOf(<<>>)) = Len(<<>>)
    BY <1>1, TextsOfAre, Zenon
  <2>2. Len(<<>>) = 0
    OBVIOUS
  <2>3. Len(t) = 0
    BY <2>1, <2>2, Zenon
  <2> QED
    BY ONLY <2>3, EmptySeq, t \in Seq(Texts)
<1> PICK sw \in Seq(Texts) : sw = SwitchesIn(args)
  BY ToldAre
<1> PICK ar \in Seq(Texts) : ar = ArgumentsIn(args)
  BY ToldAre
<1>4. sw \o <<>> = sw /\ ar \o <<>> = ar
  BY ONLY ConcatEmptySeq, sw \in Seq(Texts), ar \in Seq(Texts)
<1>5. SwitchesTold(args, <<>>) = sw \o t /\ ArgumentsTold(args, <<>>) = ar \o t
  BY <1>1, ToldTypes, Zenon
<1> QED
  BY <1>2, <1>3, <1>4, <1>5, Zenon

LEMMA EntryIs ==
  ASSUME NEW b \in BOOLEAN, NEW s \in Texts
  PROVE  LET e == [switch |-> b, text |-> s] IN e \in Entries /\ e.switch = b /\ e.text = s
<1>1. [switch |-> b, text |-> s] \in Entries
  BY Zenon DEF Entries
<1> QED
  BY <1>1, Zenon

LEMMA NextHeld == WalkInv /\ PassInv /\ HeldInv /\ [Next]_vars => HeldInv'
<1> SUFFICES ASSUME WalkInv, PassInv, HeldInv, [Next]_vars PROVE HeldInv'
  OBVIOUS
<1>1. ASSUME UNCHANGED <<given, argc>>
      PROVE  Passed' = Passed /\ Trimming' = Trimming
  <2>1. Passed' = Passed
    BY <1>1, Zenon DEF Passed
  <2> QED
    BY <2>1, Zenon DEF Trimming
<1> DEFINE Sw == SwitchesTold(Trimming, AppendedSwitches(appended))
           Ar == ArgumentsTold(Trimming, AppendedArguments(appended))
<1>2. ASSUME at = "client"
      PROVE  /\ argv = <<Program>> \o Passed /\ Passed \in Seq(Texts)
             /\ Trimming \in Seq(Texts) /\ appended \in Seq(Entries)
             /\ cl = Holding(Sw, Ar) /\ Sw \in Seq(Texts) /\ Ar \in Seq(Texts)
  <2>1. argv = <<Program>> \o Passed /\ Passed \in Seq(Texts) /\ appended \in Seq(Entries)
        /\ cl = Holding(Sw, Ar)
    BY <1>2 DEF HeldInv
  <2>2. Trimming \in Seq(Texts)
    <3> PICK p \in Seq(Texts) : p = Passed
      BY <2>1, SMTT(60)
    <3>1. Trimmed(p) \in Seq(Texts)
      BY TrimmedIs
    <3> QED
      BY <3>1 DEF Trimming
  <2>3. AppendedSwitches(appended) \in Seq(Entries) /\ AppendedArguments(appended) \in Seq(Entries)
    BY <2>1, AppendedAre
  <2>4. Sw \in Seq(Texts) /\ Ar \in Seq(Texts)
    BY <2>2, <2>3, ToldTypes, Zenon
  <2> HIDE DEF Sw, Ar
  <2> QED
    BY <2>1, <2>2, <2>4, Zenon
<1>3. CASE MakeCommandLine
  <2>1. /\ at = "flags" /\ idx >= argc /\ UNCHANGED <<given, argc, argv, appended>>
        /\ \/ at' = "terminated"
           \/ at' = "client" /\ cl' = initFromArgv(argv)
    BY <1>3 DEF MakeCommandLine
  <2>2. appended \in Seq(Entries) /\ appended = <<>>
    BY <2>1 DEF HeldInv
  <2>3. CASE at' = "terminated"
    BY <2>1, <2>2, <2>3 DEF HeldInv
  <2>4. CASE at' = "client" /\ cl' = initFromArgv(argv)
    <3>1. LookedAt = Len(given)
      <4>1. argc \in 1..(Len(given) + 1) /\ idx \in 1..argc /\ Len(given) \in Nat
        BY GivenTexts DEF WalkInv
      <4> QED
        BY <2>1, <4>1 DEF LookedAt
    <3>2. Passed \in Seq(Texts) /\ argv = <<Program>> \o Passed
      BY <3>1, PassedIs
    <3> PICK p \in Seq(Texts) : p = Passed
      BY <3>2
    <3>3. initFromArgv(<<Program>> \o p) = Holding(SwitchesIn(Trimmed(p)), ArgumentsIn(Trimmed(p)))
      BY InitFromArgv
    <3>4. Trimmed(p) \in Seq(Texts)
      BY TrimmedIs
    <3>5. /\ SwitchesTold(Trimmed(p), AppendedSwitches(<<>>)) = SwitchesIn(Trimmed(p))
          /\ ArgumentsTold(Trimmed(p), AppendedArguments(<<>>)) = ArgumentsIn(Trimmed(p))
      BY <3>4, NothingTold
    <3>6. cl' = Holding(Sw, Ar)
      BY <2>2, <2>4, <3>2, <3>3, <3>5, Zenon DEF Trimming
    <3>7. Passed' = Passed /\ Trimming' = Trimming
      BY <1>1, <2>1
    <3>8. argv' = <<Program>> \o Passed' /\ Passed' \in Seq(Texts) /\ appended' \in Seq(Entries)
      BY <2>1, <2>2, <3>2, <3>7, Zenon
    <3>9. cl' = Holding(SwitchesTold(Trimming, AppendedSwitches(appended)),
                        ArgumentsTold(Trimming, AppendedArguments(appended)))'
      BY <2>1, <3>6, <3>7, Zenon
    <3> QED
      BY <2>4, <3>8, <3>9 DEF HeldInv
  <2> QED
    BY <2>1, <2>3, <2>4
<1>4. CASE AppendSwitch
  <2>1. PICK s \in Switches : /\ cl' = appendSwitch(cl, s.dashes, s.name, s.value)
                              /\ appended' = Append(appended, [switch |-> TRUE, text |-> s])
    BY <1>4 DEF AppendSwitch
  <2>2. at = "client" /\ at' = "client" /\ UNCHANGED <<given, argc, argv>>
    BY <1>4 DEF AppendSwitch
  <2>3. s \in Texts
    BY TextsAre
  <2> PICK e : e = [switch |-> TRUE, text |-> s]
    OBVIOUS
  <2>4. e \in Entries /\ e.switch /\ e.text = s
    BY <2>3, EntryIs, Zenon
  <2>5. /\ argv = <<Program>> \o Passed /\ Passed \in Seq(Texts)
        /\ Trimming \in Seq(Texts) /\ appended \in Seq(Entries)
        /\ cl = Holding(Sw, Ar) /\ Sw \in Seq(Texts) /\ Ar \in Seq(Texts)
    BY <1>2, <2>2
  <2>6. /\ SwitchesTold(Trimming, AppendedSwitches(Append(appended, e))) = Append(Sw, s)
        /\ ArgumentsTold(Trimming, AppendedArguments(Append(appended, e))) = Ar
    <3>1. /\ SwitchesTold(Trimming, AppendedSwitches(Append(appended, e)))
               = IF e.switch THEN Append(Sw, e.text) ELSE Sw
          /\ ArgumentsTold(Trimming, AppendedArguments(Append(appended, e)))
               = IF e.switch THEN Ar ELSE Append(Ar, e.text)
      BY <2>4, <2>5, ToldEntry, Zenon
    <3> HIDE DEF Sw, Ar
    <3> QED
      BY <2>4, <3>1, Zenon
  <2>7. Append(appended, e) \in Seq(Entries)
    BY ONLY <2>4, <2>5, AppendProperties
  <2> HIDE DEF Sw, Ar
  <2>8. cl' = Holding(Append(Sw, s), Ar)
    <3>1. appendSwitch(Holding(Sw, Ar), s.dashes, s.name, s.value) = Holding(Append(Sw, s), Ar)
      BY ONLY <2>3, <2>5, HoldingSwitch
    <3> QED
      BY <2>1, <2>5, <3>1, Zenon
  <2>9. Passed' = Passed /\ Trimming' = Trimming
    BY <1>1, <2>2
  <2>10. appended' = Append(appended, e)
    BY <2>1
  <2>11. cl' = Holding(SwitchesTold(Trimming, AppendedSwitches(appended)),
                       ArgumentsTold(Trimming, AppendedArguments(appended)))'
    BY <2>6, <2>8, <2>9, <2>10, Zenon
  <2>12. argv' = <<Program>> \o Passed' /\ Passed' \in Seq(Texts) /\ appended' \in Seq(Entries)
    BY <2>2, <2>5, <2>7, <2>9, <2>10, Zenon
  <2> QED
    BY <2>2, <2>11, <2>12 DEF HeldInv
<1>5. CASE AppendArg
  <2>1. PICK s \in Arguments : /\ cl' = appendArg(cl, s)
                               /\ appended' = Append(appended, [switch |-> FALSE, text |-> s])
    BY <1>5 DEF AppendArg
  <2>2. at = "client" /\ at' = "client" /\ UNCHANGED <<given, argc, argv>>
    BY <1>5 DEF AppendArg
  <2>3. s \in Texts
    BY TextsAre
  <2> PICK e : e = [switch |-> FALSE, text |-> s]
    OBVIOUS
  <2>4. e \in Entries /\ e.switch = FALSE /\ e.text = s
    BY <2>3, EntryIs, Zenon
  <2>5. /\ argv = <<Program>> \o Passed /\ Passed \in Seq(Texts)
        /\ Trimming \in Seq(Texts) /\ appended \in Seq(Entries)
        /\ cl = Holding(Sw, Ar) /\ Sw \in Seq(Texts) /\ Ar \in Seq(Texts)
    BY <1>2, <2>2
  <2>6. /\ SwitchesTold(Trimming, AppendedSwitches(Append(appended, e))) = Sw
        /\ ArgumentsTold(Trimming, AppendedArguments(Append(appended, e))) = Append(Ar, s)
    BY <2>4, <2>5, ToldEntry, Zenon
  <2>7. Append(appended, e) \in Seq(Entries)
    BY ONLY <2>4, <2>5, AppendProperties
  <2> HIDE DEF Sw, Ar
  <2>8. cl' = Holding(Sw, Append(Ar, s))
    <3>1. appendArg(Holding(Sw, Ar), s) = Holding(Sw, Append(Ar, s))
      BY ONLY <2>3, <2>5, HoldingArg
    <3> QED
      BY <2>1, <2>5, <3>1, Zenon
  <2>9. Passed' = Passed /\ Trimming' = Trimming
    BY <1>1, <2>2
  <2>10. appended' = Append(appended, e)
    BY <2>1
  <2>11. cl' = Holding(SwitchesTold(Trimming, AppendedSwitches(appended)),
                       ArgumentsTold(Trimming, AppendedArguments(appended)))'
    BY <2>6, <2>8, <2>9, <2>10, Zenon
  <2>12. argv' = <<Program>> \o Passed' /\ Passed' \in Seq(Texts) /\ appended' \in Seq(Entries)
    BY <2>2, <2>5, <2>7, <2>9, <2>10, Zenon
  <2> QED
    BY <2>2, <2>11, <2>12 DEF HeldInv
<1>6. CASE TakeFlag \/ SkipArgument
  <2>1. /\ at = "flags" /\ at' \in {"flags", "exited"} /\ appended' = appended
    BY <1>6 DEF TakeFlag, SkipArgument
  <2> QED
    BY <2>1 DEF HeldInv
<1>7. CASE \/ DeleteInstance \/ FillList \/ SetInstance \/ MainEntersOnce \/ MainInitModule
           \/ SetDefaultExecutor \/ RestoreExecutor \/ Finish
  <2>1. UNCHANGED <<given, argc, argv, appended, cl>>
    BY <1>7 DEF DeleteInstance, FillList, SetInstance, MainEntersOnce, MainInitModule,
                SetDefaultExecutor, RestoreExecutor, Finish, commandline
  <2>2. /\ at \notin {"flags", "exited", "terminated"}
        /\ at' \notin {"flags", "exited", "terminated"}
    BY <1>7 DEF DeleteInstance, FillList, SetInstance, MainEntersOnce, MainInitModule,
                SetDefaultExecutor, RestoreExecutor, Finish, ClientAtExecutors
  <2> QED
    BY <1>1, <2>1, <2>2, Zenon DEF HeldInv
<1>8. CASE \E t \in Threads : Start(t) \/ Stop(t)
  <2>1. UNCHANGED <<given, argc, argv, appended, cl>>
    BY <1>8 DEF Start, Stop, commandline
  <2>2. /\ at \notin {"flags", "exited", "terminated"}
        /\ at' \notin {"flags", "exited", "terminated"}
    BY <1>8 DEF Start, Stop
  <2> QED
    BY <1>1, <2>1, <2>2, Zenon DEF HeldInv
<1>9. CASE (\E t \in Threads : Run(t)) \/ UNCHANGED vars
  <2>1. UNCHANGED <<given, argc, argv, appended, cl, at>>
    BY <1>9 DEF Run, ReadInstance, LookUp, ThreadEntersOnce, ThreadInitModule,
                 DefaultExecutor, Add, commandline, vars
  <2> QED
    BY <1>1, <2>1, Zenon DEF HeldInv
<1> QED
  BY <1>3, <1>4, <1>5, <1>6, <1>7, <1>8, <1>9 DEF Next, Main

-----------------------------------------------------------------------------
(* What a CommandLine prints is read as the same again.                     *)
LEMMA NormalIs ==
  ASSUME NEW s \in Texts
  PROVE  /\ Normal(s) \in Texts /\ ~Normal(s).blanks
         /\ Normal(s).name = s.name /\ Normal(s).value = s.value
         /\ Switch(Normal(s).dashes, Normal(s).name, Normal(s).value) = Normal(s)
         /\ Normal(Normal(s)) = Normal(s)
         /\ s.name # <<>> => isSwitch(Normal(s))
<1> PICK S : S = Seq(Symbols)
  OBVIOUS
<1>1. s \in [dashes : Nat, name : S, equals : BOOLEAN, value : S, blanks : BOOLEAN]
  BY Zenon DEF Texts
<1> PICK d \in Nat : d = (IF s.dashes = 0 THEN 2 ELSE s.dashes) /\ d # 0
  BY <1>1
<1> PICK n \in S, v \in S : n = s.name /\ v = s.value
  BY <1>1
<1> PICK e \in BOOLEAN : e = (v # <<>>)
  OBVIOUS
<1> PICK r : r = [dashes |-> d, name |-> n, equals |-> e, value |-> v, blanks |-> FALSE]
  OBVIOUS
<1>2. Normal(s) = r
  BY Zenon DEF Normal, Switch, Text
<1>3. r \in [dashes : Nat, name : S, equals : BOOLEAN, value : S, blanks : BOOLEAN]
  BY Zenon
<1>4. r.dashes = d /\ r.name = n /\ r.value = v /\ r.blanks = FALSE
  BY Zenon
<1>5. Switch(d, n, v) = r
  BY Zenon DEF Switch, Text
<1>6. Normal(r) = r
  BY <1>4, <1>5, Zenon DEF Normal
<1>7. n # <<>> => isSwitch(r)
  BY <1>4 DEF isSwitch, getSwitchPrefixLength
<1>8. r \in Texts
  BY <1>3, Zenon DEF Texts
<1> QED
  BY <1>2, <1>4, <1>5, <1>6, <1>7, <1>8, Zenon

LEMMA NormalTexts ==
  ASSUME NEW sw \in Seq(Texts)
  PROVE  /\ Normals(sw) \in Seq(Texts) /\ Len(Normals(sw)) = Len(sw)
         /\ \A i \in 1..Len(sw) : Normals(sw)[i] = Normal(sw[i])
<1>1. /\ Normals(sw) \in Seq({Normal(t) : t \in Texts})
      /\ Len(Normals(sw)) = Len(sw)
      /\ \A i \in 1..Len(sw) : Normals(sw)[i] = Normal(sw[i])
  BY NormalsAre
<1>2. {Normal(t) : t \in Texts} \subseteq Texts
  BY NormalIs
<1>3. Normals(sw) \in Seq(Texts)
  <2> PICK l, W : l = Normals(sw) /\ W = {Normal(t) : t \in Texts}
    OBVIOUS
  <2>1. l \in Seq(W) /\ W \subseteq Texts
    BY <1>1, <1>2
  <2>2. l \in Seq(Texts)
    BY ONLY <2>1, SeqMonotonic
  <2> QED
    BY <2>2
<1> QED
  BY <1>1, <1>3

LEMMA BehindOf ==
  ASSUME NEW S, NEW h \in Seq(S), NEW t \in Seq(S)
  PROVE  SubSeq(h \o t, Len(h) + 1, Len(h \o t)) = t
<1>1. Len(h) \in Nat /\ Len(t) \in Nat
  BY LenProperties
<1> DEFINE c == h \o t
<1>2. /\ c \in Seq(S) /\ Len(c) = Len(h) + Len(t)
      /\ \A i \in 1..(Len(h) + Len(t)) : c[i] = IF i <= Len(h) THEN h[i] ELSE t[i - Len(h)]
  BY ConcatProperties
<1> HIDE DEF c
<1> DEFINE l == SubSeq(c, Len(h) + 1, Len(c))
<1>3. Len(h) + 1 \in Nat \ {0} /\ Len(c) \in 0..Len(c)
  BY <1>1, <1>2
<1>4. /\ l \in Seq(S)
      /\ Len(l) = IF Len(h) + 1 <= Len(c) THEN Len(c) - (Len(h) + 1) + 1 ELSE 0
      /\ \A i \in 1..(Len(c) - (Len(h) + 1) + 1) : l[i] = c[(Len(h) + 1) + i - 1]
  BY ONLY <1>2, <1>3, PartIs
<1> HIDE DEF l
<1>5. Len(l) = Len(t)
  BY <1>1, <1>2, <1>4
<1>6. ASSUME NEW i \in 1..Len(l) PROVE l[i] = t[i]
  <2>1. /\ i \in 1..(Len(c) - (Len(h) + 1) + 1) /\ (Len(h) + 1) + i - 1 = Len(h) + i
        /\ ~(Len(h) + i <= Len(h)) /\ Len(h) + i \in 1..(Len(h) + Len(t))
        /\ (Len(h) + i) - Len(h) = i
    BY <1>1, <1>2, <1>5
  <2> QED
    BY <1>2, <1>4, <2>1
<1>7. l = t
  BY <1>4, <1>5, <1>6, SeqEqual
<1> QED
  BY <1>7 DEF l, c

LEMMA HoldingNormals ==
  ASSUME NEW sw \in Seq(Texts), NEW ar \in Seq(Texts)
  PROVE  Holding(Normals(sw), ar) = Holding(sw, ar)
<1> PICK nm \in Seq(Texts) : nm = Normals(sw)
  BY NormalTexts
<1> PICK n \in Nat : n = Len(sw)
  BY LenProperties
<1>1. Len(nm) = n /\ \A i \in 1..n : nm[i] = Normal(sw[i])
  BY NormalTexts
<1>2. DOMAIN sw = 1..n /\ DOMAIN nm = 1..n
  BY <1>1, LenProperties
<1>3. ASSUME NEW i \in 1..n
      PROVE nm[i].name = sw[i].name /\ nm[i].value = sw[i].value /\ Normal(nm[i]) = nm[i]
  <2>1. sw[i] \in Texts
    BY <1>3, ElementOfSeq
  <2> QED
    BY <1>1, <1>3, <2>1, NormalIs, Zenon
<1>4. Normals(nm) = nm
  <2> PICK mm \in Seq(Texts) : mm = Normals(nm)
    BY NormalTexts
  <2>1. Len(mm) = n /\ \A i \in 1..n : mm[i] = Normal(nm[i])
    BY <1>1, NormalTexts
  <2>2. \A i \in 1..Len(mm) : mm[i] = nm[i]
    BY <1>3, <2>1, Zenon
  <2>3. mm = nm
    BY ONLY <1>1, <2>1, <2>2, SeqEqual, mm \in Seq(Texts), nm \in Seq(Texts)
  <2> QED
    BY <2>3
<1>5. NamesOf(nm) = NamesOf(sw)
  <2>1. \A i \in 1..n : nm[i].name = sw[i].name
    BY <1>3
  <2> QED
    BY <1>2, <2>1 DEF NamesOf
<1>6. \A name : ValueTold(nm, name) = ValueTold(sw, name)
  <2> SUFFICES ASSUME NEW name PROVE ValueTold(nm, name) = ValueTold(sw, name)
    OBVIOUS
  <2> DEFINE A == {i \in DOMAIN nm : nm[i].name = name}
             B == {i \in DOMAIN sw : sw[i].name = name}
  <2>1. A = B /\ B \in SUBSET (1..n)
    BY <1>2, <1>3
  <2>2. ValueTold(nm, name) = IF A = {} THEN <<>> ELSE nm[Max(A)].value
    BY Zenon DEF ValueTold
  <2>3. ValueTold(sw, name) = IF B = {} THEN <<>> ELSE sw[Max(B)].value
    BY Zenon DEF ValueTold
  <2> HIDE DEF A, B
  <2>4. B # {} => Max(B) \in 1..n
    BY <2>1, MaxIn
  <2> QED
    BY <1>3, <2>1, <2>2, <2>3, <2>4, Zenon
<1> QED
  BY <1>1, <1>4, <1>5, <1>6, Zenon DEF Holding

(* Switches, and arguments none of which is taken for one.                  *)
LEMMA Divided ==
  ASSUME NEW nm \in Seq(Texts), NEW ar \in Seq(Texts),
         \A i \in 1..Len(nm) : isSwitch(nm[i]),
         \A i \in 1..(Ends(ar) - 1) : ~isSwitch(ar[i])
  PROVE  SwitchesIn(nm \o ar) = nm /\ ArgumentsIn(nm \o ar) = ar
<1> PICK w : w = nm \o ar
  OBVIOUS
<1> PICK m, n, k : m = Len(nm) /\ n = Len(ar) /\ k = Ends(ar)
  OBVIOUS
<1>1. /\ w \in Seq(Texts) /\ Len(w) = m + n
      /\ \A i \in 1..(m + n) : w[i] = IF i <= m THEN nm[i] ELSE ar[i - m]
  BY ConcatProperties
<1>2. /\ m \in Nat /\ n \in Nat /\ k \in 1..(n + 1)
      /\ \A i \in 1..(k - 1) : ar[i] # kSwitchTerminator
      /\ k <= n => ar[k] = kSwitchTerminator
  BY LenProperties, EndsIs
<1>3. /\ \A i \in 1..m : w[i] = nm[i] /\ isSwitch(w[i])
      /\ \A i \in 1..n : w[m + i] = ar[i]
      /\ \A i \in (m + 1)..(m + k - 1) : ~isSwitch(w[i]) /\ w[i] # kSwitchTerminator
  <2>1. \A i \in 1..m : w[i] = nm[i] /\ isSwitch(w[i])
    BY <1>1, <1>2
  <2>2. \A i \in 1..n : w[m + i] = ar[i]
    BY <1>1, <1>2
  <2>3. ASSUME NEW i \in (m + 1)..(m + k - 1) PROVE ~isSwitch(w[i]) /\ w[i] # kSwitchTerminator
    <3>1. i - m \in 1..(k - 1) /\ w[i] = ar[i - m]
      BY <1>1, <1>2
    <3> QED
      BY <1>2, <3>1
  <2> QED
    BY <2>1, <2>2, <2>3
<1> PICK e : e = m + k
  OBVIOUS
<1>4. Ends(w) = e
  <2>1. e \in 1..(Len(w) + 1)
    BY <1>1, <1>2
  <2>2. \A i \in 1..(e - 1) : w[i] # kSwitchTerminator
    <3> SUFFICES ASSUME NEW i \in 1..(e - 1) PROVE w[i] # kSwitchTerminator
      OBVIOUS
    <3>1. CASE i <= m
      <4>1. i \in 1..m
        BY <1>2, <3>1
      <4> QED
        BY <1>3, <4>1, TerminatorIsNoSwitch
    <3>2. CASE i > m
      <4>1. i \in (m + 1)..(m + k - 1)
        BY <1>2, <3>2
      <4> QED
        BY <1>3, <4>1
    <3> QED
      BY <1>2, <3>1, <3>2
  <2>3. e <= Len(w) => w[e] = kSwitchTerminator
    BY <1>1, <1>2, <1>3, SMTT(60)
  <2> QED
    BY ONLY <1>1, <2>1, <2>2, <2>3, EndsAre
<1> PICK o : o = Opening(w)
  OBVIOUS
<1>5. /\ o \in Seq(Texts) /\ Len(o) = e - 1
      /\ \A i \in 1..(e - 1) : o[i] = w[i]
  <2>1. /\ Opening(w) \in Seq(Texts) /\ Len(Opening(w)) = Ends(w) - 1
        /\ \A i \in 1..(Ends(w) - 1) : Opening(w)[i] = w[i]
    BY ONLY <1>1, OpeningIs
  <2> QED
    BY <1>4, <2>1, Zenon
<1>6. m \in 0..Len(o)
  BY <1>2, <1>5
<1>7. \A i \in 1..m : o[i] \in SwitchTexts /\ o[i] \notin OtherTexts
  <2> SUFFICES ASSUME NEW i \in 1..m PROVE o[i] \in SwitchTexts /\ o[i] \notin OtherTexts
    OBVIOUS
  <2>1. i \in 1..(e - 1) /\ i \in 1..Len(w) /\ i \in 1..Len(o)
    BY <1>1, <1>2, <1>5
  <2>2. o[i] \in Texts
    BY <1>5, <2>1, ElementOfSeq
  <2>3. isSwitch(o[i])
    BY <1>3, <1>5, <2>1
  <2> QED
    BY <2>2, <2>3 DEF SwitchTexts, OtherTexts
<1>8. \A i \in (m + 1)..Len(o) : o[i] \notin SwitchTexts /\ o[i] \in OtherTexts
  <2> SUFFICES ASSUME NEW i \in (m + 1)..Len(o)
               PROVE  o[i] \notin SwitchTexts /\ o[i] \in OtherTexts
    OBVIOUS
  <2>1. i \in 1..(e - 1) /\ i \in (m + 1)..(m + k - 1) /\ i \in 1..Len(o)
    BY <1>1, <1>2, <1>5, SMTT(60)
  <2>2. o[i] \in Texts
    BY <1>5, <2>1, ElementOfSeq
  <2>3. ~isSwitch(o[i])
    BY <1>3, <1>5, <2>1
  <2> QED
    BY <2>2, <2>3 DEF SwitchTexts, OtherTexts
<1>9. Selected(o, SwitchTexts) = SubSeq(o, 1, m)
      /\ Selected(o, OtherTexts) = SubSeq(o, m + 1, Len(o))
  <2>1. Selected(o, SwitchTexts) = SubSeq(o, 1, m)
    BY ONLY <1>5, <1>6, <1>7, <1>8, SelectedPrefix
  <2>2. Selected(o, OtherTexts) = SubSeq(o, m + 1, Len(o))
    BY ONLY <1>5, <1>6, <1>7, <1>8, SelectedSuffix
  <2> QED
    BY <2>1, <2>2
<1> PICK lo : lo = Len(o)
  OBVIOUS
<1>10. lo = e - 1 /\ lo \in 0..lo /\ m \in 0..lo /\ m + 1 \in Nat \ {0} /\ 1 \in Nat \ {0}
       /\ e \in Nat \ {0} /\ Len(w) \in 0..Len(w)
  BY <1>1, <1>2, <1>5, SMTT(60)
<1> DEFINE x == SubSeq(o, 1, m)
           y == SubSeq(o, m + 1, lo)
           z == SubSeq(w, e, Len(w))
<1>11. /\ x \in Seq(Texts) /\ Len(x) = IF 1 <= m THEN m - 1 + 1 ELSE 0
       /\ \A i \in 1..(m - 1 + 1) : x[i] = o[1 + i - 1]
  BY ONLY <1>5, <1>10, PartIs, lo = Len(o)
<1>12. /\ y \in Seq(Texts) /\ Len(y) = IF m + 1 <= lo THEN lo - (m + 1) + 1 ELSE 0
       /\ \A i \in 1..(lo - (m + 1) + 1) : y[i] = o[(m + 1) + i - 1]
  BY ONLY <1>5, <1>10, PartIs, lo = Len(o)
<1>13. /\ z \in Seq(Texts) /\ Len(z) = IF e <= Len(w) THEN Len(w) - e + 1 ELSE 0
       /\ \A i \in 1..(Len(w) - e + 1) : z[i] = w[e + i - 1]
  <2> QED
    BY ONLY <1>1, <1>10, PartIs
<1> HIDE DEF x, y, z
<1>14. x = nm
  <2>1. Len(x) = m /\ \A i \in 1..m : x[i] = o[i]
    BY <1>2, <1>11
  <2>2. \A i \in 1..Len(x) : x[i] = nm[i]
    BY <1>2, <1>3, <1>5, <2>1
  <2>3. Len(x) = Len(nm)
    BY <2>1
  <2> QED
    BY ONLY <1>11, <2>2, <2>3, SeqEqual, nm \in Seq(Texts)
<1>15. y \o z = ar
  <2> PICK c : c = y \o z
    OBVIOUS
  <2>1. /\ c \in Seq(Texts) /\ Len(c) = Len(y) + Len(z)
        /\ \A i \in 1..(Len(y) + Len(z)) : c[i] = IF i <= Len(y) THEN y[i] ELSE z[i - Len(y)]
    BY ONLY <1>12, <1>13, ConcatProperties, c = y \o z
  <2>2. Len(y) = k - 1 /\ Len(z) = n - k + 1
    <3>1. Len(y) = k - 1
      BY ONLY <1>2, <1>10, <1>12, e = m + k
    <3>2. Len(z) = n - k + 1
      <4>1. Len(w) - e + 1 = n - k + 1 /\ ~(e <= Len(w)) => n - k + 1 = 0
        BY ONLY <1>1, <1>2, e = m + k
      <4>2. Len(w) - e + 1 = n - k + 1
        BY ONLY <1>1, <1>2, e = m + k
      <4> QED
        BY ONLY <1>13, <4>1, <4>2
    <3> QED
      BY <3>1, <3>2
  <2>3. \A i \in 1..(k - 1) : y[i] = ar[i]
    <3> SUFFICES ASSUME NEW i \in 1..(k - 1) PROVE y[i] = ar[i]
      OBVIOUS
    <3>1. /\ i \in 1..(lo - (m + 1) + 1) /\ (m + 1) + i - 1 = m + i /\ m + i \in 1..(e - 1)
          /\ i \in 1..n
      BY ONLY <1>2, <1>10, i \in 1..(k - 1), e = m + k
    <3>2. y[i] = o[m + i] /\ o[m + i] = w[m + i]
      BY <1>5, <1>12, <3>1, ZenonT(60)
    <3> QED
      BY <1>3, <3>1, <3>2
  <2>4. \A i \in 1..(n - k + 1) : z[i] = ar[k - 1 + i]
    <3> SUFFICES ASSUME NEW i \in 1..(n - k + 1) PROVE z[i] = ar[k - 1 + i]
      OBVIOUS
    <3>1. /\ i \in 1..(Len(w) - e + 1) /\ e + i - 1 = m + (k - 1 + i) /\ k - 1 + i \in 1..n
      BY ONLY <1>1, <1>2, i \in 1..(n - k + 1), e = m + k
    <3>2. z[i] = w[m + (k - 1 + i)]
      BY <1>13, <3>1
    <3> QED
      BY <1>3, <3>1, <3>2
  <2>5. Len(c) = Len(ar) /\ \A i \in 1..Len(c) : c[i] = ar[i]
    <3>1. Len(c) = n
      BY ONLY <1>2, <2>1, <2>2
    <3>2. ASSUME NEW i \in 1..n PROVE c[i] = ar[i]
      <4>1. CASE i <= k - 1
        BY ONLY <1>2, <2>1, <2>2, <2>3, <4>1, i \in 1..n
      <4>2. CASE i > k - 1
        <5>1. i - (k - 1) \in 1..(n - k + 1) /\ k - 1 + (i - (k - 1)) = i /\ ~(i <= k - 1)
          BY ONLY <1>2, <4>2, i \in 1..n
        <5>2. c[i] = z[i - (k - 1)]
          BY ONLY <1>2, <2>1, <2>2, <5>1, i \in 1..n
        <5> QED
          BY <2>4, <5>1, <5>2
      <4> QED
        BY ONLY <1>2, <4>1, <4>2, i \in 1..n
    <3> QED
      BY <3>1, <3>2
  <2>6. c = ar
    BY ONLY <2>1, <2>5, SeqEqual, ar \in Seq(Texts)
  <2> QED
    BY <2>6
<1>16. SwitchesIn(w) = x
  BY <1>9, Zenon DEF SwitchesIn, x
<1>17. ArgumentsIn(w) = y \o z
  BY <1>4, <1>9, Zenon DEF ArgumentsIn, y, z
<1> QED
  BY <1>14, <1>15, <1>16, <1>17

LEMMA HoldingFields ==
  ASSUME NEW sw \in Seq(Texts), NEW ar \in Seq(Texts), NEW c, c = Holding(sw, ar)
  PROVE  /\ c.argv = (<<Program>> \o Normals(sw)) \o ar
         /\ c.switches = [n \in NamesOf(sw) |-> ValueTold(sw, n)]
         /\ c.start_args = 1 + Len(sw)
         /\ getArgs(c) = RemoveFirst(ar, kSwitchTerminator)
<1> PICK h \in Seq(Everything) : h = <<Program>> \o Normals(sw)
  BY HoldingIs
<1> PICK v : v = [n \in NamesOf(sw) |-> ValueTold(sw, n)]
  OBVIOUS
<1> PICK m : m = Len(sw)
  OBVIOUS
<1>1. Len(h) = m + 1 /\ ar \in Seq(Everything) /\ m \in Nat
  BY HoldingIs
<1>2. c = Line(h \o ar, v, 1 + m)
  BY Zenon DEF Holding
<1>3. c.argv = h \o ar /\ c.switches = v /\ c.start_args = 1 + m
  BY <1>2 DEF Line
<1>4. c.start_args + 1 = Len(h) + 1
  BY <1>1, <1>3
<1>5. SubSeq(h \o ar, Len(h) + 1, Len(h \o ar)) = ar
  BY ONLY <1>1, BehindOf, h \in Seq(Everything)
<1>6. getArgs(c) = RemoveFirst(ar, kSwitchTerminator)
  BY <1>3, <1>4, <1>5, Zenon DEF getArgs
<1> QED
  BY <1>3, <1>6, Zenon

LEMMA PrintedIs ==
  ASSUME NEW sw \in Seq(Texts), NEW ar \in Seq(Texts), Unambiguous(sw, ar)
  PROVE  getArguments(Holding(sw, ar)) = Normals(sw) \o ar
<1> PICK nm \in Seq(Texts) : nm = Normals(sw)
  BY NormalTexts
<1> PICK m, n : m = Len(sw) /\ n = Len(ar)
  OBVIOUS
<1>1. m \in Nat /\ n \in Nat /\ DOMAIN ar = 1..n /\ DOMAIN sw = 1..m
  BY LenProperties
<1>2. Len(nm) = m /\ \A i \in 1..m : nm[i] = Normal(sw[i])
  BY NormalTexts
<1>3. \A i \in 1..m : isSwitch(nm[i]) /\ Switch(nm[i].dashes, nm[i].name, nm[i].value) = nm[i]
  <2> SUFFICES ASSUME NEW i \in 1..m
               PROVE  isSwitch(nm[i]) /\ Switch(nm[i].dashes, nm[i].name, nm[i].value) = nm[i]
    OBVIOUS
  <2>1. sw[i] \in Texts /\ sw[i].name # <<>>
    BY <1>1, ElementOfSeq DEF Unambiguous
  <2> QED
    BY <1>2, <2>1, NormalIs, Zenon
<1> PICK k : k = Ends(ar)
  OBVIOUS
<1>4. /\ k \in 1..(n + 1) /\ (k <= n => ar[k] = kSwitchTerminator)
      /\ \A i \in 1..(k - 1) : ~isSwitch(ar[i])
  BY EndsIs DEF Unambiguous
<1> PICK h \in Seq(Everything) : h = <<Program>> \o nm
  BY HoldingIs
<1>5. nm \in Seq(Everything) /\ ar \in Seq(Everything) /\ Len(h) = m + 1
      /\ <<Program>> \in Seq(Everything)
  BY HoldingIs
<1> PICK av : av = h \o ar
  OBVIOUS
<1>6. /\ av \in Seq(Everything) /\ Len(av) = (m + 1) + n
      /\ \A i \in 1..((m + 1) + n) : av[i] = IF i <= m + 1 THEN h[i] ELSE ar[i - (m + 1)]
  <2>1. /\ av \in Seq(Everything) /\ Len(av) = Len(h) + Len(ar)
        /\ \A i \in 1..(Len(h) + Len(ar)) : av[i] = IF i <= Len(h) THEN h[i] ELSE ar[i - Len(h)]
    BY ONLY <1>5, ConcatProperties, h \in Seq(Everything), av = h \o ar
  <2> QED
    BY <1>5, <2>1, Zenon
<1>7. \A i \in 1..m : h[i + 1] = nm[i]
  <2>1. \A i \in 1..(Len(<<Program>>) + Len(nm)) :
          h[i] = IF i <= Len(<<Program>>) THEN <<Program>>[i] ELSE nm[i - Len(<<Program>>)]
    BY ONLY <1>5, ConcatProperties, h = <<Program>> \o nm
  <2>2. Len(<<Program>>) = 1
    OBVIOUS
  <2>3. \A i \in 1..(1 + m) : h[i] = IF i <= 1 THEN <<Program>>[i] ELSE nm[i - 1]
    BY <1>2, <2>1, <2>2, Zenon
  <2> SUFFICES ASSUME NEW i \in 1..m PROVE h[i + 1] = nm[i]
    OBVIOUS
  <2>4. i + 1 \in 1..(1 + m) /\ ~(i + 1 <= 1) /\ (i + 1) - 1 = i
    BY ONLY <1>1, i \in 1..m
  <2> QED
    BY ONLY <2>3, <2>4
<1>8. \A i \in 1..m : av[i + 1] = nm[i]
  <2> SUFFICES ASSUME NEW i \in 1..m PROVE av[i + 1] = nm[i]
    OBVIOUS
  <2>1. i + 1 \in 1..((m + 1) + n) /\ i + 1 <= m + 1
    BY ONLY <1>1, i \in 1..m
  <2>2. av[i + 1] = h[i + 1]
    BY ONLY <1>6, <2>1
  <2> QED
    BY <1>7, <2>2
<1>9. \A i \in 1..n : av[m + 1 + i] = ar[i]
  <2> SUFFICES ASSUME NEW i \in 1..n PROVE av[m + 1 + i] = ar[i]
    OBVIOUS
  <2>1. /\ m + 1 + i \in 1..((m + 1) + n) /\ ~(m + 1 + i <= m + 1)
        /\ (m + 1 + i) - (m + 1) = i
    BY ONLY <1>1, i \in 1..n
  <2> QED
    BY ONLY <1>6, <2>1
<1> PICK c : c = Holding(sw, ar)
  OBVIOUS
<1>10. c.argv = av
  BY HoldingFields, ZenonT(60)
<1> DEFINE ends == {i \in 2..Len(av) : av[i] = kSwitchTerminator}
           Printed(i) == IF isSwitch(av[i]) /\ ~\E end \in ends : end <= i
                           THEN Switch(av[i].dashes, av[i].name, av[i].value)
                           ELSE av[i]
<1> PICK l : l = getArguments(c)
  OBVIOUS
<1>11. l = [i \in 1..(m + n) |-> Printed(i + 1)]
  <2>1. l = [i \in 1..Len(av) - 1 |-> Printed(i + 1)]
    BY <1>10, Zenon DEF getArguments
  <2>2. Len(av) - 1 = m + n
    BY ONLY <1>1, <1>6
  <2> HIDE DEF Printed
  <2> QED
    BY <2>1, <2>2, Zenon
<1> PICK w : w = nm \o ar
  OBVIOUS
<1>12. /\ w \in Seq(Texts) /\ Len(w) = m + n
       /\ \A i \in 1..(m + n) : w[i] = IF i <= m THEN nm[i] ELSE ar[i - m]
  <2>1. /\ w \in Seq(Texts) /\ Len(w) = Len(nm) + Len(ar)
        /\ \A i \in 1..(Len(nm) + Len(ar)) : w[i] = IF i <= Len(nm) THEN nm[i] ELSE ar[i - Len(nm)]
    BY ONLY ConcatProperties, w = nm \o ar, nm \in Seq(Texts), ar \in Seq(Texts)
  <2> QED
    BY <1>2, <2>1, Zenon
<1>13. ASSUME NEW i \in 1..(m + n) PROVE Printed(i + 1) = w[i]
  <2>1. CASE i <= m
    <3>1. i \in 1..m
      BY ONLY <1>1, <2>1, <1>13
    <3>2. av[i + 1] = nm[i] /\ w[i] = nm[i]
      BY <1>8, <1>12, <2>1, <3>1, <1>13
    <3>3. Printed(i + 1) \in {Switch(nm[i].dashes, nm[i].name, nm[i].value), nm[i]}
      <4> HIDE DEF ends
      <4> QED
        BY <3>2, Zenon
    <3> HIDE DEF Printed
    <3> QED
      BY <1>3, <3>1, <3>2, <3>3
  <2>2. CASE ~(i <= m)
    <3>1. /\ i - m \in 1..n /\ m + 1 + (i - m) = i + 1
      BY ONLY <1>1, <2>2, <1>13
    <3>2. av[i + 1] = ar[i - m] /\ w[i] = ar[i - m]
      BY <1>9, <1>12, <2>2, <3>1, <1>13
    <3>3. isSwitch(ar[i - m]) => \E end \in ends : end <= i + 1
      <4> SUFFICES ASSUME isSwitch(ar[i - m]) PROVE \E end \in ends : end <= i + 1
        OBVIOUS
      <4>1. i - m \notin 1..(k - 1)
        BY <1>4
      <4>2. k <= i - m /\ k <= n /\ k \in 1..n
        BY ONLY <1>4, <3>1, <4>1, <1>1, <1>13
      <4>3. av[m + 1 + k] = kSwitchTerminator
        BY ONLY <1>4, <1>9, <4>2
      <4>4. m + 1 + k \in 2..Len(av) /\ m + 1 + k <= i + 1
        BY ONLY <1>1, <1>6, <4>2, <1>13
      <4>5. m + 1 + k \in ends
        BY <4>3, <4>4
      <4> HIDE DEF ends
      <4> QED
        BY <4>4, <4>5
    <3> HIDE DEF ends
    <3> QED
      BY <3>2, <3>3, Zenon
  <2> QED
    BY <2>1, <2>2
<1> HIDE DEF Printed
<1>14. l = w
  <2>1. w \in [1..(m + n) -> Texts]
    BY <1>12, LenProperties
  <2>2. w = [i \in 1..(m + n) |-> w[i]]
    BY <2>1, Zenon
  <2>3. l = [i \in 1..(m + n) |-> w[i]]
    BY <1>11, <1>13, Zenon
  <2> QED
    BY <2>2, <2>3, Zenon
<1> QED
  BY <1>14

LEMMA PrintedIsRead ==
  ASSUME NEW sw \in Seq(Texts), NEW ar \in Seq(Texts), Unambiguous(sw, ar)
  PROVE  initFromArgv(<<Program>> \o getArguments(Holding(sw, ar))) = Holding(sw, ar)
<1> PICK nm \in Seq(Texts) : nm = Normals(sw)
  BY NormalTexts
<1> PICK w : w = nm \o ar
  OBVIOUS
<1>1. /\ w \in Seq(Texts) /\ Len(w) = Len(nm) + Len(ar)
      /\ \A i \in 1..(Len(nm) + Len(ar)) : w[i] = IF i <= Len(nm) THEN nm[i] ELSE ar[i - Len(nm)]
  BY ONLY ConcatProperties, w = nm \o ar, nm \in Seq(Texts), ar \in Seq(Texts)
<1>2. /\ Len(nm) \in Nat /\ Len(ar) \in Nat /\ Len(nm) = Len(sw)
      /\ DOMAIN sw = 1..Len(sw) /\ DOMAIN ar = 1..Len(ar)
  BY LenProperties, NormalTexts
<1>3. \A i \in 1..Len(nm) : isSwitch(nm[i]) /\ TrimString(nm[i]) = nm[i]
  <2> SUFFICES ASSUME NEW i \in 1..Len(nm)
               PROVE  isSwitch(nm[i]) /\ TrimString(nm[i]) = nm[i]
    OBVIOUS
  <2>1. i \in DOMAIN sw /\ sw[i] \in Texts
    BY <1>2, ElementOfSeq
  <2>2. sw[i].name # <<>> /\ IsTrimmed(AsWritten(sw[i]))
    BY <2>1, Zenon DEF Unambiguous
  <2>3. nm[i] = Normal(sw[i])
    BY <1>2, NormalTexts
  <2>4. AsWritten(sw[i]) = Normal(sw[i])
    BY Zenon DEF AsWritten, Normal
  <2> QED
    BY <2>1, <2>2, <2>3, <2>4, NormalIs, Zenon DEF IsTrimmed
<1>4. \A i \in 1..(Ends(ar) - 1) : ~isSwitch(ar[i])
  BY DEF Unambiguous
<1>5. \A i \in 1..Len(ar) : TrimString(ar[i]) = ar[i]
  BY <1>2, Zenon DEF Unambiguous, IsTrimmed
<1>6. SwitchesIn(w) = nm /\ ArgumentsIn(w) = ar
  BY <1>3, <1>4, Divided
<1>7. Trimmed(w) = w
  <2> PICK t : t = Trimmed(w)
    OBVIOUS
  <2>1. /\ t \in Seq(Texts) /\ Len(t) = Len(w)
        /\ \A i \in 1..Len(w) : t[i] = TrimString(w[i])
    BY <1>1, TrimmedIs
  <2>2. \A i \in 1..Len(w) : TrimString(w[i]) = w[i]
    <3> SUFFICES ASSUME NEW i \in 1..Len(w) PROVE TrimString(w[i]) = w[i]
      OBVIOUS
    <3>2. TrimString(w[i]) = w[i]
      <4>1. CASE i <= Len(nm)
        <5>1. i \in 1..Len(nm) /\ w[i] = nm[i]
          BY <1>1, <1>2, <4>1
        <5> QED
          BY <1>3, <5>1
      <4>2. CASE ~(i <= Len(nm))
        <5>1. i - Len(nm) \in 1..Len(ar) /\ i \in 1..(Len(nm) + Len(ar))
          BY ONLY <1>1, <1>2, <4>2, i \in 1..Len(w)
        <5>2. w[i] = ar[i - Len(nm)]
          BY ONLY <1>1, <4>2, <5>1
        <5> QED
          BY <1>5, <5>1, <5>2
      <4> QED
        BY <4>1, <4>2
    <3> QED
      BY <3>2
  <2>3. \A i \in 1..Len(t) : t[i] = w[i]
    BY <2>1, <2>2, Zenon
  <2>4. t = w
    BY ONLY <1>1, <2>1, <2>3, SeqEqual
  <2> QED
    BY <2>4
<1>8. initFromArgv(<<Program>> \o w) = Holding(nm, ar)
  <2>1. initFromArgv(<<Program>> \o w) = Holding(SwitchesIn(Trimmed(w)), ArgumentsIn(Trimmed(w)))
    BY ONLY <1>1, InitFromArgv
  <2> QED
    BY <1>6, <1>7, <2>1, Zenon
<1> QED
  BY <1>8, PrintedIs, HoldingNormals, Zenon

LEMMA InitHeld == Init => HeldInv
<1> SUFFICES ASSUME Init PROVE HeldInv
  OBVIOUS
<1>1. appended = <<>> /\ at = "flags"
  BY DEF Init
<1>2. <<>> \in Seq(Entries)
  OBVIOUS
<1> QED
  BY <1>1, <1>2 DEF HeldInv

LEMMA HeldExactly == HeldInv => CommandLineExact
<1> SUFFICES ASSUME HeldInv, at \notin {"flags", "exited", "terminated"} PROVE CommandLineExact
  BY Zenon DEF CommandLineExact
<1> DEFINE Sw == SwitchesTold(Trimming, AppendedSwitches(appended))
           Ar == ArgumentsTold(Trimming, AppendedArguments(appended))
<1>1. Passed \in Seq(Texts) /\ appended \in Seq(Entries) /\ cl = Holding(Sw, Ar)
  BY DEF HeldInv
<1>2. Trimming \in Seq(Texts)
  <2> PICK p \in Seq(Texts) : p = Passed
    BY <1>1
  <2>1. Trimmed(p) \in Seq(Texts)
    BY TrimmedIs
  <2> QED
    BY <2>1 DEF Trimming
<1>3. Sw \in Seq(Texts) /\ Ar \in Seq(Texts)
  <2>1. AppendedSwitches(appended) \in Seq(Entries) /\ AppendedArguments(appended) \in Seq(Entries)
    BY <1>1, AppendedAre
  <2> QED
    BY <1>2, <2>1, ToldTypes, Zenon
<1> PICK sw \in Seq(Texts) : sw = Sw
  BY <1>3
<1> PICK ar \in Seq(Texts) : ar = Ar
  BY <1>3
<1>4. /\ cl.switches = [n \in NamesOf(sw) |-> ValueTold(sw, n)]
      /\ getArgs(cl) = RemoveFirst(ar, kSwitchTerminator)
  <2>1. cl = Holding(sw, ar)
    BY <1>1
  <2> HIDE DEF Sw, Ar
  <2> QED
    BY <2>1, HoldingFields
<1>5. /\ DOMAIN cl.switches = NamesOf(sw)
      /\ \A name \in DOMAIN cl.switches : cl.switches[name] = ValueTold(sw, name)
  BY <1>4, Zenon
<1>6. Unambiguous(sw, ar) => initFromArgv(<<Program>> \o getArguments(cl)) = cl
  <2>1. cl = Holding(sw, ar)
    BY <1>1
  <2> HIDE DEF Sw, Ar
  <2> QED
    BY <2>1, PrintedIsRead, Zenon
<1>7. NamesOf(sw) = {sw[i].name : i \in DOMAIN sw}
  BY Zenon DEF NamesOf
<1>8. sw = SwitchesTold(Trimmed(Passed), AppendedSwitches(appended))
  BY Zenon DEF Trimming
<1>9. ar = ArgumentsTold(Trimmed(Passed), AppendedArguments(appended))
  BY Zenon DEF Trimming
<1> HIDE DEF Sw, Ar
<1> QED
  BY <1>4, <1>5, <1>6, <1>7, <1>8, <1>9, ZenonT(60) DEF CommandLineExact

(* A CommandLine that was made of the arguments which the flags' parser has *)
(* left, and to which switches and arguments have been appended in any      *)
(* order, has each switch with the value that it got last, and the other    *)
(* arguments in their order; and what it prints of itself is read as the    *)
(* same CommandLine again, unless an argument before the terminator looks   *)
(* like a switch (cmdline.cc): for any texts and any number of them.        *)
THEOREM CommandLineIsExact == Spec => []CommandLineExact
<1>1. Init => WalkInv /\ PassInv /\ HeldInv
  BY InitWalk, InitPass, InitHeld
<1>2. WalkInv /\ PassInv /\ HeldInv /\ [Next]_vars => (WalkInv /\ PassInv /\ HeldInv)'
  BY NextWalk, NextPass, NextHeld
<1> QED
  BY <1>1, <1>2, HeldExactly, PTL DEF Spec

-----------------------------------------------------------------------------
(* The list of features is what the command line said when so much had been *)
(* appended to it, or none if initializeInstance threw.                     *)
ValueAt(n, name) ==
  ValueTold(SwitchesTold(Trimming, AppendedSwitches(SubSeq(appended, 1, n))), name)
ListAt(n) ==
  initializeFromCommandLine(ValueAt(n, <<"enable_features">>), ValueAt(n, <<"disable_features">>))
Filling == at \in {"initialize", "publish"}
ToldInv ==
  /\ told \in -1..Len(appended) /\ refused \in BOOLEAN
  /\ at \in {"flags", "exited", "terminated"} => told = -1
  /\ at \notin Before => told >= 0
  /\ Filling => told = Len(appended) /\ instance = NoList /\ ~refused
  /\ ~Filling /\ told >= 0 /\ refused => instance = NoList
  /\ ~Filling /\ told >= 0 /\ ~refused =>
       instance.exists /\ instance.overrides = ListAt(told).overrides

LEMMA HeldValues ==
  ASSUME HeldInv, at \notin {"flags", "exited", "terminated"}, NEW name
  PROVE  getSwitchValue(cl, name) = ValueAt(Len(appended), name)
<1> PICK n : n = Len(appended)
  OBVIOUS
<1>1. appended \in Seq(Entries)
  BY DEF HeldInv
<1>2. SubSeq(appended, 1, n) = appended
  BY <1>1, SubSeqFull
<1> DEFINE Sw == SwitchesTold(Trimming, AppendedSwitches(appended))
           Ar == ArgumentsTold(Trimming, AppendedArguments(appended))
<1>3. Passed \in Seq(Texts) /\ cl = Holding(Sw, Ar)
  BY DEF HeldInv
<1>4. Trimming \in Seq(Texts)
  <2> PICK p \in Seq(Texts) : p = Passed
    BY <1>3
  <2>1. Trimmed(p) \in Seq(Texts)
    BY TrimmedIs
  <2> QED
    BY <2>1 DEF Trimming
<1>5. Sw \in Seq(Texts) /\ Ar \in Seq(Texts)
  <2>1. AppendedSwitches(appended) \in Seq(Entries) /\ AppendedArguments(appended) \in Seq(Entries)
    BY <1>1, AppendedAre
  <2> QED
    BY <1>4, <2>1, ToldTypes, Zenon
<1>6. ValueAt(n, name) = ValueTold(Sw, name)
  BY <1>2, Zenon DEF ValueAt
<1> HIDE DEF Sw, Ar
<1>7. cl.switches = [w \in NamesOf(Sw) |-> ValueTold(Sw, w)]
  BY <1>3, <1>5, HoldingFields
<1>8. name \notin NamesOf(Sw) => ValueTold(Sw, name) = <<>>
  BY Zenon DEF NamesOf, ValueTold
<1> QED
  BY <1>6, <1>7, <1>8, Zenon DEF getSwitchValue

LEMMA ListAtStays ==
  ASSUME UNCHANGED <<given, argc, appended, told>>
  PROVE  ListAt(told)' = ListAt(told)
<1>1. Passed' = Passed
  BY Zenon DEF Passed
<1>2. Trimming' = Trimming
  BY <1>1, Zenon DEF Trimming
<1> PICK n, more : n = told /\ more = appended
  OBVIOUS
<1>3. \A name : ValueAt(told, name)' = ValueAt(told, name)
  BY <1>2, Zenon DEF ValueAt
<1> QED
  BY <1>3, Zenon DEF ListAt

LEMMA ListAtAppended ==
  ASSUME ToldInv, HeldInv, NEW e \in Entries,
         UNCHANGED <<given, argc, told>>, appended' = Append(appended, e)
  PROVE  /\ told >= 0 => ListAt(told)' = ListAt(told)
         /\ told' \in -1..Len(appended')
<1>1. Passed' = Passed
  BY Zenon DEF Passed
<1>2. Trimming' = Trimming
  BY <1>1, Zenon DEF Trimming
<1>3. appended \in Seq(Entries) /\ told \in -1..Len(appended) /\ Len(appended) \in Nat
  BY LenProperties DEF HeldInv, ToldInv
<1> PICK more \in Seq(Entries) : more = appended
  BY <1>3
<1>4. told >= 0 => SubSeq(Append(appended, e), 1, told) = SubSeq(appended, 1, told)
  <2> SUFFICES ASSUME told >= 0 PROVE SubSeq(Append(more, e), 1, told) = SubSeq(more, 1, told)
    BY Zenon
  <2>1. told \in 0..Len(more) /\ 1 \in Nat \ {0}
    BY <1>3
  <2> QED
    BY <2>1, PartOfAppend
<1>5. told >= 0 => \A name : ValueAt(told, name)' = ValueAt(told, name)
  <2> SUFFICES ASSUME told >= 0, NEW name PROVE ValueAt(told, name)' = ValueAt(told, name)
    OBVIOUS
  <2>1. SubSeq(appended', 1, told') = SubSeq(appended, 1, told)
    BY <1>4, Zenon
  <2> QED
    BY <1>2, <2>1, Zenon DEF ValueAt
<1>6. Len(appended') = Len(appended) + 1
  <2>1. Len(Append(more, e)) = Len(more) + 1
    BY AppendProperties
  <2> QED
    BY <2>1
<1>7. told' \in -1..Len(appended')
  BY ONLY <1>3, <1>6, told' = told
<1> QED
  BY <1>5, <1>7, Zenon DEF ListAt

LEMMA InitTold == Init => ToldInv
<1> SUFFICES ASSUME Init PROVE ToldInv
  OBVIOUS
<1>1. appended = <<>> /\ at = "flags" /\ told = -1 /\ refused = FALSE
  BY DEF Init
<1>2. Len(appended) = 0
  BY <1>1
<1>3. told \in -1..Len(appended) /\ ~(told >= 0)
  BY <1>1, <1>2
<1>4. at \in Before /\ ~Filling
  BY <1>1 DEF Before, Filling
<1> QED
  BY <1>1, <1>3, <1>4, Zenon DEF ToldInv

LEMMA NextTold == HeldInv /\ ListInv /\ ToldInv /\ [Next]_vars => ToldInv'
<1> SUFFICES ASSUME HeldInv, ListInv, ToldInv, [Next]_vars PROVE ToldInv'
  OBVIOUS
<1>1. appended \in Seq(Entries) /\ Len(appended) \in Nat
  BY LenProperties DEF HeldInv
<1>2. CASE /\ UNCHANGED <<given, argc, appended, told, refused, instance>>
           /\ Filling' <=> Filling
           /\ at' \in {"flags", "exited", "terminated"} => at \in {"flags", "exited", "terminated"}
           /\ at' \notin Before => told >= 0
  <2>1. ListAt(told)' = ListAt(told)
    BY <1>2, ListAtStays
  <2> QED
    BY <1>2, <2>1, Zenon DEF ToldInv
<1>3. CASE TakeFlag \/ SkipArgument \/ MakeCommandLine
  <2>1. /\ UNCHANGED <<given, appended, told, refused, instance>>
        /\ at = "flags" /\ at' \in {"flags", "exited", "terminated", "client"}
    BY <1>3 DEF TakeFlag, SkipArgument, MakeCommandLine, features
  <2>2. told = -1 /\ told' = -1 /\ ~(told >= 0)
    BY <2>1 DEF ToldInv
  <2>3. at' \in Before /\ ~Filling' /\ told' \in -1..Len(appended') /\ refused' \in BOOLEAN
    BY <2>1 DEF Before, Filling, ToldInv
  <2> QED
    BY <2>2, <2>3 DEF ToldInv
<1>4. CASE AppendSwitch \/ AppendArg
  <2>1. /\ UNCHANGED <<given, argc, told, refused, instance, at>> /\ at = "client"
    BY <1>4 DEF AppendSwitch, AppendArg, features
  <2>2. PICK e \in Entries : appended' = Append(appended, e)
    <3>1. CASE AppendSwitch
      <4>1. PICK s \in Switches : appended' = Append(appended, [switch |-> TRUE, text |-> s])
        BY <3>1 DEF AppendSwitch
      <4>2. s \in Texts
        BY TextsAre
      <4>3. [switch |-> TRUE, text |-> s] \in Entries
        BY <4>2, EntryIs, Zenon
      <4> QED
        BY <4>1, <4>3
    <3>2. CASE AppendArg
      <4>1. PICK s \in Arguments : appended' = Append(appended, [switch |-> FALSE, text |-> s])
        BY <3>2 DEF AppendArg
      <4>2. s \in Texts
        BY TextsAre
      <4>3. [switch |-> FALSE, text |-> s] \in Entries
        BY <4>2, EntryIs, Zenon
      <4> QED
        BY <4>1, <4>3
    <3> QED
      BY <1>4, <3>1, <3>2
  <2>3. (told >= 0 => ListAt(told)' = ListAt(told)) /\ told' \in -1..Len(appended')
    BY <2>1, <2>2, ListAtAppended
  <2>4. ~Filling' /\ ~Filling /\ at' \notin {"flags", "exited", "terminated"} /\ at' \in Before
    BY <2>1 DEF Filling, Before
  <2> QED
    BY <2>1, <2>3, <2>4, Zenon DEF ToldInv
<1>5. CASE DeleteInstance
  <2>1. /\ at' = "initialize" /\ instance' = NoList /\ refused' = FALSE
        /\ told' = Len(appended) /\ appended' = appended
    BY <1>5 DEF DeleteInstance, commandline
  <2>2. Filling' /\ at' \in Before /\ at' \notin {"flags", "exited", "terminated"}
    BY <2>1 DEF Filling, Before
  <2>3. told' \in -1..Len(appended')
    BY <1>1, <2>1
  <2> QED
    BY <2>1, <2>2, <2>3 DEF ToldInv
<1>6. CASE FillList
  <2>1. /\ at = "initialize" /\ UNCHANGED <<given, argc, appended, told, instance>>
        /\ \/ at' = "client" /\ refused' = TRUE
           \/ at' = "publish" /\ refused' = refused
    BY <1>6 DEF FillList, commandline
  <2>2. told = Len(appended) /\ instance = NoList /\ refused = FALSE
    BY <2>1 DEF ToldInv, Filling
  <2>3. /\ at' \in Before /\ at' \notin {"flags", "exited", "terminated"}
        /\ told' \in -1..Len(appended')
    BY <2>1, <1>1 DEF Before, ToldInv
  <2>4. CASE at' = "client" /\ refused' = TRUE
    BY <2>1, <2>2, <2>3, <2>4 DEF ToldInv, Filling
  <2>5. CASE at' = "publish" /\ refused' = refused
    BY <2>1, <2>2, <2>3, <2>5 DEF ToldInv, Filling
  <2> QED
    BY <2>1, <2>4, <2>5
<1>7. CASE SetInstance
  <2>1. /\ at = "publish" /\ at' = "client" /\ UNCHANGED <<given, argc, appended, told, refused>>
        /\ instance' = [building EXCEPT !.initialized = TRUE]
    BY <1>7 DEF SetInstance, commandline
  <2>2. told = Len(appended) /\ ~refused /\ told \in -1..Len(appended)
    BY <2>1 DEF ToldInv, Filling
  <2>3. building = ListAt(told)
    <3>1. \A name : getSwitchValue(cl, name) = ValueAt(Len(appended), name)
      BY <2>1, HeldValues
    <3>2. building = initializeFromCommandLine(getSwitchValue(cl, <<"enable_features">>),
                                               getSwitchValue(cl, <<"disable_features">>))
      BY <2>1, Zenon DEF ListInv
    <3>3. /\ getSwitchValue(cl, <<"enable_features">>) = ValueAt(told, <<"enable_features">>)
          /\ getSwitchValue(cl, <<"disable_features">>) = ValueAt(told, <<"disable_features">>)
      BY <2>2, <3>1, Zenon
    <3> QED
      BY <3>2, <3>3, Zenon DEF ListAt
  <2>4. instance'.exists /\ instance'.overrides = ListAt(told).overrides
    <3> DEFINE on == SplitFeatureListString(ValueAt(told, <<"enable_features">>))
               off == SplitFeatureListString(ValueAt(told, <<"disable_features">>))
               overrides == [n \in on \union off |->
                               IF n \in off THEN "OVERRIDE_DISABLE_FEATURE"
                               ELSE "OVERRIDE_ENABLE_FEATURE"]
    <3>1. ListAt(told) = [exists |-> TRUE, initialized |-> FALSE, overrides |-> overrides]
      BY Zenon DEF ListAt, initializeFromCommandLine
    <3> HIDE DEF overrides
    <3> QED
      BY <2>1, <2>3, <3>1
  <2>5. ListAt(told)' = ListAt(told)
    BY <2>1, ListAtStays
  <2>6. ~Filling' /\ at' \notin {"flags", "exited", "terminated"} /\ at' \in Before
    BY <2>1 DEF Filling, Before
  <2> QED
    BY <2>1, <2>2, <2>4, <2>5, <2>6, Zenon DEF ToldInv
<1>8. CASE \/ MainEntersOnce \/ MainInitModule \/ SetDefaultExecutor \/ RestoreExecutor \/ Finish
  <2>1. /\ UNCHANGED <<given, argc, appended, told, refused, instance>>
        /\ at \in {"running", "stopping"} /\ at' \in {"running", "stopping", "ended"}
    BY <1>8 DEF MainEntersOnce, MainInitModule, SetDefaultExecutor, RestoreExecutor, Finish,
                ClientAtExecutors, commandline, features
  <2>2. Filling' <=> Filling
    BY <2>1 DEF Filling
  <2>3. told >= 0
    BY <2>1 DEF ToldInv, Before
  <2> QED
    BY <1>2, <2>1, <2>2, <2>3
<1>9. CASE \E t \in Threads : Start(t) \/ Stop(t)
  <2>1. /\ UNCHANGED <<given, argc, appended, told, refused, instance>>
        /\ at \in {"client", "running", "stopping"}
        /\ at' \in {"running", "stopping", "undefined"}
        /\ told >= 0 \/ at \in {"running", "stopping"}
    BY <1>9 DEF Start, Stop, commandline, features
  <2>2. Filling' <=> Filling
    BY <2>1 DEF Filling
  <2>3. told >= 0
    BY <2>1 DEF ToldInv, Before
  <2> QED
    BY <1>2, <2>1, <2>2, <2>3
<1>10. CASE (\E t \in Threads : Run(t)) \/ UNCHANGED vars
  <2>1. UNCHANGED <<given, argc, appended, told, refused, instance, at>>
    BY <1>10 DEF Run, ReadInstance, LookUp, ThreadEntersOnce, ThreadInitModule,
                DefaultExecutor, Add, commandline, features, vars
  <2>2. Filling' <=> Filling
    BY <2>1 DEF Filling
  <2>3. at' \notin Before => told >= 0
    BY <2>1 DEF ToldInv
  <2> QED
    BY <1>2, <2>1, <2>2, <2>3
<1> QED
  BY <1>3, <1>4, <1>5, <1>6, <1>7, <1>8, <1>9, <1>10 DEF Next, Main

LEMMA ToldAsGiven == StartupInv /\ ToldInv => FeaturesAsGiven
<1> SUFFICES ASSUME StartupInv, ToldInv PROVE FeaturesAsGiven
  OBVIOUS
<1> DEFINE switches == SwitchesTold(Trimmed(Passed), AppendedSwitches(SubSeq(appended, 1, told)))
           Named(switch) == SplitFeatureListString(ValueTold(switches, switch))
           disabled == Named(<<"disable_features">>)
           enabled == Named(<<"enable_features">>)
           off == IF refused THEN {} ELSE disabled
           on == IF refused THEN {} ELSE enabled
<1>1. SUFFICES ASSUME NEW t \in Threads, run[t] \in {"executor", "add", "ended"}
               PROVE  answer[t] = {f \in Features :
                        f \notin off /\ (f \in on \/ f \in EnabledByDefault)}
  <2> HIDE DEF switches
  <2> QED
    BY <1>1, Zenon DEF FeaturesAsGiven, switches
<1>2. at \notin Before
  <2>1. at \in Before => run[t] = "none"
    BY Zenon DEF StartupInv, ThreadsInv
  <2> QED
    BY <1>1, <2>1
<1>3. told >= 0 /\ ~Filling /\ refused \in BOOLEAN
  BY <1>2 DEF ToldInv, Before, Filling
<1>4. answer[t] = {f \in Features : isEnabled(instance, f)}
  BY <1>1, Zenon DEF StartupInv, FeaturesInv
<1>5. CASE refused
  <2>1. instance.exists = FALSE
    BY <1>3, <1>5 DEF ToldInv, NoList
  <2>2. \A f : isEnabled(instance, f) <=> f \in EnabledByDefault
    BY <2>1, Zenon DEF isEnabled
  <2>3. off = {} /\ on = {}
    BY <1>5, Zenon
  <2> HIDE DEF off, on
  <2> QED
    BY <1>4, <2>2, <2>3
<1>6. CASE ~refused
  <2> DEFINE overrides == [n \in enabled \union disabled |->
                             IF n \in disabled THEN "OVERRIDE_DISABLE_FEATURE"
                             ELSE "OVERRIDE_ENABLE_FEATURE"]
  <2>1. ListAt(told) = [exists |-> TRUE, initialized |-> FALSE, overrides |-> overrides]
    BY Zenon DEF ListAt, initializeFromCommandLine, ValueAt, Trimming
  <2>2. off = disabled /\ on = enabled
    BY <1>6, Zenon
  <2>3. instance.exists /\ instance.overrides = ListAt(told).overrides
    BY <1>3, <1>6, Zenon DEF ToldInv
  <2> HIDE DEF disabled, enabled, off, on
  <2>4. DOMAIN overrides = enabled \union disabled
    OBVIOUS
  <2>5. \A n \in enabled \union disabled :
          overrides[n] = "OVERRIDE_ENABLE_FEATURE" <=> n \notin disabled
    <3>1. "OVERRIDE_DISABLE_FEATURE" # "OVERRIDE_ENABLE_FEATURE"
      OBVIOUS
    <3> QED
      BY <3>1, Zenon
  <2> HIDE DEF overrides
  <2>6. instance.overrides = overrides
    BY <2>1, <2>3
  <2>7. \A f : isEnabled(instance, f) <=>
                 f \notin disabled /\ (f \in enabled \/ f \in EnabledByDefault)
    BY <2>3, <2>4, <2>5, <2>6, Zenon DEF isEnabled
  <2> QED
    BY <1>4, <2>2, <2>7
<1> QED
  BY <1>5, <1>6

(* Every answer that a thread gets from isEnabled is the one that the       *)
(* command line asked for when initializeInstance was last called, however  *)
(* the switches came into it: on the program's command line, behind         *)
(* arguments that the flags' parser has taken out, or appended by the       *)
(* client; and the default one if that call threw (feature_list.cc).        *)
THEOREM FeaturesAreAsGiven == Spec => []FeaturesAsGiven
<1>1. Init => WalkInv /\ PassInv /\ HeldInv /\ ToldInv
  BY InitWalk, InitPass, InitHeld, InitTold
<1>2. WalkInv /\ PassInv /\ HeldInv /\ [Next]_vars => (WalkInv /\ PassInv /\ HeldInv)'
  BY NextWalk, NextPass, NextHeld
<1> QED
  BY <1>1, <1>2, NextTold, ToldAsGiven, ListInvariant, StartupInvariant, PTL DEF Spec

-----------------------------------------------------------------------------
(* What a client's flag comes to: R gives what the parser makes of a text.  *)
Some(set) == CHOOSE w \in set : TRUE
ParsesAlong(f, results, default) ==
  /\ f[0] = default
  /\ \A k \in 1..Len(results) :
       f[k] = IF results[k] = {} THEN f[k - 1] ELSE Some(results[k])

IsReading(g, results, default) ==
  g = [s \in SUBSET DOMAIN results |->
         IF s = {} THEN default
         ELSE LET i == Max(s)
              IN IF results[i] = {} THEN g[s \ {i}] ELSE CHOOSE w \in results[i] : TRUE]

LEMMA ParsedRuns ==
  ASSUME NEW T, NEW results \in Seq(T), NEW default
  PROVE  \E f : ParsesAlong(f, results, default) /\ LastParsed(results, default) = f[Len(results)]
<1> DEFINE m == Len(results)
           S == {default} \union {Some(r) : r \in T}
           step == [z \in S \X T |-> IF z[2] = {} THEN z[1] ELSE Some(z[2])]
<1>1. m \in Nat /\ DOMAIN results = 1..m
  BY LenProperties
<1>2. \E g : IsReading(g, results, default)
  <2>1. step \in [S \X T -> S] /\ default \in S
    <3>1. ASSUME NEW z \in S \X T
          PROVE  (IF z[2] = {} THEN z[1] ELSE Some(z[2])) \in S
      BY <3>1
    <3> HIDE DEF S
    <3>2. step \in [S \X T -> S]
      BY <3>1
    <3> QED
      BY <3>2 DEF S
  <2> HIDE DEF step, S
  <2>2. PICK iter \in [SUBSET (1..m) -> S] : IsFold(iter, step, default, results, m)
    BY <2>1, FoldExists, Zenon
  <2>3. ASSUME NEW s \in SUBSET (1..m), s # {}
        PROVE  step[iter[s \ {Max(s)}], results[Max(s)]]
                 = IF results[Max(s)] = {} THEN iter[s \ {Max(s)}] ELSE Some(results[Max(s)])
    <3>1. Max(s) \in 1..m
      BY <1>1, <2>3, MaxIn
    <3>2. results[Max(s)] \in T /\ iter[s \ {Max(s)}] \in S
      BY <1>1, <2>2, <3>1, ElementOfSeq
    <3> QED
      BY <3>2 DEF step
  <2>4. ASSUME NEW s \in SUBSET (1..m)
        PROVE  iter[s] = IF s = {} THEN default
                         ELSE IF results[Max(s)] = {} THEN iter[s \ {Max(s)}]
                              ELSE Some(results[Max(s)])
    <3>1. iter[s] = IF s = {} THEN default ELSE step[iter[s \ {Max(s)}], results[Max(s)]]
      BY <2>2, Zenon DEF IsFold
    <3> QED
      BY <2>3, <3>1, Zenon
  <2>5. iter = [s \in SUBSET (1..m) |-> iter[s]]
    BY <2>2
  <2>6. IsReading(iter, results, default)
    BY <1>1, <2>4, <2>5, Zenon DEF IsReading, Some
  <2> QED
    BY <2>6, Zenon
<1> DEFINE g == CHOOSE h : IsReading(h, results, default)
           f == [k \in 0..m |-> g[1..k]]
<1>3. IsReading(g, results, default)
  BY <1>2, Zenon
<1>4. LastParsed(results, default) = g[1..m]
  BY <1>1, Zenon DEF LastParsed, FoldLeft, MapThenFoldSet, IsReading
<1> HIDE DEF g, m, step, S
<1>5. \A s \in SUBSET (1..m) :
        g[s] = IF s = {} THEN default
               ELSE IF results[Max(s)] = {} THEN g[s \ {Max(s)}] ELSE Some(results[Max(s)])
  BY <1>1, <1>3, Zenon DEF IsReading, Some
<1>6. f[0] = default
  <2>1. 1..0 = {} /\ 0 \in 0..m /\ {} \in SUBSET (1..m)
    BY <1>1
  <2> QED
    BY <1>5, <2>1, Zenon
<1>7. ASSUME NEW k \in 1..m
      PROVE  f[k] = IF results[k] = {} THEN f[k - 1] ELSE Some(results[k])
  <2>1. k \in 0..m /\ k - 1 \in 0..m
    BY <1>1
  <2>2. /\ 1..k \in SUBSET (1..m) /\ 1..k # {} /\ Max(1..k) = k
        /\ (1..k) \ {k} = 1..(k - 1)
    BY <1>1, Segment
  <2> QED
    BY <1>5, <2>1, <2>2, Zenon
<1>8. ParsesAlong(f, results, default)
  BY <1>6, <1>7, Zenon DEF ParsesAlong, m
<1>9. LastParsed(results, default) = f[m]
  BY <1>1, <1>4
<1> HIDE DEF f
<1> QED
  BY <1>8, <1>9, Zenon DEF m

(* The flag's value after reading the texts of s, one after the other.      *)
ReadOf(R, s, default) == LastParsed([i \in DOMAIN s |-> R[s[i]]], default)
ReadsAlong(f, R, s, default) ==
  /\ f[0] = default
  /\ \A k \in 1..Len(s) : f[k] = IF R[s[k]] = {} THEN f[k - 1] ELSE Some(R[s[k]])

LEMMA ReadRuns ==
  ASSUME NEW X, NEW R \in [Texts -> X], NEW s \in Seq(Texts), NEW default
  PROVE  \E f : ReadsAlong(f, R, s, default) /\ ReadOf(R, s, default) = f[Len(s)]
<1>1. Len(s) \in Nat /\ DOMAIN s = 1..Len(s) /\ \A i \in 1..Len(s) : s[i] \in Texts
  BY LenProperties, ElementOfSeq
<1> DEFINE l == [i \in DOMAIN s |-> R[s[i]]]
<1>2. l = [i \in 1..Len(s) |-> R[s[i]]]
  BY <1>1, Zenon
<1>3. \A i \in 1..Len(s) : l[i] = R[s[i]] /\ R[s[i]] \in X
  BY <1>1, <1>2
<1> HIDE DEF l
<1>4. l \in Seq(X) /\ Len(l) = Len(s)
  BY <1>1, <1>2, <1>3
<1>5. PICK f : ParsesAlong(f, l, default) /\ LastParsed(l, default) = f[Len(l)]
  BY <1>4, ParsedRuns, Zenon
<1>6. ReadsAlong(f, R, s, default)
  BY <1>3, <1>4, <1>5, Zenon DEF ParsesAlong, ReadsAlong
<1>7. ReadOf(R, s, default) = f[Len(s)]
  BY <1>4, <1>5, Zenon DEF ReadOf, l
<1> QED
  BY <1>6, <1>7, Zenon

LEMMA ReadAppend ==
  ASSUME NEW X, NEW R \in [Texts -> X], NEW s \in Seq(Texts), NEW x \in Texts, NEW default
  PROVE  ReadOf(R, Append(s, x), default)
           = IF R[x] = {} THEN ReadOf(R, s, default) ELSE Some(R[x])
<1> PICK n \in Nat : n = Len(s)
  BY LenProperties
<1> DEFINE t == Append(s, x)
<1>1. t \in Seq(Texts) /\ Len(t) = n + 1 /\ t[n + 1] = x /\ \A i \in 1..n : t[i] = s[i]
  BY AppendProperties
<1> HIDE DEF t
<1>2. PICK f : ReadsAlong(f, R, s, default) /\ ReadOf(R, s, default) = f[n]
  BY ReadRuns, Zenon
<1>3. PICK g : ReadsAlong(g, R, t, default) /\ ReadOf(R, t, default) = g[Len(t)]
  BY <1>1, ReadRuns, Zenon
<1>4. f[0] = default /\ \A k \in 1..n : f[k] = IF R[s[k]] = {} THEN f[k - 1] ELSE Some(R[s[k]])
  BY <1>2, Zenon DEF ReadsAlong
<1>5. /\ g[0] = default
      /\ \A k \in 1..(n + 1) : g[k] = IF R[t[k]] = {} THEN g[k - 1] ELSE Some(R[t[k]])
  BY <1>1, <1>3, Zenon DEF ReadsAlong
<1> DEFINE G == {k \in 0..n : f[k] = g[k]}
<1>6. 0 \in G
  BY <1>4, <1>5
<1>7. \A k \in 0..(n - 1) : k \in G => k + 1 \in G
  <2> SUFFICES ASSUME NEW k \in 0..(n - 1), f[k] = g[k] PROVE k + 1 \in G
    OBVIOUS
  <2>1. k + 1 \in 1..n /\ k + 1 \in 1..(n + 1) /\ k + 1 \in 0..n /\ (k + 1) - 1 = k
    OBVIOUS
  <2>2. f[k + 1] = IF R[s[k + 1]] = {} THEN f[k] ELSE Some(R[s[k + 1]])
    BY <1>4, <2>1
  <2>3. g[k + 1] = IF R[t[k + 1]] = {} THEN g[k] ELSE Some(R[t[k + 1]])
    BY <1>5, <2>1
  <2>4. t[k + 1] = s[k + 1]
    BY <1>1, <2>1
  <2> QED
    BY <2>1, <2>2, <2>3, <2>4
<1> HIDE DEF G
<1>8. n \in G
  <2>1. \A k \in 0..n : k \in G
    BY <1>6, <1>7, UpTo, Zenon
  <2> QED
    BY <2>1
<1>9. f[n] = g[n]
  BY <1>8 DEF G
<1>10. g[n + 1] = IF R[x] = {} THEN g[n] ELSE Some(R[x])
  <2>1. n + 1 \in 1..(n + 1) /\ (n + 1) - 1 = n
    OBVIOUS
  <2> QED
    BY <1>1, <1>5, <2>1, Zenon
<1> QED
  BY <1>1, <1>2, <1>3, <1>9, <1>10, Zenon DEF t

LEMMA ReadNothing ==
  ASSUME NEW X, NEW R \in [Texts -> X], NEW default
  PROVE  ReadOf(R, <<>>, default) = default
<1>1. <<>> \in Seq(Texts) /\ Len(<<>>) = 0
  OBVIOUS
<1>2. PICK f : ReadsAlong(f, R, <<>>, default) /\ ReadOf(R, <<>>, default) = f[Len(<<>>)]
  BY <1>1, ReadRuns, Zenon
<1> QED
  BY <1>1, <1>2, Zenon DEF ReadsAlong

(* It is what the last of the first n texts gives that gives anything.      *)
LastOf(s, R, default, v, n) ==
  \/ v = default /\ \A i \in 1..n : R[s[i]] = {}
  \/ \E i \in 1..n : v = Some(R[s[i]]) /\ R[s[i]] # {} /\ \A j \in (i + 1)..n : R[s[j]] = {}

LEMMA LastOfNext ==
  ASSUME NEW s, NEW R, NEW default, NEW n \in Nat, NEW v, NEW w,
         LastOf(s, R, default, v, n),
         w = IF R[s[n + 1]] = {} THEN v ELSE Some(R[s[n + 1]])
  PROVE  LastOf(s, R, default, w, n + 1)
<1>1. /\ \A i \in 1..(n + 1) : i \in 1..n \/ i = n + 1
      /\ n + 1 \in 1..(n + 1) /\ \A j \in ((n + 1) + 1)..(n + 1) : FALSE
      /\ \A i \in 1..n : /\ i \in 1..(n + 1)
                         /\ \A j \in (i + 1)..(n + 1) : j \in (i + 1)..n \/ j = n + 1
  OBVIOUS
<1>2. CASE R[s[n + 1]] # {}
  BY <1>1, <1>2, Zenon DEF LastOf
<1>3. CASE R[s[n + 1]] = {}
  <2>1. w = v
    BY <1>3
  <2>2. CASE v = default /\ \A i \in 1..n : R[s[i]] = {}
    <3>1. \A i \in 1..(n + 1) : R[s[i]] = {}
      BY <1>1, <1>3, <2>2, Zenon
    <3> QED
      BY <2>1, <2>2, <3>1, Zenon DEF LastOf
  <2>3. CASE \E i \in 1..n : v = Some(R[s[i]]) /\ R[s[i]] # {} /\ \A j \in (i + 1)..n : R[s[j]] = {}
    <3> PICK i \in 1..n : v = Some(R[s[i]]) /\ R[s[i]] # {} /\ \A j \in (i + 1)..n : R[s[j]] = {}
      BY <2>3
    <3>1. i \in 1..(n + 1) /\ \A j \in (i + 1)..(n + 1) : R[s[j]] = {}
      BY <1>1, <1>3, Zenon
    <3> QED
      BY <2>1, <3>1, Zenon DEF LastOf
  <2> QED
    BY <2>2, <2>3, Zenon DEF LastOf
<1> QED
  BY <1>2, <1>3

(* Texts that give nothing can be left out,                                 *)
LEMMA SelectedLastOf ==
  ASSUME NEW X, NEW R \in [Texts -> X], NEW s \in Seq(Texts), NEW default, NEW chosen,
         \A i \in 1..Len(s) : s[i] \notin chosen => R[s[i]] = {}
  PROVE  LastOf(s, R, default, ReadOf(R, Selected(s, chosen), default), Len(s))
<1> PICK n \in Nat : n = Len(s)
  BY LenProperties
<1>1. PICK f \in [0..Len(s) -> Seq(Texts)] :
        SelectsAlong(f, s, chosen) /\ Selected(s, chosen) = f[Len(s)]
  BY ONLY SelectedRuns, s \in Seq(Texts)
<1>2. /\ f \in [0..n -> Seq(Texts)]
      /\ SelectsAlong(f, s, chosen) /\ Selected(s, chosen) = f[n]
  BY <1>1
<1>3. /\ f[0] = <<>>
      /\ \A k \in 1..n : f[k] = IF s[k] \in chosen THEN Append(f[k - 1], s[k]) ELSE f[k - 1]
  BY <1>2, Zenon DEF SelectsAlong
<1> DEFINE V(k) == ReadOf(R, f[k], default)
           G == {k \in 0..n : LastOf(s, R, default, V(k), k)}
<1>4. 0 \in G
  <2>1. V(0) = default
    BY <1>3, ReadNothing, Zenon
  <2>2. 0 \in 0..n /\ \A i \in 1..0 : FALSE
    OBVIOUS
  <2> HIDE DEF V
  <2>3. LastOf(s, R, default, V(0), 0)
    BY <2>1, <2>2, Zenon DEF LastOf
  <2> QED
    BY <2>2, <2>3
<1>5. \A k \in 0..(n - 1) : k \in G => k + 1 \in G
  <2> SUFFICES ASSUME NEW k \in 0..(n - 1), LastOf(s, R, default, V(k), k) PROVE k + 1 \in G
    OBVIOUS
  <2>1. k \in Nat /\ k \in 0..n /\ k + 1 \in 1..n /\ k + 1 \in 0..n /\ (k + 1) - 1 = k
    OBVIOUS
  <2>2. s[k + 1] \in Texts /\ f[k] \in Seq(Texts)
    BY <2>1, ElementOfSeq
  <2>3. f[k + 1] = IF s[k + 1] \in chosen THEN Append(f[k], s[k + 1]) ELSE f[k]
    BY <1>3, <2>1, Zenon
  <2>4. V(k + 1) = IF R[s[k + 1]] = {} THEN V(k) ELSE Some(R[s[k + 1]])
    <3>1. CASE s[k + 1] \in chosen
      <4> PICK h \in Seq(Texts), x \in Texts : h = f[k] /\ x = s[k + 1]
        BY <2>2
      <4>1. ReadOf(R, Append(h, x), default)
              = IF R[x] = {} THEN ReadOf(R, h, default) ELSE Some(R[x])
        BY ONLY ReadAppend, R \in [Texts -> X], h \in Seq(Texts), x \in Texts
      <4> QED
        BY <2>3, <3>1, <4>1, Zenon
    <3>2. CASE s[k + 1] \notin chosen
      <4>1. R[s[k + 1]] = {}
        BY <2>1, <3>2
      <4> QED
        BY <2>3, <3>2, <4>1, Zenon
    <3> QED
      BY <3>1, <3>2
  <2> HIDE DEF V
  <2>5. LastOf(s, R, default, V(k + 1), k + 1)
    BY <2>1, <2>4, LastOfNext, Zenon
  <2> QED
    BY <2>1, <2>5
<1> HIDE DEF G
<1>6. n \in G
  <2>1. \A k \in 0..n : k \in G
    BY <1>4, <1>5, UpTo, Zenon
  <2> QED
    BY <2>1
<1> QED
  BY <1>2, <1>6, Zenon DEF G

(* and the last one read again.                                             *)
LEMMA RepeatedLastOf ==
  ASSUME NEW X, NEW R \in [Texts -> X], NEW s \in Seq(Texts), NEW default,
         NEW f \in Seq(Texts), NEW r \in Seq(Texts),
         \A i \in 1..Len(r) : r[i] = s[Len(s)], Len(r) <= Len(s),
         LastOf(s, R, default, ReadOf(R, f, default), Len(s))
  PROVE  LastOf(s, R, default, ReadOf(R, f \o r, default), Len(s))
<1> PICK n \in Nat, m \in Nat : n = Len(s) /\ m = Len(r)
  BY LenProperties
<1> DEFINE V(k) == ReadOf(R, f \o SubSeq(r, 1, k), default)
           G == {k \in 0..m : LastOf(s, R, default, V(k), n)}
<1>1. 0 \in G
  <2>1. SubSeq(r, 1, 0) = <<>>
    BY SubSeqEmpty
  <2>2. f \o <<>> = f
    BY ConcatEmptySeq
  <2>3. V(0) = ReadOf(R, f, default)
    BY <2>1, <2>2, Zenon
  <2> HIDE DEF V
  <2> QED
    BY <2>3
<1>2. \A k \in 0..(m - 1) : k \in G => k + 1 \in G
  <2> SUFFICES ASSUME NEW k \in 0..(m - 1), LastOf(s, R, default, V(k), n) PROVE k + 1 \in G
    OBVIOUS
  <2>1. k \in 0..(Len(r) - 1) /\ 1 \in Nat \ {0} /\ 1 <= k + 1 /\ k + 1 \in 1..m /\ k + 1 \in 0..m
        /\ n \in 1..n /\ k \in 0..Len(r) /\ n \in 1..Len(s)
    OBVIOUS
  <2>2. SubSeq(r, 1, k + 1) = Append(SubSeq(r, 1, k), r[k + 1])
    BY <2>1, SubSeqAppend
  <2> PICK x \in Texts : x = s[n] /\ x = r[k + 1]
    BY <2>1, ElementOfSeq
  <2> PICK q \in Seq(Texts) : q = SubSeq(r, 1, k)
    BY <2>1, PartIs
  <2>3. f \o q \in Seq(Texts)
    BY ConcatProperties
  <2> PICK h \in Seq(Texts) : h = f \o q
    BY <2>3
  <2>4. f \o Append(q, x) = Append(h, x)
    BY AppendBehind
  <2>5. ReadOf(R, Append(h, x), default) = IF R[x] = {} THEN ReadOf(R, h, default) ELSE Some(R[x])
    BY ONLY ReadAppend, R \in [Texts -> X], h \in Seq(Texts), x \in Texts
  <2>6. V(k + 1) = IF R[x] = {} THEN V(k) ELSE Some(R[x])
    BY <2>2, <2>4, <2>5, Zenon
  <2> HIDE DEF V
  <2>7. LastOf(s, R, default, V(k + 1), n)
    <3>1. CASE R[x] = {}
      BY <2>6, <3>1
    <3>2. CASE R[x] # {}
      <4>1. V(k + 1) = Some(R[s[n]]) /\ R[s[n]] # {} /\ \A j \in (n + 1)..n : FALSE
        BY <2>6, <3>2
      <4> QED
        BY <2>1, <4>1, Zenon DEF LastOf
    <3> QED
      BY <3>1, <3>2
  <2> QED
    BY <2>1, <2>7
<1> HIDE DEF G
<1>3. m \in G
  <2>1. \A k \in 0..m : k \in G
    BY <1>1, <1>2, UpTo, Zenon
  <2> QED
    BY <2>1
<1>4. SubSeq(r, 1, m) = r
  BY SubSeqFull
<1> QED
  BY <1>3, <1>4, Zenon DEF G

-----------------------------------------------------------------------------
(* ParseUInt16Flag reads the numbers that a uint16 can be, but for zero, and *)
(* those that are one of them less what an unsigned long can hold.          *)
IsNamed(text, flag) == ~text.blanks /\ text.dashes = 2 /\ text.name = flag

LEMMA Wrapping ==
  ASSUME NEW n \in Int, NEW u, u = strtoull(n)
  PROVE  /\ u \in Int
         /\ u \notin {0, ULongMax} /\ AsUInt16(u) = u =>
              u \in 1 .. 2 ^ IntBits - 1 /\ n \in {u, u - 2 ^ LongBits}
         /\ \A m \in 1 .. 2 ^ IntBits - 1 :
              n \in {m, m - 2 ^ LongBits} =>
                m = u /\ u \notin {0, ULongMax} /\ AsUInt16(u) = u
<1> PICK W \in Nat : W = 2 ^ IntBits /\ W > 0
  BY PowersAssumption
<1> PICK L \in Nat : L = 2 ^ LongBits /\ L >= 2 * W
  BY PowersAssumption
<1>1. ULongMax = L - 1
  BY DEF ULongMax
<1>2. u = IF n > L - 1 \/ n < -(L - 1) THEN L - 1 ELSE n % L
  BY <1>1 DEF strtoull
<1>3. n \in 0..(L - 1) => n % L = n
  BY Remainder
<1>4. n \in -(L - 1)..-1 => n % L = n + L
  OBVIOUS
<1>5. u \in 0..(L - 1)
  BY <1>2, <1>3, <1>4
<1>6. AsUInt16(u) = u <=> u \in 0..(W - 1)
  <2>1. AsUInt16(u) = u % W
    BY DEF AsUInt16
  <2>2. u \in Int
    BY <1>5
  <2>3. u % W = u <=> u \in 0..(W - 1)
    BY ONLY <2>2, Remainder, W \in Nat, W > 0
  <2> QED
    BY <2>1, <2>3
<1>7. ASSUME u \notin {0, L - 1}, u \in 0..(W - 1) PROVE u \in 1..(W - 1) /\ n \in {u, u - L}
  <2>1. ~(n > L - 1 \/ n < -(L - 1))
    BY <1>2, <1>7
  <2>2. n \in 0..(L - 1) \/ n \in -(L - 1)..-1
    BY <2>1
  <2>3. u = n \/ u = n + L
    BY <1>2, <1>3, <1>4, <2>1, <2>2
  <2> QED
    BY <1>7, <2>3
<1>8. ASSUME NEW m \in 1..(W - 1), n \in {m, m - L}
      PROVE  m = u /\ u \notin {0, L - 1} /\ u \in 0..(W - 1)
  <2>1. ~(n > L - 1 \/ n < -(L - 1)) /\ (n \in 0..(L - 1) \/ n \in -(L - 1)..-1)
    BY <1>8
  <2>2. m = u
    <3>1. CASE n = m
      BY <1>2, <1>3, <2>1, <3>1
    <3>2. CASE n = m - L
      BY <1>2, <1>4, <2>1, <3>2
    <3> QED
      BY <1>8, <3>1, <3>2
  <2> QED
    BY <1>8, <2>2
<1> QED
  BY <1>1, <1>5, <1>6, <1>7, <1>8

LEMMA ReadsUInt16s ==
  ASSUME NEW text, text.value \in Seq(Range(text.value)), text.equals \in BOOLEAN, NEW flag
  PROVE  /\ ParseUInt16Flag(text, flag) = IF IsNamed(text, flag) THEN UInt16s(text) ELSE {}
         /\ UInt16s(text) # {} => \E v : UInt16s(text) = {v}
<1> PICK value : value = text.value
  OBVIOUS
<1> DEFINE Width == 1 .. 2 ^ IntBits - 1
<1>1. ~IsNamed(text, flag) => ParseUInt16Flag(text, flag) = {}
  BY DEF IsNamed, ParseUInt16Flag, ParseFlagValue
<1>2. CASE ~text.equals
  <2>1. UInt16s(text) = {}
    BY <1>2 DEF UInt16s, Numbers
  <2>2. ParseUInt16Flag(text, flag) = {}
    BY <1>2 DEF ParseUInt16Flag, ParseFlagValue
  <2> QED
    BY <1>1, <2>1, <2>2
<1>3. CASE text.equals
  <2>1. IsNamed(text, flag) => ParseUInt16Flag(text, flag) = ParseUInt16(value)
    BY <1>3 DEF IsNamed, ParseUInt16Flag, ParseFlagValue
  <2>2. CASE \E n \in Int : Consumed(value) /\ Written(value) = n /\ Numbers(text) = {n}
    <3> PICK n \in Int : Consumed(value) /\ Written(value) = n /\ Numbers(text) = {n}
      BY <2>2
    <3> PICK u : u = strtoull(n)
      OBVIOUS
    <3> PICK L, M : L = 2 ^ LongBits /\ M = ULongMax
      OBVIOUS
    <3> DEFINE fits == u \notin {0, M} /\ AsUInt16(u) = u
    <3>1. ParseUInt16(value) = IF fits THEN {u} ELSE {}
      BY DEF ParseUInt16
    <3>2. UInt16s(text) = {m \in Width : n \in {m, m - L}}
      BY DEF UInt16s
    <3>3. /\ fits => u \in Width /\ n \in {u, u - L}
          /\ \A m \in Width : n \in {m, m - L} => m = u /\ fits
      BY Wrapping, ZenonT(60)
    <3> HIDE DEF fits, Width
    <3>4. UInt16s(text) = IF fits THEN {u} ELSE {}
      <4> PICK S : S = UInt16s(text)
        OBVIOUS
      <4>1. \A m : m \in S <=> m \in Width /\ n \in {m, m - L}
        BY <3>2, Zenon
      <4>2. CASE fits
        <5>1. \A m : m \in S <=> m = u
          BY <3>3, <4>1, <4>2, Zenon
        <5>2. S = {u}
          BY ONLY <5>1
        <5> QED
          BY <4>2, <5>2, Zenon
      <4>3. CASE ~fits
        <5>1. \A m : m \notin S
          BY <3>3, <4>1, <4>3, Zenon
        <5>2. S = {}
          BY ONLY <5>1
        <5> QED
          BY <4>3, <5>2, Zenon
      <4> QED
        BY <4>2, <4>3
    <3> QED
      BY <1>1, <2>1, <3>1, <3>4
  <2>3. CASE ~Consumed(value) /\ Numbers(text) = {}
    <3>1. ParseUInt16(value) = {} /\ UInt16s(text) = {}
      BY <2>3 DEF ParseUInt16, UInt16s
    <3> QED
      BY <1>1, <2>1, <3>1
  <2> QED
    BY <1>3, <2>2, <2>3, NumbersAre
<1> QED
  BY <1>2, <1>3

LEMMA ReadsTruths ==
  ASSUME NEW text, NEW flag
  PROVE  /\ ParseBoolFlag(text, flag) = IF IsNamed(text, flag) THEN Truths(text) ELSE {}
         /\ \E v : Truths(text) = {v}
<1>1. \E v : Truths(text) = {v}
  BY Zenon DEF Truths
<1>2. CASE IsNamed(text, flag)
  <2>1. ParseFlagValue(text, flag, TRUE) = {text.value}
    BY <1>2, Zenon DEF IsNamed, ParseFlagValue
  <2>2. ParseBoolFlag(text, flag) = Truths(text)
    BY <2>1, Zenon DEF ParseBoolFlag, Truths
  <2> QED
    BY <1>1, <1>2, <2>2
<1>3. CASE ~IsNamed(text, flag)
  <2>1. ParseFlagValue(text, flag, TRUE) = {}
    BY <1>3, Zenon DEF IsNamed, ParseFlagValue
  <2>2. ParseBoolFlag(text, flag) = {}
    BY <2>1, Zenon DEF ParseBoolFlag
  <2> QED
    BY <1>1, <1>3, <2>2
<1> QED
  BY <1>2, <1>3

LEMMA TextFields ==
  ASSUME NEW text \in Texts
  PROVE  text.value \in Seq(Range(text.value)) /\ text.equals \in BOOLEAN
<1> PICK T : T = Symbols
  OBVIOUS
<1> PICK S : S = Seq(T)
  OBVIOUS
<1>1. text \in [dashes : Nat, name : S, equals : BOOLEAN, value : S, blanks : BOOLEAN]
  BY Zenon DEF Texts
<1> PICK v : v = text.value
  OBVIOUS
<1>2. text.equals \in BOOLEAN /\ v \in Seq(T)
  BY ONLY <1>1, v = text.value, S = Seq(T)
<1>3. Len(v) \in Nat /\ DOMAIN v = 1..Len(v) /\ v = [i \in 1..Len(v) |-> v[i]]
  BY ONLY <1>2, LenProperties
<1>4. \A i \in 1..Len(v) : v[i] \in Range(v)
  BY <1>3 DEF Range
<1>5. v \in Seq(Range(v))
  <2> PICK R : R = Range(v)
    OBVIOUS
  <2> QED
    BY ONLY <1>3, <1>4, R = Range(v)
<1> QED
  BY <1>2, <1>5

(* The text that LastMeant takes: it is the last one that gives anything.   *)
LastTold(args, S) == {args[i] : i \in {Max({0} \union S)} \ {0}}

AreTelling(S, args, R, n) == \A i : i \in S <=> i \in 1..n /\ R[args[i]] # {}
IsLastTold(v, S, args, R, default, n) ==
  \/ LastTold(args, S) = {} /\ v = default
  \/ \E i \in 1..n : /\ LastTold(args, S) = {args[i]}
                     /\ R[args[i]] # {} /\ v = Some(R[args[i]])

LEMMA LastIsTold ==
  ASSUME NEW args, NEW n \in Nat, NEW R, NEW default, NEW v, LastOf(args, R, default, v, n),
         NEW S, AreTelling(S, args, R, n)
  PROVE  IsLastTold(v, S, args, R, default, n)
<1>0. \A i : i \in S <=> i \in 1..n /\ R[args[i]] # {}
  BY DEF AreTelling
<1>1. CASE v = default /\ \A i \in 1..n : R[args[i]] = {}
  <2>1. {0} \union S = {0}
    BY <1>0, <1>1
  <2>2. 0 \in {0} /\ {0} \in SUBSET Nat /\ \A i \in {0} : i <= 0
    OBVIOUS
  <2>3. Max({0}) = 0
    BY <2>2, MaxOf
  <2>4. LastTold(args, S) = {}
    BY <2>1, <2>3, Zenon DEF LastTold
  <2> QED
    BY <1>1, <2>4, Zenon DEF IsLastTold
<1>2. CASE \E i \in 1..n : /\ v = Some(R[args[i]]) /\ R[args[i]] # {}
                           /\ \A j \in (i + 1)..n : R[args[j]] = {}
  <2> PICK i \in 1..n : /\ v = Some(R[args[i]]) /\ R[args[i]] # {}
                        /\ \A j \in (i + 1)..n : R[args[j]] = {}
    BY <1>2
  <2>1. i \in S /\ S \subseteq Nat
    BY <1>0
  <2>2. \A j \in S : j <= i
    <3> SUFFICES ASSUME NEW j \in 1..n, R[args[j]] # {} PROVE j <= i
      BY <1>0
    <3>1. ~(j \in (i + 1)..n)
      OBVIOUS
    <3> QED
      BY <3>1
  <2>3. Max({0} \union S) = i
    <3>1. {0} \union S \in SUBSET Nat /\ i \in {0} \union S /\ i \in Nat
      BY ONLY <2>1, i \in 1..n
    <3>2. \A j \in {0} \union S : j <= i
      BY ONLY <2>2, <3>1
    <3> QED
      BY ONLY <3>1, <3>2, MaxOf
  <2>4. i # 0
    OBVIOUS
  <2>5. LastTold(args, S) = {args[i]}
    <3>1. {Max({0} \union S)} \ {0} = {i}
      BY ONLY <2>3, <2>4
    <3>2. {args[k] : k \in {i}} = {args[i]}
      OBVIOUS
    <3> QED
      BY <3>1, <3>2, Zenon DEF LastTold
  <2> QED
    BY <2>5, Zenon DEF IsLastTold
<1> QED
  BY <1>1, <1>2 DEF LastOf

(* What the client reads from what it gets is what the command line gives   *)
(* last, whatever has been taken out of it.                                 *)
LEMMA PassedIsLast ==
  ASSUME given \in CommandLines, argc \in 1..(Len(given) + 1),
         NEW X, NEW R \in [Texts -> X], NEW default,
         \A text \in Texts : text.name = <<"v">> => R[text] = {}
  PROVE  LastOf(given, R, default, ReadOf(R, Passed, default), Len(given))
<1> PICK s \in Seq(Texts) : s = given
  BY GivenTexts
<1> PICK n \in Nat : n = Len(s)
  BY LenProperties
<1>1. DOMAIN s = 1..n /\ \A i \in 1..n : s[i] \in Texts
  BY LenProperties, ElementOfSeq
<1>2. PICK r \in Seq(Texts) :
        /\ Passed = Selected(s, Kept) \o r /\ Len(r) = (n + 1) - argc
        /\ \A i \in 1..((n + 1) - argc) : r[i] = s[n]
  BY PassedParts, Zenon
<1>3. \A i \in 1..n : s[i] \notin Kept => R[s[i]] = {}
  <2> SUFFICES ASSUME NEW i \in 1..n, s[i] \notin Kept PROVE R[s[i]] = {}
    OBVIOUS
  <2>1. Reads(s[i]) # {} /\ s[i] \in Texts
    BY <1>1 DEF Kept
  <2>2. s[i].name = <<"v">>
    BY <2>1, TextFields, ReadsInt32s, Zenon DEF IsVerbosity
  <2> QED
    BY <2>1, <2>2, Zenon
<1>4. LastOf(s, R, default, ReadOf(R, Selected(s, Kept), default), n)
  <2>1. LastOf(s, R, default, ReadOf(R, Selected(s, Kept), default), Len(s))
    <3>1. \A i \in 1..Len(s) : s[i] \notin Kept => R[s[i]] = {}
      BY <1>3
    <3> QED
      BY ONLY <3>1, SelectedLastOf, R \in [Texts -> X], s \in Seq(Texts)
  <2> QED
    BY <2>1
<1> PICK f : f = Selected(s, Kept)
  OBVIOUS
<1>5. f \in Seq(Texts)
  BY ONLY SelectedType, s \in Seq(Texts), f = Selected(s, Kept)
<1>6. LastOf(s, R, default, ReadOf(R, f \o r, default), n)
  <2>1. /\ \A i \in 1..Len(r) : r[i] = s[Len(s)]
        /\ Len(r) <= Len(s)
        /\ LastOf(s, R, default, ReadOf(R, f, default), Len(s))
    BY <1>2, <1>4
  <2>2. LastOf(s, R, default, ReadOf(R, f \o r, default), Len(s))
    BY ONLY <1>5, <2>1, RepeatedLastOf, R \in [Texts -> X], s \in Seq(Texts), r \in Seq(Texts)
  <2> QED
    BY <2>2
<1> QED
  BY <1>2, <1>6, Zenon

(* The client's flags.                                                      *)
Ports == [text \in Texts |-> ParseUInt16Flag(text, <<"port">>)]
Colours == [text \in Texts |-> ParseBoolFlag(text, <<"colour">>)]

LEMMA PortIsMeant ==
  ASSUME given \in CommandLines, argc \in 1..(Len(given) + 1)
  PROVE  ReadOf(Ports, Passed, 1) = LastMeant(given, <<"port">>, UInt16s, 1)
<1> PICK n \in Nat : n = Len(given)
  BY GivenTexts
<1>1. DOMAIN given = 1..n /\ \A i \in 1..n : given[i] \in Texts
  BY GivenTexts, GivenIs
<1>2. ASSUME NEW text \in Texts
      PROVE  /\ Ports[text] = IF IsNamed(text, <<"port">>) THEN UInt16s(text) ELSE {}
             /\ UInt16s(text) # {} => \E w : UInt16s(text) = {w}
  <2>1. /\ ParseUInt16Flag(text, <<"port">>)
             = IF IsNamed(text, <<"port">>) THEN UInt16s(text) ELSE {}
        /\ UInt16s(text) # {} => \E w : UInt16s(text) = {w}
    BY TextFields, ReadsUInt16s, Zenon
  <2> QED
    BY <2>1, Zenon DEF Ports
<1>3. <<"port">> # <<"v">>
  <2>1. "port" # "v"
    OBVIOUS
  <2> QED
    BY <2>1, Words
<1>4. \A text \in Texts : text.name = <<"v">> => Ports[text] = {}
  BY <1>2, <1>3, Zenon DEF IsNamed
<1> PICK v : v = ReadOf(Ports, Passed, 1)
  OBVIOUS
<1> DEFINE X == {ParseUInt16Flag(text, <<"port">>) : text \in Texts}
<1>5. LastOf(given, Ports, 1, v, n)
  <2>1. Ports \in [Texts -> X]
    BY Zenon DEF Ports
  <2> HIDE DEF X
  <2>2. LastOf(given, Ports, 1, ReadOf(Ports, Passed, 1), Len(given))
    BY <1>4, <2>1, PassedIsLast
  <2> QED
    BY <2>2
<1> PICK S : S = {i \in 1..n : Ports[given[i]] # {}}
  OBVIOUS
<1> DEFINE Told == {i \in DOMAIN given : /\ ~given[i].blanks /\ given[i].dashes = 2
                                         /\ given[i].name = <<"port">>
                                         /\ UInt16s(given[i]) # {}}
           Meant(texts) == CHOOSE w \in IF texts = {} THEN {1}
                                        ELSE UNION {UInt16s(text) : text \in texts} : TRUE
<1>6. Told = S
  <2>1. \A i \in 1..n : i \in Told <=> i \in S
    BY <1>1, <1>2, Zenon DEF IsNamed
  <2>2. Told \subseteq 1..n /\ S \subseteq 1..n
    BY <1>1
  <2> HIDE DEF Told
  <2> QED
    BY <2>1, <2>2
<1>7. \A i : i \in S <=> i \in 1..n /\ Ports[given[i]] # {}
  OBVIOUS
<1>8. LastMeant(given, <<"port">>, UInt16s, 1) = Meant(LastTold(given, Told))
  BY Zenon DEF LastMeant, LastTold
<1>9. \/ LastTold(given, S) = {} /\ v = 1
      \/ \E i \in 1..n : /\ LastTold(given, S) = {given[i]}
                         /\ Ports[given[i]] # {} /\ v = Some(Ports[given[i]])
  <2>1. AreTelling(S, given, Ports, n)
    BY <1>7, Zenon DEF AreTelling
  <2>2. IsLastTold(v, S, given, Ports, 1, n)
    BY <1>5, <2>1, LastIsTold, n \in Nat, Zenon
  <2> QED
    BY <2>2, Zenon DEF IsLastTold
<1> HIDE DEF Told
<1>10. CASE LastTold(given, S) = {} /\ v = 1
  <2>1. \A texts : texts = {} => Meant(texts) = 1
    OBVIOUS
  <2> HIDE DEF Meant
  <2> QED
    BY <1>6, <1>8, <1>10, <2>1, Zenon
<1>11. CASE \E i \in 1..n : /\ LastTold(given, S) = {given[i]}
                            /\ Ports[given[i]] # {} /\ v = Some(Ports[given[i]])
  <2> PICK i \in 1..n : /\ LastTold(given, S) = {given[i]}
                        /\ Ports[given[i]] # {} /\ v = Some(Ports[given[i]])
    BY <1>11
  <2>1. PICK w : UInt16s(given[i]) = {w} /\ Ports[given[i]] = {w}
    BY <1>1, <1>2, Zenon
  <2>2. v = w
    BY <2>1, Zenon DEF Some
  <2> PICK t : t = given[i]
    OBVIOUS
  <2>3. UNION {UInt16s(text) : text \in {t}} = {w}
    BY <2>1, Zenon
  <2>4. Meant({t}) = w
    BY <2>3, Zenon
  <2> HIDE DEF Meant
  <2> QED
    BY <1>6, <1>8, <2>2, <2>4, Zenon
<1> QED
  BY <1>9, <1>10, <1>11, Zenon

LEMMA ColourIsMeant ==
  ASSUME given \in CommandLines, argc \in 1..(Len(given) + 1)
  PROVE  ReadOf(Colours, Passed, FALSE) = LastMeant(given, <<"colour">>, Truths, FALSE)
<1> PICK n \in Nat : n = Len(given)
  BY GivenTexts
<1>1. DOMAIN given = 1..n /\ \A i \in 1..n : given[i] \in Texts
  BY GivenTexts, GivenIs
<1>2. ASSUME NEW text \in Texts
      PROVE  /\ Colours[text] = IF IsNamed(text, <<"colour">>) THEN Truths(text) ELSE {}
             /\ \E w : Truths(text) = {w}
  <2>1. /\ ParseBoolFlag(text, <<"colour">>)
             = IF IsNamed(text, <<"colour">>) THEN Truths(text) ELSE {}
        /\ \E w : Truths(text) = {w}
    BY ReadsTruths, Zenon
  <2> QED
    BY <2>1, Zenon DEF Colours
<1>3. <<"colour">> # <<"v">>
  <2>1. "colour" # "v"
    OBVIOUS
  <2> QED
    BY <2>1, Words
<1>4. \A text \in Texts : text.name = <<"v">> => Colours[text] = {}
  BY <1>2, <1>3, Zenon DEF IsNamed
<1> PICK v, d : v = ReadOf(Colours, Passed, FALSE) /\ d = FALSE
  BY Zenon
<1> DEFINE X == {ParseBoolFlag(text, <<"colour">>) : text \in Texts}
<1>5. LastOf(given, Colours, d, v, n)
  <2>1. Colours \in [Texts -> X]
    BY Zenon DEF Colours
  <2> HIDE DEF X
  <2>2. LastOf(given, Colours, d, ReadOf(Colours, Passed, d), Len(given))
    BY ONLY <1>4, <2>1, PassedIsLast, given \in CommandLines, argc \in 1..(Len(given) + 1)
  <2> QED
    BY <2>2, Zenon
<1> PICK S : S = {i \in 1..n : Colours[given[i]] # {}}
  OBVIOUS
<1> DEFINE Told == {i \in DOMAIN given : /\ ~given[i].blanks /\ given[i].dashes = 2
                                         /\ given[i].name = <<"colour">>
                                         /\ Truths(given[i]) # {}}
           Meant(texts) == CHOOSE w \in IF texts = {} THEN {d}
                                        ELSE UNION {Truths(text) : text \in texts} : TRUE
<1>6. Told = S
  <2>1. \A i \in 1..n : i \in Told <=> i \in S
    BY <1>1, <1>2, Zenon DEF IsNamed
  <2>2. Told \subseteq 1..n /\ S \subseteq 1..n
    BY <1>1
  <2> HIDE DEF Told
  <2> QED
    BY <2>1, <2>2
<1>7. \A i : i \in S <=> i \in 1..n /\ Colours[given[i]] # {}
  OBVIOUS
<1>8. LastMeant(given, <<"colour">>, Truths, FALSE) = Meant(LastTold(given, Told))
  BY Zenon DEF LastMeant, LastTold
<1>9. \/ LastTold(given, S) = {} /\ v = d
      \/ \E i \in 1..n : /\ LastTold(given, S) = {given[i]}
                         /\ Colours[given[i]] # {} /\ v = Some(Colours[given[i]])
  <2>1. AreTelling(S, given, Colours, n)
    BY <1>7, Zenon DEF AreTelling
  <2>2. IsLastTold(v, S, given, Colours, d, n)
    BY <1>5, <2>1, LastIsTold, n \in Nat, Zenon
  <2> QED
    BY <2>2, Zenon DEF IsLastTold
<1> HIDE DEF Told
<1>10. CASE LastTold(given, S) = {} /\ v = d
  <2>1. \A texts : texts = {} => Meant(texts) = d
    BY Zenon
  <2> HIDE DEF Meant
  <2> QED
    BY <1>6, <1>8, <1>10, <2>1, Zenon
<1>11. CASE \E i \in 1..n : /\ LastTold(given, S) = {given[i]}
                            /\ Colours[given[i]] # {} /\ v = Some(Colours[given[i]])
  <2> PICK i \in 1..n : /\ LastTold(given, S) = {given[i]}
                        /\ Colours[given[i]] # {} /\ v = Some(Colours[given[i]])
    BY <1>11
  <2>1. PICK w : Truths(given[i]) = {w} /\ Colours[given[i]] = {w}
    BY <1>1, <1>2, Zenon
  <2>2. v = w
    BY <2>1, Zenon DEF Some
  <2> PICK t : t = given[i]
    OBVIOUS
  <2>3. UNION {Truths(text) : text \in {t}} = {w}
    BY <2>1, Zenon
  <2>4. Meant({t}) = w
    BY <2>3, Zenon
  <2> HIDE DEF Meant
  <2> QED
    BY <1>6, <1>8, <2>2, <2>4, Zenon
<1> QED
  BY <1>9, <1>10, <1>11, Zenon

ClientFlagsInv ==
  /\ at = "flags" => port = 1 /\ colour = FALSE
  /\ at \notin {"flags", "exited"} =>
       /\ port = LastMeant(given, <<"port">>, UInt16s, 1)
       /\ colour = LastMeant(given, <<"colour">>, Truths, FALSE)

LEMMA NextClientFlags == WalkInv /\ PassInv /\ ClientFlagsInv /\ [Next]_vars => ClientFlagsInv'
<1> SUFFICES ASSUME WalkInv, PassInv, ClientFlagsInv, [Next]_vars PROVE ClientFlagsInv'
  OBVIOUS
<1>1. CASE MakeCommandLine
  <2>1. /\ at = "flags" /\ idx >= argc /\ given' = given /\ at' \in {"terminated", "client"}
        /\ port' = LastParsed([i \in DOMAIN Tail(argv) |->
                                 ParseUInt16Flag(Tail(argv)[i], <<"port">>)], port)
        /\ colour' = LastParsed([i \in DOMAIN Tail(argv) |->
                                   ParseBoolFlag(Tail(argv)[i], <<"colour">>)], colour)
    BY <1>1, Zenon DEF MakeCommandLine
  <2>2. port = 1 /\ colour = FALSE
    BY <2>1 DEF ClientFlagsInv
  <2>3. given \in CommandLines /\ argc \in 1..(Len(given) + 1) /\ idx \in 1..argc
        /\ Len(given) \in Nat
    BY GivenTexts DEF WalkInv
  <2>4. LookedAt = Len(given)
    BY <2>1, <2>3 DEF LookedAt
  <2>5. Passed \in Seq(Texts) /\ argv = <<Program>> \o Passed
    BY <2>4, PassedIs
  <2> PICK p \in Seq(Texts) : p = Passed
    BY <2>5
  <2>6. Tail(argv) = p
    BY <2>5, ProgramFirst, Zenon
  <2>7. DOMAIN p = 1..Len(p) /\ \A i \in DOMAIN p : p[i] \in Texts
    BY LenProperties, ElementOfSeq
  <2>8. port' = ReadOf(Ports, p, 1)
    <3>1. \A i \in DOMAIN p : ParseUInt16Flag(p[i], <<"port">>) = Ports[p[i]]
      BY <2>7, Zenon DEF Ports
    <3>2. [i \in DOMAIN p |-> ParseUInt16Flag(p[i], <<"port">>)] = [i \in DOMAIN p |-> Ports[p[i]]]
      BY <3>1, Zenon
    <3> QED
      BY <2>1, <2>2, <2>6, <3>2, Zenon DEF ReadOf
  <2>9. colour' = ReadOf(Colours, p, FALSE)
    <3>1. \A i \in DOMAIN p : ParseBoolFlag(p[i], <<"colour">>) = Colours[p[i]]
      BY <2>7, Zenon DEF Colours
    <3>2. [i \in DOMAIN p |-> ParseBoolFlag(p[i], <<"colour">>)] =
          [i \in DOMAIN p |-> Colours[p[i]]]
      BY <3>1, Zenon
    <3> QED
      BY <2>1, <2>2, <2>6, <3>2, Zenon DEF ReadOf
  <2>10. /\ port' = LastMeant(given', <<"port">>, UInt16s, 1)
         /\ colour' = LastMeant(given', <<"colour">>, Truths, FALSE)
    BY <2>1, <2>3, <2>8, <2>9, PortIsMeant, ColourIsMeant, Zenon
  <2>11. at' # "flags"
    BY <2>1
  <2> QED
    BY <2>10, <2>11, Zenon DEF ClientFlagsInv
<1>2. CASE UNCHANGED <<given, port, colour>> /\ at' = "flags" /\ at = "flags"
  BY <1>2 DEF ClientFlagsInv
<1>3. CASE at' = "exited"
  BY <1>3 DEF ClientFlagsInv
<1>4. CASE UNCHANGED <<given, port, colour>> /\ at \notin {"flags", "exited"} /\ at' # "flags"
  BY <1>4, Zenon DEF ClientFlagsInv
<1>5. CASE UNCHANGED <<given, port, colour, at>>
  BY <1>5, Zenon DEF ClientFlagsInv
<1>6. CASE TakeFlag \/ SkipArgument
  BY <1>2, <1>3, <1>6 DEF TakeFlag, SkipArgument
<1>7. CASE AppendSwitch \/ AppendArg
  BY <1>5, <1>7 DEF AppendSwitch, AppendArg
<1>8. CASE DeleteInstance \/ FillList \/ SetInstance
  BY <1>4, <1>8 DEF DeleteInstance, FillList, SetInstance, commandline
<1>9. CASE \E t \in Threads : Start(t) \/ Stop(t)
  BY <1>4, <1>9 DEF Start, Stop, commandline
<1>10. CASE MainEntersOnce \/ MainInitModule \/ SetDefaultExecutor \/ RestoreExecutor \/ Finish
  BY <1>4, <1>10 DEF MainEntersOnce, MainInitModule, SetDefaultExecutor, RestoreExecutor, Finish,
                     ClientAtExecutors, commandline
<1>11. CASE (\E t \in Threads : Run(t)) \/ UNCHANGED vars
  BY <1>5, <1>11 DEF Run, ReadInstance, LookUp, ThreadEntersOnce, ThreadInitModule,
                     DefaultExecutor, Add, commandline, vars
<1> QED
  BY <1>1, <1>6, <1>7, <1>8, <1>9, <1>10, <1>11 DEF Next, Main

(* The flags have the values that the command line gives them last: the     *)
(* verbosity that main reads, and the uint16 and the bool flag that the     *)
(* client reads from what is left, where arguments are missing and the last *)
(* one may be there again (cmdline_flags.cc, main.cc): for command lines of *)
(* any length and texts, and integers of any width.                         *)
THEOREM FlagsAreAsGiven == Spec => []FlagsAsGiven
<1>1. Init => WalkInv /\ PassInv /\ ClientFlagsInv
  <2>1. Init => ClientFlagsInv
    BY DEF Init, ClientFlagsInv
  <2> QED
    BY <2>1, InitWalk, InitPass
<1>2. WalkInv /\ PassInv /\ [Next]_vars => (WalkInv /\ PassInv)'
  BY NextWalk, NextPass
<1>3. VerbosityAsGiven /\ ClientFlagsInv => FlagsAsGiven
  BY Zenon DEF ClientFlagsInv, FlagsAsGiven
<1> QED
  BY <1>1, <1>2, <1>3, NextClientFlags, VerbosityIsAsGiven, PTL DEF Spec
=============================================================================
