------------------------------- MODULE Startup -------------------------------
(***************************************************************************)
(* How a program starts: the flags of app/main.cc, then a CommandLine, the *)
(* FeatureList (system/feature_list.cc) filled from it, the default        *)
(* Executor (system/executor.cc), and Threads (system/thread.cc) that use  *)
(* both until they are joined.  main.cc ends after the flags; what follows *)
(* is a client's program, as these need it to be: it sets the features up  *)
(* before it starts threads (no header asks for it, but g_feature_list_    *)
(* instance is read without a lock), and deletes the executor that it owns *)
(* when they have been stopped (executor.h: "Caller retains ownership").   *)
(*                                                                         *)
(* KWC_ASSERT is compiled out, as in the default build: its condition is   *)
(* evaluated and the result ignored.                                       *)
(***************************************************************************)
EXTENDS CommandLine

CONSTANTS
  Threads, Executors,     \* the Thread objects; the client's own executors
  CommandLines,           \* the arguments that the program may be given
  Switches, Arguments,    \* what the client may append to them
  Features,               \* the names of features,
  EnabledByDefault,       \* and those that are enabled by default
  MaxArgs                 \* the client appends to no more than MaxArgs

ASSUME CommandLinesAssumption ==
  \A given \in CommandLines :
    given \in Seq(Range(given)) /\ \A i \in DOMAIN given : IsText(given[i])
ASSUME AppendedAssumption == \A text \in Switches \union Arguments : IsText(text)
ASSUME FeaturesAssumption == EnabledByDefault \subseteq Features

Program == Word(<<"main">>)
INFO == 3                       \* the default log level
Inline == "inline"              \* global_inline_executor
NoExecutor == "nullptr"

(* An executor is an object, and the once_flag tells threads apart.        *)
ASSUME ExecutorsAssumption == NoExecutor \notin Executors
ASSUME ThreadsAssumption == Threads \intersect {"no", "main", "done"} = {}

VARIABLES
  given, appended,       \* the arguments after the program, then appendSwitch's, appendArg's
  at,                    \* where main is
  argc, argv, idx,       \* ParseCmdLineFlags' variables
  verbosity,             \* FLAGS_verbosity
  port, colour,          \* a uint16 and a bool flag of the client
  cl,                    \* its CommandLine
  instance, building,    \* g_feature_list_instance; a list not yet published
  told, refused,         \* how much was appended when initializeInstance was
                         \* last called (-1: never), and whether it has thrown
  module_init,           \* the once_flag: "no", who is at it, or "done"
  default_executor, own, \* the default; the executor the client has made,
  restored, deleted      \* put back, and deleted
VARIABLES
  thread_,               \* each Thread's thread_
  run,                   \* where the thread that it started is
  seen, answer, using    \* what that thread has read

commandline == <<given, appended, argc, argv, idx, verbosity, port, colour, cl>>
features == <<instance, building, told, refused>>
executors == <<module_init, default_executor, own, restored, deleted>>
threads == <<thread_, run, seen, answer, using>>
vars == <<commandline, at, features, executors, threads>>

NoList == [overrides |-> <<>>, initialized |-> FALSE, exists |-> FALSE]

Init ==
  /\ given \in CommandLines /\ appended = <<>>
  /\ at = "flags"
  /\ argc = Len(given) + 1 /\ argv = <<Program>> \o given /\ idx = 1
  /\ verbosity = INFO /\ port = 1 /\ colour = FALSE
  /\ cl = NewCommandLine(Program)
  /\ instance = NoList /\ building = NoList /\ told = -1 /\ refused = FALSE
  /\ module_init = "no" /\ default_executor = NoExecutor
  /\ own = NoExecutor /\ restored = FALSE /\ deleted = {}
  /\ thread_ = [t \in Threads |-> "none"]
  /\ run = [t \in Threads |-> "none"]
  /\ seen = [t \in Threads |-> NoList]
  /\ answer = [t \in Threads |-> {}]
  /\ using = [t \in Threads |-> NoExecutor]

-----------------------------------------------------------------------------
(* main.cc *)

(* Faulty variant: the index goes on over the argument that has moved there. *)
TakeFlagSkips ==
  /\ at = "flags" /\ idx < argc
  /\ \E v \in ParseInt32Flag(argv[idx + 1], <<"v">>) : verbosity' = v
  /\ argv' = [i \in DOMAIN argv |-> IF idx < i /\ i < argc THEN argv[i + 1] ELSE argv[i]]
  /\ argc' = argc - 1 /\ idx' = idx + 1
  /\ UNCHANGED <<given, appended, at, port, colour, cl, features, executors, threads>>

(* An argument that sets a flag is taken out of argv, the others move up   *)
(* and the last one is there twice: main's own argc stays as it was.       *)
TakeFlag ==
  /\ at = "flags" /\ idx < argc
  /\ \E v \in ParseInt32Flag(argv[idx + 1], <<"v">>) : verbosity' = v
  /\ argv' = [i \in DOMAIN argv |-> IF idx < i /\ i < argc THEN argv[i + 1] ELSE argv[i]]
  /\ argc' = argc - 1
  /\ UNCHANGED <<given, appended, at, idx, port, colour, cl, features, executors, threads>>

SkipArgument ==
  /\ at = "flags" /\ idx < argc
  /\ ParseInt32Flag(argv[idx + 1], <<"v">>) = {}
  /\ IF IsFlag(argv[idx + 1], <<"help">>)
       THEN at' = "exited" /\ UNCHANGED idx
       ELSE idx' = idx + 1 /\ UNCHANGED at
  /\ UNCHANGED <<given, appended, argc, argv, verbosity, port, colour, cl, features,
                 executors, threads>>

(* The client reads its own flags, and makes a CommandLine.                *)
LastParsed(results, default) ==
  FoldLeft(LAMBDA v, parsed : IF parsed = {} THEN v ELSE CHOOSE w \in parsed : TRUE,
           default, results)

MakeCommandLine ==
  /\ at = "flags" /\ idx >= argc
  /\ LET texts == Tail(argv)
     IN /\ port' = LastParsed([i \in DOMAIN texts |-> ParseUInt16Flag(texts[i], <<"port">>)],
                              port)
        /\ colour' = LastParsed([i \in DOMAIN texts |-> ParseBoolFlag(texts[i], <<"colour">>)],
                                colour)
  /\ IF \E i \in DOMAIN argv : TrimThrows(argv[i])
       THEN at' = "terminated" /\ UNCHANGED cl
       ELSE at' = "client" /\ cl' = initFromArgv(argv)
  /\ UNCHANGED <<given, appended, argc, argv, idx, verbosity, features, executors, threads>>

(* A switch is appended by its name, with dashes or without.               *)
AppendSwitch ==
  /\ at = "client" /\ Len(given) + Len(appended) < MaxArgs
  /\ \E s \in Switches :
       /\ cl' = appendSwitch(cl, s.dashes, s.name, s.value)
       /\ appended' = Append(appended, [switch |-> TRUE, text |-> s])
  /\ UNCHANGED <<given, at, argc, argv, idx, verbosity, port, colour, features,
                 executors, threads>>

AppendArg ==
  /\ at = "client" /\ Len(given) + Len(appended) < MaxArgs
  /\ \E a \in Arguments :
       /\ cl' = appendArg(cl, a)
       /\ appended' = Append(appended, [switch |-> FALSE, text |-> a])
  /\ UNCHANGED <<given, at, argc, argv, idx, verbosity, port, colour, features,
                 executors, threads>>

-----------------------------------------------------------------------------
(* feature_list.cc *)

Pieces(value) ==
  IF value = <<>> THEN <<>>
  ELSE FoldLeft(LAMBDA pieces, s : IF s = "," THEN Append(pieces, <<>>)
                                   ELSE [pieces EXCEPT ![Len(pieces)] = Append(@, s)],
                << <<>> >>, value)

SplitThrows(value) == <<" ">> \in Range(Pieces(value))

SplitFeatureListString(value) ==
  LET Trimmed(piece) ==
        LET kept == {i \in DOMAIN piece : piece[i] # " "}
        IN IF kept = {} THEN <<>> ELSE SubSeq(piece, Min(kept), Max(kept))
  IN {Trimmed(piece) : piece \in Range(Pieces(value))} \ { <<>> }

(* Faulty variant: what is enabled is inserted first.                      *)
initializeEnabledFirst(enabled, disabled) ==
  LET on == SplitFeatureListString(enabled)
      off == SplitFeatureListString(disabled)
  IN [exists |-> TRUE, initialized |-> FALSE,
      overrides |-> [n \in on \union off |->
                       IF n \in on THEN "OVERRIDE_ENABLE_FEATURE"
                       ELSE "OVERRIDE_DISABLE_FEATURE"]]

(* What is in the map already is not inserted again.                       *)
initializeFromCommandLine(enabled, disabled) ==
  LET on == SplitFeatureListString(enabled)
      off == SplitFeatureListString(disabled)
  IN [exists |-> TRUE, initialized |-> FALSE,
      overrides |-> [n \in on \union off |->
                       IF n \in off THEN "OVERRIDE_DISABLE_FEATURE"
                       ELSE "OVERRIDE_ENABLE_FEATURE"]]

isEnabled(list, feature) ==
  IF list.exists /\ feature \in DOMAIN list.overrides
    THEN list.overrides[feature] = "OVERRIDE_ENABLE_FEATURE"
    ELSE feature \in EnabledByDefault

(* initializeInstance: the old instance goes first.  It is called once, and *)
(* again when the client has appended something since;                     *)
DeleteInstance ==
  /\ at = "client" /\ told < Len(appended)
  /\ instance' = NoList /\ refused' = FALSE /\ told' = Len(appended)
  /\ at' = "initialize"
  /\ UNCHANGED <<commandline, building, executors, threads>>

(* then a list is made, unless splitting throws; the client goes on then,  *)
FillList ==
  /\ at = "initialize"
  /\ LET enabled == getSwitchValue(cl, <<"enable_features">>)
         disabled == getSwitchValue(cl, <<"disable_features">>)
     IN IF SplitThrows(disabled) \/ SplitThrows(enabled)
          THEN at' = "client" /\ refused' = TRUE /\ UNCHANGED building
          ELSE /\ at' = "publish" /\ UNCHANGED refused
               /\ building' = initializeFromCommandLine(enabled, disabled)
  /\ UNCHANGED <<commandline, instance, told, executors, threads>>

(* and setInstance, with finalizeInitialization, publishes it.             *)
SetInstance ==
  /\ at = "publish"
  /\ instance' = [building EXCEPT !.initialized = TRUE]
  /\ building' = NoList
  /\ at' = "client"
  /\ UNCHANGED <<commandline, told, refused, executors, threads>>

-----------------------------------------------------------------------------
(* thread.cc, on POSIX *)

MainIsOut == module_init # "main"  \* main is not inside call_once

(* glibc stores the reference before the thread exists, also when it then  *)
(* cannot make one.                                                        *)
Start(t) ==
  /\ at = "client" \/ at = "running"
  /\ told >= 0 /\ MainIsOut
  /\ thread_[t] = "none" /\ run[t] = "none"
  /\ at' = "running"
  /\ \/ thread_' = [thread_ EXCEPT ![t] = "thread"] /\ run' = [run EXCEPT ![t] = "feature"]
     \/ thread_' = [thread_ EXCEPT ![t] = "no thread"] /\ UNCHANGED run
  /\ UNCHANGED <<commandline, features, executors, seen, answer, using>>

(* Faulty variant: the thread is left to itself.                           *)
StopDetaches(t) ==
  /\ at = "running" \/ at = "stopping"
  /\ MainIsOut
  /\ thread_[t] # "none"
  /\ at' = IF thread_[t] = "thread" THEN "stopping" ELSE "undefined"
  /\ thread_' = [thread_ EXCEPT ![t] = "none"]
  /\ UNCHANGED <<commandline, features, executors, run, seen, answer, using>>

(* Joining a thread that never was is undefined.                           *)
Stop(t) ==
  /\ at = "running" \/ at = "stopping"
  /\ MainIsOut
  /\ thread_[t] # "none"
  /\ thread_[t] = "thread" => run[t] = "ended"
  /\ at' = IF thread_[t] = "thread" THEN "stopping" ELSE "undefined"
  /\ thread_' = [thread_ EXCEPT ![t] = "none"]
  /\ UNCHANGED <<commandline, features, executors, run, seen, answer, using>>

(* The function that a thread runs asks for a feature: isEnabled reads the *)
(* pointer, then the list behind it.                                       *)
ReadInstance(t) ==
  /\ run[t] = "feature"
  /\ seen' = [seen EXCEPT ![t] = instance]
  /\ run' = [run EXCEPT ![t] = "lookup"]
  /\ UNCHANGED <<commandline, at, features, executors, thread_, answer, using>>

LookUp(t) ==
  /\ run[t] = "lookup"
  /\ answer' = [answer EXCEPT ![t] = {f \in Features : isEnabled(seen[t], f)}]
  /\ run' = [run EXCEPT ![t] = "executor"]
  /\ UNCHANGED <<commandline, at, features, executors, thread_, seen, using>>

-----------------------------------------------------------------------------
(* executor.cc *)

(* Who comes to call_once first runs InitModule; the others wait for it.   *)
EnterOnce(who) == module_init = "no" /\ module_init' = who

(* Faulty variant: the once_flag is never done.                            *)
InitModuleForgets(who) ==
  /\ module_init = who /\ module_init' = who
  /\ default_executor' = Inline

InitModule(who) ==
  /\ module_init = who /\ module_init' = "done"
  /\ default_executor' = Inline

(* A thread calls defaultExecutor, and adds a callback to what it gets.    *)
ThreadEntersOnce(t) ==
  /\ run[t] = "executor" /\ EnterOnce(t)
  /\ UNCHANGED <<commandline, at, features, default_executor, own, restored, deleted, threads>>

ThreadInitModule(t) ==
  /\ run[t] = "executor" /\ InitModule(t)
  /\ UNCHANGED <<commandline, at, features, own, restored, deleted, threads>>

DefaultExecutor(t) ==
  /\ run[t] = "executor" /\ module_init = "done"
  /\ using' = [using EXCEPT ![t] = default_executor]
  /\ run' = [run EXCEPT ![t] = "add"]
  /\ UNCHANGED <<commandline, at, features, executors, thread_, seen, answer>>

(* An inline executor runs the callback before add returns.                *)
Add(t) ==
  /\ run[t] = "add"
  /\ run' = [run EXCEPT ![t] = "ended"]
  /\ UNCHANGED <<commandline, at, features, executors, thread_, seen, answer, using>>

(* The client sets a default of its own, at any time while there are       *)
(* threads; stops them, puts the singleton back and deletes its executor.  *)
ClientAtExecutors == at = "running" /\ own = NoExecutor

MainEntersOnce ==
  /\ ClientAtExecutors /\ EnterOnce("main")
  /\ UNCHANGED <<commandline, at, features, default_executor, own, restored, deleted, threads>>

MainInitModule ==
  /\ at = "running" /\ InitModule("main")
  /\ UNCHANGED <<commandline, at, features, own, restored, deleted, threads>>

SetDefaultExecutor ==
  /\ ClientAtExecutors /\ module_init = "done"
  /\ \E e \in Executors : own' = e /\ default_executor' = e
  /\ UNCHANGED <<commandline, at, features, module_init, restored, deleted, threads>>

RestoreExecutor ==
  /\ at = "stopping" /\ \A t \in Threads : thread_[t] = "none"
  /\ own # NoExecutor /\ ~restored
  /\ restored' = TRUE /\ default_executor' = Inline
  /\ UNCHANGED <<commandline, at, features, module_init, own, deleted, threads>>

Finish ==
  /\ at = "stopping" /\ \A t \in Threads : thread_[t] = "none"
  /\ own # NoExecutor => restored
  /\ deleted' = {own} \ {NoExecutor}
  /\ at' = "ended"
  /\ UNCHANGED <<commandline, features, module_init, default_executor, own, restored, threads>>

-----------------------------------------------------------------------------
Main ==
  \/ TakeFlag \/ SkipArgument \/ MakeCommandLine \/ AppendSwitch \/ AppendArg
  \/ DeleteInstance \/ FillList \/ SetInstance
  \/ \E t \in Threads : Start(t) \/ Stop(t)
  \/ MainEntersOnce \/ MainInitModule \/ SetDefaultExecutor \/ RestoreExecutor \/ Finish

Run(t) ==
  ReadInstance(t) \/ LookUp(t) \/ ThreadEntersOnce(t) \/ ThreadInitModule(t)
  \/ DefaultExecutor(t) \/ Add(t)

Next == Main \/ \E t \in Threads : Run(t)
Fairness == WF_vars(Main) /\ \A t \in Threads : WF_vars(Run(t))
Spec == Init /\ [][Next]_vars /\ Fairness

-----------------------------------------------------------------------------
Over == {"exited", "terminated", "undefined", "ended"}

(* The numbers that a flag's text may mean.                                *)
Numbers(text) ==
  CASE ~text.equals -> {}
    [] text.equals /\ text.value = <<>> -> {0}
    [] OTHER -> {Numeral[s] : s \in {s \in DOMAIN Numeral :
                                       text.value \in {<<s>>, <<" ", s>>}}}
Int32s(text) == Numbers(text) \intersect (-(2 ^ (IntBits - 1)) .. 2 ^ (IntBits - 1) - 1)
UInt16s(text) ==
  {m \in 1 .. 2 ^ IntBits - 1 : {m, m - 2 ^ LongBits} \intersect Numbers(text) # {}}
Truths(text) == {text.value = <<>> \/ Head(text.value) \notin Falsehoods}

(* The last argument that is the flag and means something decides.         *)
LastMeant(args, flag, Meant(_), default) ==
  LET texts == {args[i] : i \in {Max({0} \union
                  {i \in DOMAIN args : /\ ~args[i].blanks /\ args[i].dashes = 2
                                       /\ args[i].name = flag /\ Meant(args[i]) # {}})} \ {0}}
  IN CHOOSE v \in IF texts = {} THEN {default} ELSE UNION {Meant(text) : text \in texts} : TRUE

(* The flags have the values that the command line gives them last, and    *)
(* those before the first --help count when there is one, although         *)
(* ParseCmdLineFlags takes arguments out of the array it walks over, and   *)
(* leaves others there twice.  (Zero is no uint16 to the parser, and       *)
(* a negative number that wraps to one is.)                                *)
VerbosityAsGiven ==
  LET helps == {i \in DOMAIN given : IsFlag(given[i], <<"help">>)}
  IN at # "flags" =>
       /\ (at = "exited") <=> (helps # {})
       /\ verbosity = LastMeant(IF helps = {} THEN given ELSE SubSeq(given, 1, Min(helps)),
                                <<"v">>, Int32s, INFO)
FlagsAsGiven ==
  /\ VerbosityAsGiven
  /\ at \notin {"flags", "exited"} =>
       /\ port = LastMeant(given, <<"port">>, UInt16s, 1)
       /\ colour = LastMeant(given, <<"colour">>, Truths, FALSE)

(* The elements of a sequence that are in a set, in their order.           *)
Selected(seq, chosen) ==
  FoldLeft(LAMBDA kept, x : IF x \in chosen THEN Append(kept, x) ELSE kept, <<>>, seq)

(* What CommandLine gets: the arguments that were not taken, and the last  *)
(* one again for each that was.                                            *)
Passed ==
  Selected(given, {text \in Range(given) : ParseInt32Flag(text, <<"v">>) = {}})
  \o [i \in 1..Len(given) + 1 - argc |-> Last(given)]
Ends(args) == Min({Len(args) + 1} \union {i \in DOMAIN args : args[i] = kSwitchTerminator})
Trimmed(args) == [i \in DOMAIN args |-> TrimString(args[i])]

(* The switches there are: those before the first "--", then those that    *)
(* have been appended.                                                     *)
SwitchesTold(args, more) ==
  Selected(SubSeq(args, 1, Ends(args) - 1), {text \in Range(args) : isSwitch(text)})
  \o [i \in DOMAIN more |-> more[i].text]
ArgumentsTold(args, more) ==
  Selected(SubSeq(args, 1, Ends(args) - 1), {text \in Range(args) : ~isSwitch(text)})
  \o SubSeq(args, Ends(args), Len(args)) \o [i \in DOMAIN more |-> more[i].text]

AppendedSwitches(more) == Selected(more, {a \in Range(more) : a.switch})
AppendedArguments(more) == Selected(more, {a \in Range(more) : ~a.switch})

ValueTold(switches, name) ==
  LET named == {i \in DOMAIN switches : switches[i].name = name}
  IN IF named = {} THEN <<>> ELSE switches[Max(named)].value

(* No switch without a name, none of the arguments before the terminator   *)
(* like a switch, and none of them all with spaces that would be trimmed.  *)
AsWritten(s) == Switch(IF s.dashes = 0 THEN 2 ELSE s.dashes, s.name, s.value)
IsTrimmed(text) == TrimString(text) = text
Unambiguous(switches, arguments) ==
  /\ \A i \in DOMAIN switches :
       switches[i].name # <<>> /\ IsTrimmed(AsWritten(switches[i]))
  /\ \A i \in 1..Ends(arguments) - 1 : ~isSwitch(arguments[i])
  /\ \A i \in DOMAIN arguments : IsTrimmed(arguments[i])

(* A CommandLine has each switch with the value that it got last, and the  *)
(* other arguments in their order, however switches, arguments and         *)
(* appended ones are mixed; and one made from what it prints is the same.  *)
CommandLineExact ==
  LET args == Trimmed(Passed)
      switches == SwitchesTold(args, AppendedSwitches(appended))
      arguments == ArgumentsTold(args, AppendedArguments(appended))
  IN at \notin {"flags", "exited", "terminated"} =>
       /\ DOMAIN cl.switches = {switches[i].name : i \in DOMAIN switches}
       /\ \A name \in DOMAIN cl.switches : cl.switches[name] = ValueTold(switches, name)
       /\ getArgs(cl) = RemoveFirst(arguments, kSwitchTerminator)
       /\ Unambiguous(switches, arguments)
            => initFromArgv(<<Program>> \o getArguments(cl)) = cl

(* Every answer that a thread gets is the one the command line asks for,   *)
(* as it was when initializeInstance was last called, where disabling wins;*)
(* the default one if that call threw.                                     *)
FeaturesAsGiven ==
  LET switches == SwitchesTold(Trimmed(Passed),
                               AppendedSwitches(SubSeq(appended, 1, told)))
      Named(switch) == SplitFeatureListString(ValueTold(switches, switch))
      off == IF refused THEN {} ELSE Named(<<"disable_features">>)
      on == IF refused THEN {} ELSE Named(<<"enable_features">>)
  IN \A t \in Threads : run[t] \in {"executor", "add", "ended"} =>
       answer[t] = {f \in Features : f \notin off /\ (f \in on \/ f \in EnabledByDefault)}

(* What a thread has read is alive while it uses it: the list of features, *)
(* published only when it was complete, and the executor, which its owner  *)
(* deletes when the threads have been joined; and a default that was set   *)
(* stays until it is put back.                                             *)
ThreadsUseLive ==
  /\ \A t \in Threads :
       /\ run[t] = "lookup" => seen[t] = instance
       /\ run[t] = "lookup" /\ seen[t].exists => seen[t].initialized
       /\ run[t] = "add" => using[t] \notin deleted \union {NoExecutor}
  /\ own # NoExecutor /\ ~restored => default_executor = own
  /\ deleted # {} => \A t \in Threads : run[t] \in {"none", "ended"}

(* The program comes to an end: the walk over the flags stops although the *)
(* index goes back, call_once lets the others pass, and every thread that  *)
(* was started can be joined.                                              *)
ProgramEnds == <>(at \in Over)
=============================================================================
