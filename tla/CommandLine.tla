----------------------------- MODULE CommandLine -----------------------------
(***************************************************************************)
(* A CommandLine object (system/cmdline.cc) and the parsers of flags       *)
(* (base/cmdline_flags.cc), as operators.                                  *)
(*                                                                         *)
(* The text of one argument is a record: how many dashes it begins with,   *)
(* the name up to the first "=", whether there is a "=", and the value     *)
(* after it; `blanks' says that it begins with spaces.  Names and values   *)
(* are sequences of symbols: a run of spaces is the symbol " ", a number   *)
(* written in decimal is one symbol of Numeral's domain.                   *)
(***************************************************************************)
EXTENDS Integers, SequencesExt

CONSTANTS
  Numeral,           \* the numbers that symbols stand for
  IntBits, LongBits  \* the widths of int32 and uint16, of int64 and uint64

ASSUME WidthsAssumption ==
  IntBits \in Nat \ {0} /\ LongBits \in Nat /\ LongBits > IntBits
ASSUME NumeralAssumption ==
  " " \notin DOMAIN Numeral /\ \A s \in DOMAIN Numeral : Numeral[s] \in Int

(* Arithmetic, which proofs have no other way to know: powers of two double *)
(* from one exponent to the next, and a larger exponent's is not smaller.   *)
ASSUME PowersAssumption ==
  /\ 2 ^ (IntBits - 1) \in Nat \ {0} /\ 2 ^ IntBits = 2 * 2 ^ (IntBits - 1)
  /\ 2 ^ (LongBits - 1) \in Nat /\ 2 ^ (LongBits - 1) >= 2 ^ IntBits
  /\ 2 ^ LongBits = 2 * 2 ^ (LongBits - 1)

Text(dashes, name, equals, value) ==
  [dashes |-> dashes, name |-> name, equals |-> equals, value |-> value,
   blanks |-> FALSE]
Word(name) == Text(0, name, FALSE, <<>>)

(* Two dashes at most are a prefix.  A text of spaces only has no name.     *)
IsText(text) ==
  /\ text \in [dashes : 0..2, name : Seq(Range(text.name)), equals : BOOLEAN,
              value : Seq(Range(text.value)), blanks : BOOLEAN]
  /\ text.equals \/ text.value = <<>>
  /\ text.dashes = 0 /\ text.name # <<>> => Head(text.name) # " "

kSwitchTerminator == Text(2, <<>>, FALSE, <<>>)

(* TrimString finds no first character that is not a space in a text of    *)
(* spaces only, and substr throws.  The spaces that a text ends with are   *)
(* its value's, or its name's when there is no "=".                        *)
TrimThrows(text) == text.blanks /\ text = [Word(<<>>) EXCEPT !.blanks = TRUE]
TrimEnd(seq) == SubSeq(seq, 1, Max({0} \union {i \in DOMAIN seq : seq[i] # " "}))
TrimString(text) ==
  [text EXCEPT !.blanks = FALSE, !.value = TrimEnd(@),
               !.name = IF text.equals THEN @ ELSE TrimEnd(@)]

getSwitchPrefixLength(text) == IF text.blanks THEN 0 ELSE text.dashes

isSwitch(text) ==
  getSwitchPrefixLength(text) > 0 /\ (text.name # <<>> \/ text.equals)

(* What a switch is written as.                                            *)
Switch(dashes, name, value) == Text(dashes, name, value # <<>>, value)

-----------------------------------------------------------------------------
NewCommandLine(program) == [argv |-> <<program>>, switches |-> <<>>, start_args |-> 1]

(* Faulty variant: a switch that is there keeps its first value.           *)
appendSwitchFirst(cl, dashes, name, value) ==
  [argv |-> InsertAt(cl.argv, cl.start_args + 1,
                     Switch(IF dashes = 0 THEN 2 ELSE dashes, name, value)),
   switches |-> cl.switches @@ (name :> value),
   start_args |-> cl.start_args + 1]

appendSwitch(cl, dashes, name, value) ==
  [argv |-> InsertAt(cl.argv, cl.start_args + 1,
                     Switch(IF dashes = 0 THEN 2 ELSE dashes, name, value)),
   switches |-> [n \in DOMAIN cl.switches \union {name} |->
                   IF n = name THEN value ELSE cl.switches[n]],
   start_args |-> cl.start_args + 1]

appendArg(cl, text) == [cl EXCEPT !.argv = Append(@, text)]

(* initFromArgv, for arguments none of which makes TrimString throw: the   *)
(* arguments are looked at one after the other, for switches up to the      *)
(* terminator.                                                              *)
ParseArgument(so_far, text) ==
  LET arg == TrimString(text)
      switches == so_far.switches /\ arg # kSwitchTerminator
  IN [switches |-> switches,
      cl |-> IF switches /\ isSwitch(arg)
               THEN appendSwitch(so_far.cl, arg.dashes, arg.name, arg.value)
               ELSE appendArg(so_far.cl, arg)]

initFromArgv(argv) ==
  FoldLeft(ParseArgument, [switches |-> TRUE, cl |-> NewCommandLine(Head(argv))],
           Tail(argv)).cl

getSwitchValue(cl, name) ==
  IF name \in DOMAIN cl.switches THEN cl.switches[name] ELSE <<>>

getArgs(cl) ==
  RemoveFirst(SubSeq(cl.argv, cl.start_args + 1, Len(cl.argv)), kSwitchTerminator)

(* The words of getArgumentsString.                                        *)
getArguments(cl) ==
  LET ends == {i \in 2..Len(cl.argv) : cl.argv[i] = kSwitchTerminator}
      Printed(i) == IF isSwitch(cl.argv[i]) /\ ~\E end \in ends : end <= i
                      THEN Switch(cl.argv[i].dashes, cl.argv[i].name, cl.argv[i].value)
                      ELSE cl.argv[i]
  IN [i \in 1..Len(cl.argv) - 1 |-> Printed(i + 1)]

-----------------------------------------------------------------------------
(* A parser returns the set of what it has parsed: empty when it fails.    *)

(* A name that goes on after the flag has no "=" where one must be.        *)
ParseFlagValue(text, flag, def_optional) ==
  IF /\ ~text.blanks /\ text.dashes = 2 /\ text.name = flag
     /\ text.equals \/ def_optional
    THEN {text.value}
    ELSE {}

IsFlag(text, flag) == ParseFlagValue(text, flag, TRUE) # {}

(* strtol and strtoull: what was read, and whether that was all there was. *)
Digits(value) == IF value # <<>> /\ Head(value) = " " THEN Tail(value) ELSE value
Consumed(value) == value = <<>> \/ \E s \in DOMAIN Numeral : Digits(value) = <<s>>
Written(value) ==
  IF \E s \in DOMAIN Numeral : Digits(value) = <<s>> THEN Numeral[Head(Digits(value))] ELSE 0

LongMin == -(2 ^ (LongBits - 1))
LongMax == 2 ^ (LongBits - 1) - 1
ULongMax == 2 ^ LongBits - 1

strtol(n) == CASE n < LongMin -> LongMin [] n > LongMax -> LongMax [] OTHER -> n
strtoull(n) == IF n > ULongMax \/ n < -ULongMax THEN ULongMax ELSE n % 2 ^ LongBits

AsInt32(n) == ((n + 2 ^ (IntBits - 1)) % 2 ^ IntBits) - 2 ^ (IntBits - 1)
AsUInt16(n) == n % 2 ^ IntBits

ParseInt32(value) ==
  {long_val \in {strtol(Written(value))} :
     Consumed(value) /\ long_val \notin {LongMin, LongMax} /\ AsInt32(long_val) = long_val}

ParseUInt16(value) ==
  {ulong_val \in {strtoull(Written(value))} :
     Consumed(value) /\ ulong_val \notin {0, ULongMax} /\ AsUInt16(ulong_val) = ulong_val}

ParseInt32Flag(text, flag) ==
  UNION {ParseInt32(value) : value \in ParseFlagValue(text, flag, FALSE)}

ParseUInt16Flag(text, flag) ==
  UNION {ParseUInt16(value) : value \in ParseFlagValue(text, flag, FALSE)}

(* A value counts as true unless it begins with one of Falsehoods.         *)
Falsehoods == {"0", "f", "F"}
ParseBoolFlag(text, flag) ==
  {value = <<>> \/ Head(value) \notin Falsehoods :
     value \in ParseFlagValue(text, flag, TRUE)}
=============================================================================
