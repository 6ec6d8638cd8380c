------------------------------- MODULE Library -------------------------------
(***************************************************************************)
(* The parts of the library that share no state with the others, each on   *)
(* its own: a program that uses Results (Result), Address::fromString      *)
(* (Address), ReadPNG and WritePNG (Image), and the functions on strings   *)
(* and numbers (Text, Base64, EditDistance, CheckedInteger), which are     *)
(* asked about inputs that grow one letter after the other.                *)
(***************************************************************************)
EXTENDS Address, Image, Sequences

CONSTANTS
  Questions,            \* the parts that are functions
  Letters,              \* Letters[q]: of what their inputs are made
  MaxOne, MaxTwo        \* MaxOne[q], MaxTwo[q]: and how long they get

VARIABLES
  part,                 \* which part is looked at
  one, two              \* the inputs of a function

Strings == INSTANCE Text
Codec == INSTANCE Base64
Edits == INSTANCE EditDistance
Integer == INSTANCE CheckedInteger

Parts == {"results", "fromString", "images"} \cup Questions
inputs == <<one, two>>

(* The characters of a std::string are looked at as unsigned ones. *)
ASSUME LettersAssumption ==
  "bytes" \in Questions => Letters["bytes"] \subseteq Codec!Bytes

NoResults == Init /\ variant = "void" /\ text = "neither" /\ at = "tries IPv4"
NoImages ==
  /\ ImageInit
  /\ call = "ReadPNG" /\ keep_alpha
  /\ picture = CHOOSE p \in Pictures : TRUE

LibraryInit ==
  /\ part \in Parts
  /\ one = <<>> /\ two = <<>>
  /\ CASE part = "results" -> Init /\ text = "neither" /\ at = "tries IPv4" /\ NoImages
       [] part = "fromString" -> AddressInit /\ NoImages
       [] part = "images" -> ImageInit /\ NoResults
       [] OTHER -> NoResults /\ NoImages

Ask ==
  /\ part \in Questions
  /\ \E letter \in Letters[part] :
       \/ Len(one) < MaxOne[part] /\ two = <<>> /\ one' = Append(one, letter) /\ two' = two
       \/ Len(two) < MaxTwo[part] /\ two' = Append(two, letter) /\ one' = one
  /\ UNCHANGED <<part, vars, program, imageVars>>

LibraryNext ==
  \/ part = "results" /\ Next /\ UNCHANGED <<part, inputs, program, imageVars>>
  \/ part = "fromString" /\ AddressNext /\ UNCHANGED <<part, inputs, imageVars>>
  \/ part = "images" /\ ImageNext /\ UNCHANGED <<part, inputs, vars, program>>
  \/ Ask

LibrarySpec ==
  LibraryInit /\ [][LibraryNext]_<<part, inputs, vars, program, imageVars>>

-----------------------------------------------------------------------------
(* The functions on strings do what is asked of them at the ends of their   *)
(* inputs too, where the code throws, stops early or takes a shortcut; what *)
(* that is, their modules say.                                              *)
TextExact ==
  CASE part = "strings" -> /\ Strings!TrimExact(one, {Strings!Space})
                           /\ Strings!SplitExact(one, {44})
                           /\ Strings!AffixExact(one, two)
    [] part = "processes" -> Strings!StatExact(<<50>>, one, <<83>>, <<49>>)
    [] part = "memory" -> Strings!MemInfoExact(one, two, [total |-> 7, other |-> 7])
    [] part = "wide" -> Strings!WideExact(one)
    [] part = "UTF-8" -> /\ Strings!UTF8Exact(one, Strings!WidePerWord)
                         /\ Strings!UTF8Exact(one, Strings!BytesPerWord)
    [] OTHER -> TRUE

(* So do the functions on numbers: the bits of bytes come out of Base64     *)
(* again, the edit distance is the least, the assertions of a checked       *)
(* integer hold exactly when its result fits, and two addresses compare as  *)
(* they are, with the exceptions their modules say.                         *)
ValuesExact ==
  CASE part = "bytes" -> Codec!EncodesBits(one) /\ Codec!RoundTrips(one)
    [] part = "distance" -> Edits!DistanceIsLeast(one, two)
    [] part = "integers" ->
         \A T \in {Integer!Signed(3), Integer!Unsigned(7)} :
           {one, two} \subseteq {<<n>> : n \in Integer!Values(T)} =>
             Integer!ChecksExact(T, one[1], two[1])
    [] part = "addresses" -> ComparedExactly(Letters[part])
    [] OTHER -> TRUE

(* "split the rest" of /proc/<pid>/stat, behind the name: the fields that   *)
(* ProcStatsFields numbers are found there.                                 *)
StatFieldsRead ==
  part = "processes" => Strings!FieldsExact(<<50>>, one, <<83>>, <<49>>)

(* The ASCII shortcut of the conversions is taken for strings of ASCII      *)
(* characters only: "compare the values of CPU word size", and "process the *)
(* remaining bytes" after that, is to look at all of them.                  *)
AsciiMeansAscii ==
  part = "wide" => ~Strings!Misjudged(one, Strings!WidePerWord)
=============================================================================
