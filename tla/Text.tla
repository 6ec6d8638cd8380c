-------------------------------- MODULE Text --------------------------------
(***************************************************************************)
(* The functions on strings of src/kwctoolkit/strings (string_utils.cc,    *)
(* string_split.cc, utf_string_conversion.cc), and the parsing of          *)
(* /proc/<pid>/stat that is built on them (process_internal_linux.cc).     *)
(* A string is the sequence of its characters' codes.  What may throw      *)
(* returns the set of its results, which is empty when it does.            *)
(***************************************************************************)
EXTENDS Integers, Sequences, SequencesExt, FiniteSetsExt

-----------------------------------------------------------------------------
(* IsStringASCII.  A string's buffer is aligned, so that there is nothing   *)
(* to do before the first word; of each whole word only the first character *)
(* is looked at, then all of the rest.                                      *)
ASCII == 0..127

(* Faulty variant: the rest is not looked at. *)
LookedAtWords(length, perWord) ==
  {i \in 1..(length - (length % perWord)) : (i - 1) % perWord = 0}

LookedAt(length, perWord) ==
  LET words == length - (length % perWord)
  IN {i \in 1..length : i > words \/ (i - 1) % perWord = 0}

IsStringASCII(str, perWord) ==
  \A i \in LookedAt(Len(str), perWord) : str[i] \in ASCII

(* Characters in a machine word of 8 bytes. *)
WidePerWord == 2
BytesPerWord == 8

-----------------------------------------------------------------------------
Upper == 65..90
Lower == 97..122
ToLowerASCII(str) == [i \in DOMAIN str |-> IF str[i] \in Upper THEN str[i] + 32 ELSE str[i]]
ToUpperASCII(str) == [i \in DOMAIN str |-> IF str[i] \in Lower THEN str[i] - 32 ELSE str[i]]

StartsWith(str, search_for, case_sensitive) ==
  /\ Len(search_for) <= Len(str)
  /\ LET source == SubSeq(str, 1, Len(search_for))
     IN IF case_sensitive THEN source = search_for
        ELSE ToLowerASCII(source) = ToLowerASCII(search_for)

EndsWith(value, suffix) ==
  /\ Len(suffix) <= Len(value)
  /\ \A i \in 1..Len(suffix) :
       suffix[Len(suffix) - i + 1] = value[Len(value) - i + 1]

(* TrimString.  Where all is to be trimmed, find_first_not_of returns npos, *)
(* and substr throws; find_last_not_of + 1 is 0, and nothing is left.       *)
Kept(input, trim_chars) == {i \in DOMAIN input : input[i] \notin trim_chars}

TrimString(input, trim_chars, leading, trailing) ==
  LET kept == Kept(input, trim_chars)
      begin == IF leading THEN Min(kept) ELSE 1
      end == IF ~trailing THEN Len(input) ELSE IF kept = {} THEN 0 ELSE Max(kept)
  IN IF input = <<>> THEN {<<>>}
     ELSE IF leading /\ kept = {} THEN {}
     ELSE {SubSeq(input, begin, end)}

Whitespace == {9, 10, 11, 12, 13, 32}

-----------------------------------------------------------------------------
(* SplitString: the pieces between the separators, and what is kept of them.*)
Separators(input, separator) ==
  SetToSortSeq({i \in DOMAIN input : input[i] \in separator}, <)

Pieces(input, separator) ==
  LET ends == Separators(input, separator) \o <<Len(input) + 1>>
  IN [k \in 1..Len(ends) |->
        SubSeq(input, IF k = 1 THEN 1 ELSE ends[k - 1] + 1, ends[k] - 1)]

SplitString(input, separator, trim, nonempty) ==
  LET pieces == Pieces(input, separator)
      Piece(k) == IF trim THEN TrimString(pieces[k], Whitespace, TRUE, TRUE)
                  ELSE {pieces[k]}
      NotEmpty(piece) == piece # <<>>
  IN IF input = <<>> THEN {<<>>}
     ELSE IF \E k \in DOMAIN pieces : Piece(k) = {} THEN {}
     ELSE LET all == [k \in DOMAIN pieces |-> CHOOSE piece \in Piece(k) : TRUE]
          IN {IF nonempty THEN SelectSeq(all, NotEmpty) ELSE all}

-----------------------------------------------------------------------------
(* ParseProcStats: "pid (name) data ..." becomes the pid, with its space,   *)
(* the name, and the ")" that is all substr(close_parens_idx, 2) leaves of  *)
(* the rest.                                                                *)
Space == 32
Open == 40
Close == 41
PlacesOf(pair, str) == {i \in 1..(Len(str) - 1) : SubSeq(str, i, i + 1) = pair}

NameEnds(stats_data) == Max(PlacesOf(<<Close, Space>>, stats_data))

ParseProcStats(stats_data) ==
  LET opens == PlacesOf(<<Space, Open>>, stats_data)
      closes == PlacesOf(<<Close, Space>>, stats_data)
      open == Min(opens) + 1
      close == NameEnds(stats_data)
      others == SplitString(SubSeq(stats_data, close, close + 1), {Space}, TRUE, TRUE)
  IN IF opens = {} \/ closes = {} THEN <<>>
     ELSE IF open - 1 > close THEN <<>>
     ELSE <<SubSeq(stats_data, 1, open - 1), SubSeq(stats_data, open + 1, close - 1)>>
          \o (CHOOSE fields \in others : TRUE)

(* ReadProcStatsAndGetFieldAsInt, of a field that is a number, as the text   *)
(* of that number; it is 0 where the field is missing.                      *)
MissingField == <<48>>
GetField(stats_data, field_num) ==
  LET proc_stats == ParseProcStats(stats_data)
  IN IF Len(proc_stats) <= field_num THEN MissingField ELSE proc_stats[field_num + 1]

-----------------------------------------------------------------------------
(* ParseProcMemInfo (system_memory_info_linux.cc): "name: number kB" lines, *)
(* of which the last one with a name counts.  A name is one character here, *)
(* and of the fields two: total, which is reset, and one of all the others, *)
(* which keep what they were.                                               *)
NewLine == 10
Digits == 48..57
TotalName == 84
OtherName == 79
AToI(token) == IF token[1] \in Digits THEN token[1] - 48 ELSE 0

(* The tokens of each line; no line throws, as what separates its tokens is *)
(* what would be trimmed.                                                   *)
Tokens(line) == SplitString(line, Whitespace, TRUE, TRUE)
Entries(data) ==
  {[k \in DOMAIN lines |-> CHOOSE tokens \in Tokens(lines[k]) : TRUE] :
     lines \in SplitString(data, {NewLine}, FALSE, TRUE)}

Names(entries, name) ==
  {k \in DOMAIN entries : Len(entries[k]) > 1 /\ entries[k][1] = <<name>>}
Target(entries, name, before) ==
  IF Names(entries, name) = {} THEN before
  ELSE AToI(entries[Max(Names(entries, name))][2])
MemInfo(entries, mem_info) ==
  [ok |-> Target(entries, TotalName, 0) > 0,
   total |-> Target(entries, TotalName, 0),
   other |-> Target(entries, OtherName, mem_info.other)]

ParseProcMemInfo(data, mem_info) ==
  {MemInfo(entries, mem_info) : entries \in Entries(data)}

-----------------------------------------------------------------------------
(* utf_string_conversion.cc.  WriteUnicodeCharacter appends the UTF-8 of a  *)
(* code point; of a wide string each character is a code point.             *)
WriteUnicodeCharacter(c) ==
  LET Trail(shift) == 128 + ((c \div 2^shift) % 64)
  IN IF c < 128 THEN <<c>>
     ELSE IF c < 2^11 THEN <<192 + c \div 2^6, Trail(0)>>
     ELSE IF c < 2^16 THEN <<224 + c \div 2^12, Trail(6), Trail(0)>>
     ELSE <<240 + c \div 2^18, Trail(12), Trail(6), Trail(0)>>

IsValidCodepoint(c) == c \in 0..55295 \/ c \in 57344..1114111
Replacement == 65533

(* CBU8_NEXT, of the copy of ICU in src/third_party: how many bytes the     *)
(* next character takes, and its code point, or -1 and the bytes that are   *)
(* skipped as one error.                                                    *)
Trails == 128..191
LengthAt(byte) ==
  CASE byte < 128 -> 1
    [] byte \in 194..223 -> 2
    [] byte \in 224..239 -> 3
    [] byte \in 240..244 -> 4
    [] OTHER -> 0
Second(byte) ==
  CASE byte = 224 -> 160..191
    [] byte = 237 -> 128..159
    [] byte = 240 -> 144..191
    [] byte = 244 -> 128..143
    [] OTHER -> Trails
Matching(bytes, i) ==
  LET Follows(k) == /\ i + k - 1 <= Len(bytes)
                    /\ bytes[i + k - 1] \in IF k = 2 THEN Second(bytes[i]) ELSE Trails
  IN Max({k \in 1..Max({1, LengthAt(bytes[i])}) : \A j \in 2..k : Follows(j)})
Next8(bytes, i) ==
  LET n == LengthAt(bytes[i])
      Bits(k) == bytes[i + k] % 64
  IN [size |-> Matching(bytes, i),
      code |-> IF n # Matching(bytes, i) THEN -1
               ELSE CASE n = 1 -> bytes[i]
                      [] n = 2 -> (bytes[i] % 32) * 64 + Bits(1)
                      [] n = 3 -> (bytes[i] % 16) * 4096 + Bits(1) * 64 + Bits(2)
                      [] n = 4 -> (bytes[i] % 8) * 262144 + Bits(1) * 4096
                                  + Bits(2) * 64 + Bits(3)]

(* The shortcut for ASCII takes each character for one of the other kind:   *)
(* a wide one is cut to a byte, and a byte, a signed char, is widened.  The *)
(* overload of UTF8ToWide that takes a pointer widens before it asks        *)
(* whether the string is ASCII, so that perWord is WidePerWord there.       *)
SignExtended(byte) == IF byte < 128 THEN byte ELSE byte - 256
ConvertUTF8(bytes) ==
  LET from[i \in 1..(Len(bytes) + 1)] ==
        IF i > Len(bytes) THEN [ok |-> TRUE, output |-> <<>>]
        ELSE LET next == Next8(bytes, i)
                 rest == from[i + next.size]
                 valid == IsValidCodepoint(next.code)
             IN [ok |-> rest.ok /\ valid,
                 output |-> <<IF valid THEN next.code ELSE Replacement>> \o rest.output]
  IN from[1]
UTF8ToWide(bytes, perWord) ==
  IF IsStringASCII(bytes, perWord)
  THEN [ok |-> TRUE, output |-> [i \in DOMAIN bytes |-> SignExtended(bytes[i])]]
  ELSE ConvertUTF8(bytes)

WideToUTF8(wide) ==
  IF IsStringASCII(wide, WidePerWord)
  THEN [ok |-> TRUE, output |-> [i \in DOMAIN wide |-> wide[i] % 256]]
  ELSE [ok |-> \A i \in DOMAIN wide : IsValidCodepoint(wide[i]),
        output |-> FlattenSeq([i \in DOMAIN wide |-> WriteUnicodeCharacter(
                     IF IsValidCodepoint(wide[i]) THEN wide[i] ELSE Replacement)])]

-----------------------------------------------------------------------------
(* What the functions are to compute. *)

IsBlank(str, blanks) == str # <<>> /\ \A i \in DOMAIN str : str[i] \in blanks
Without(str, blanks) == LET Stays(c) == c \notin blanks IN SelectSeq(str, Stays)

(* A trimmed string is what is between the first and the last character     *)
(* that is not trimmed.  A blank string is trimmed to nothing from the end, *)
(* and cannot be trimmed from the beginning: that throws.                   *)
TrimExact(input, blanks) ==
  LET Trimmed == TrimString(input, blanks, TRUE, TRUE)
  IN /\ (Trimmed = {}) <=> IsBlank(input, blanks)
     /\ \A trimmed \in Trimmed :
          \E i \in 0..Len(input), j \in 0..Len(input) :
            /\ input = SubSeq(input, 1, i) \o trimmed \o SubSeq(input, j + 1, Len(input))
            /\ \A k \in (1..i) \cup ((j + 1)..Len(input)) : input[k] \in blanks
            /\ trimmed # <<>> => {trimmed[1], Last(trimmed)} \cap blanks = {}
     /\ TrimString(input, blanks, FALSE, TRUE) # {}

(* All pieces and the separators between them are the input again.  Where   *)
(* pieces are trimmed, one of blanks throws; else nothing but blanks,       *)
(* separators and empty pieces is left out.                                 *)
SplitExact(input, separator) ==
  LET Whole == SplitString(input, separator, FALSE, FALSE)
      Trimmed == SplitString(input, separator, TRUE, TRUE)
      Marked == [i \in DOMAIN input |-> IF input[i] \in separator THEN 0 ELSE input[i]]
  IN /\ \A pieces \in Whole :
          FlattenSeq([k \in DOMAIN pieces |->
                        IF k = 1 THEN pieces[k] ELSE <<0>> \o pieces[k]]) = Marked
     /\ (Trimmed = {}) <=> \E pieces \in Whole : \E k \in DOMAIN pieces :
                             IsBlank(pieces[k], Whitespace)
     /\ \A pieces \in Trimmed :
          /\ Without(FlattenSeq(pieces), Whitespace)
             = Without(input, Whitespace \cup separator)
          /\ \A k \in DOMAIN pieces :
               pieces[k] # <<>> /\ Without(pieces[k], separator) = pieces[k]

(* The text of a stat file: the pid, the name in parentheses, the state and *)
(* the parent's pid, of which the others differ in nothing that matters.    *)
StatText(pid, name, state, ppid) ==
  pid \o <<Space, Open>> \o name \o <<Close, Space>> \o state \o <<Space>> \o ppid

(* The pid and the name of a process come out whole, whatever parentheses   *)
(* and spaces the name has.                                                 *)
StatExact(pid, name, state, ppid) ==
  LET proc_stats == ParseProcStats(StatText(pid, name, state, ppid))
  IN /\ Len(proc_stats) >= 2
     /\ proc_stats[1] = pid \o <<Space>>
     /\ proc_stats[2] = name

(* So do the fields behind it, each at its place in ProcStatsFields.        *)
PS_STATE == 2
PS_PPID == 3
FieldsExact(pid, name, state, ppid) ==
  LET stats_data == StatText(pid, name, state, ppid)
  IN GetField(stats_data, PS_STATE) = state /\ GetField(stats_data, PS_PPID) = ppid

(* "There is no guarantee of the concrete ordering for all entries": of two *)
(* lines the order does not matter, unless they name the same field; what   *)
(* none of them names is 0, if it is the total, and else is what it was.  A *)
(* line of blanks does not throw, as a piece of blanks elsewhere does.      *)
MemInfoExact(line, other_line, mem_info) ==
  LET Named(l) == {name \in {TotalName, OtherName} :
                     \E entries \in Entries(l) : Names(entries, name) # {}}
      Parsed(l1, l2) == ParseProcMemInfo(l1 \o <<NewLine>> \o l2, mem_info)
  IN /\ Tokens(line) # {} /\ Parsed(line, other_line) # {}
     /\ Named(line) \cap Named(other_line) = {} =>
          Parsed(line, other_line) = Parsed(other_line, line)
     /\ \A parsed \in Parsed(line, other_line) :
          /\ TotalName \notin Named(line) \cup Named(other_line) =>
               parsed.total = 0 /\ ~parsed.ok
          /\ OtherName \notin Named(line) \cup Named(other_line) =>
               parsed.other = mem_info.other

(* What a string begins or ends with is what is left of another one.  In    *)
(* another case it begins with the same letters, whatever their case.       *)
AffixExact(str, affix) ==
  /\ StartsWith(str, affix, TRUE)
       <=> \E n \in 0..Len(str) : str = affix \o SubSeq(str, n + 1, Len(str))
  /\ EndsWith(str, affix) <=> \E n \in 0..Len(str) : str = SubSeq(str, 1, n) \o affix
  /\ StartsWith(str, affix, FALSE)
       <=> StartsWith(ToUpperASCII(str), ToUpperASCII(affix), TRUE)

(* The shortcut is wrong about strings with a whole word only. *)
AllASCII(str) == \A i \in DOMAIN str : str[i] \in ASCII
Misjudged(str, perWord) == IsStringASCII(str, perWord) /\ ~AllASCII(str)

(* Every wide string is converted to UTF-8 and back: a code point that is   *)
(* none becomes a replacement, and is reported.                             *)
WideExact(wide) ==
  LET utf8 == WideToUTF8(wide)
      back == UTF8ToWide(utf8.output, BytesPerWord)
  IN ~Misjudged(wide, WidePerWord) =>
       /\ utf8.ok = \A i \in DOMAIN wide : IsValidCodepoint(wide[i])
       /\ Misjudged(utf8.output, BytesPerWord)
          \/ /\ back.ok
             /\ back.output = [i \in DOMAIN wide |->
                  IF IsValidCodepoint(wide[i]) THEN wide[i] ELSE Replacement]

(* Bytes that are converted without a complaint are the UTF-8 of the        *)
(* result; else there is a replacement in it.                               *)
UTF8Exact(bytes, perWord) ==
  LET wide == UTF8ToWide(bytes, perWord)
      back == WideToUTF8(wide.output)
  IN /\ (Len(bytes) < perWord) => ~Misjudged(bytes, perWord)
     /\ ~Misjudged(bytes, perWord) =>
          IF wide.ok THEN back.output = bytes \/ Misjudged(wide.output, WidePerWord)
          ELSE \E i \in DOMAIN wide.output : wide.output[i] = Replacement
=============================================================================
