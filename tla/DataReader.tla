----------------------------- MODULE DataReader -----------------------------
(***************************************************************************)
(* serialization::DataReader (src/kwctoolkit/serialization/data_reader.h,  *)
(* data_reader.cc) and the readers that implement it:                      *)
(*   "memory"      InMemoryDataReader (in_memory_data_reader.cc);          *)
(*   "stream"      IstreamDataReader (istream_data_reader.cc) on a string  *)
(*                 or a file stream, whose length may be known;            *)
(*   "sequential"  a reader that cannot seek, takes what it gets, and may  *)
(*                 fail, as the one of data_reader_test.cc;                *)
(*   "invalid"     InvalidDataReader.                                      *)
(* One reader over data that does not change, and a caller that makes one  *)
(* call after the other.  The loops of a call are steps of their own.      *)
(***************************************************************************)
EXTENDS Integers, Sequences

CONSTANTS
  Letters,              \* the bytes that data and patterns are made of
  MaxData,              \* bound: bytes of data
  MaxPattern,           \* bound: bytes of a pattern
  BufferSize            \* kDefaultBufferSize

ASSUME SizesAssumption ==
  /\ MaxData \in Nat /\ MaxPattern \in Nat
  /\ BufferSize \in Nat \ {0}

VARIABLES
  kind,
  data,                 \* all there is to read
  total,                \* total_length_
  status,               \* status_
  done,                 \* done_
  offset,               \* offset_
  position,             \* where the stream, or the sequential source, is
  call                  \* the call in progress, or the one that has returned

fixed == <<kind, data, total>>
reader == <<fixed, status, done, offset, position>>
vars == <<reader, call>>

Kinds == {"memory", "stream", "sequential", "invalid"}
Strings(n) == UNION {[1..k -> Letters] : k \in 0..n}
Least(a, b) == IF a < b THEN a ELSE b
Unlimited == MaxData + 1

(* find and found are those of doAppendUntil, from 1 on: the next byte of   *)
(* the pattern to be matched, and where in bytes its match begins.          *)
NoCall == [op |-> "none", active |-> FALSE, argument |-> 0, pattern |-> <<>>,
           from |-> 0, open |-> TRUE, bytes |-> <<>>, result |-> 0,
           find |-> 1, found |-> 1]

(* from and open remember what the caller saw: where the reader was, and    *)
(* whether it was not done.                                                 *)
Call(op) == [NoCall EXCEPT !.op = op, !.from = offset, !.open = ~done]

(* After undefined behaviour nothing more is said. *)
Undefined == -2
Idle == ~call.active /\ call.result # Undefined
Active(op) == call.active /\ call.op = op

-----------------------------------------------------------------------------
(* The constructors.  An empty reader whose length is known is done. *)
Init ==
  /\ kind \in Kinds
  /\ data \in Strings(MaxData)
  /\ total \in CASE kind = "memory" -> {Len(data)}
                 [] kind = "stream" -> {-1, Len(data)}
                 [] OTHER -> {-1}
  /\ status = IF kind = "invalid" THEN "error" ELSE "ok"
  /\ done = (status = "error" \/ total = 0)
  /\ offset = 0
  /\ position = 0
  /\ call = NoCall

(* doSetOffset(p): where each reader may then be.  A string stream does not *)
(* seek beyond its end, a file stream does.                                 *)
DoSetOffset(p) ==
  CASE kind = "memory" -> {Least(p, Len(data))}
    [] kind = "stream" -> IF p <= Len(data) THEN {p} ELSE {-1, p}
    [] OTHER -> {-1}

Reopens(p) == p < offset \/ offset < 0

SetOffset(p) ==
  /\ Idle
  /\ p >= 0
  /\ offset' \in DoSetOffset(p)
  /\ position' = IF kind = "stream" /\ offset' >= 0 THEN p ELSE position
  /\ status' = IF offset' < 0 THEN "error" ELSE "ok"
  /\ done' = (offset' < 0 \/ (done /\ ~Reopens(p)))
  /\ call' = [Call("seek") EXCEPT !.argument = p, !.result = offset']
  /\ UNCHANGED fixed

SetOffsetNegative ==
  /\ Idle
  /\ status' = "error"
  /\ done' = TRUE
  /\ offset' = -1
  /\ call' = [Call("seek") EXCEPT !.argument = -1, !.result = -1]
  /\ UNCHANGED <<fixed, position>>

-----------------------------------------------------------------------------
(* doReadIntoBuffer(n): how many bytes are read, is done_ set, does it      *)
(* setStatus an error?  -1 bytes are an internal error of the reader.       *)
Rest == Len(data) - IF kind = "memory" THEN offset ELSE position
Read(n, last, error) == [bytes |-> n, done |-> last, error |-> error]

(* Faulty variant: done_ is not set at the end. *)
ReadMemoryNoEnd(n) == {Read(Least(n, Rest), FALSE, FALSE)}

ReadMemory(n) == {Read(Least(n, Rest), n >= Rest, FALSE)}

(* Only reading beyond the end sets eofbit.  What the stream remembers of   *)
(* it, or of an error, the next seek clears; there is no read before it.    *)
ReadStream(n) ==
  {Read(0, FALSE, TRUE),
   Read(IF Rest < 0 THEN 0 ELSE Least(n, Rest), n > Rest, FALSE)}

ReadSequential(n) ==
  {Read(-1, FALSE, FALSE), Read(0, FALSE, TRUE)}
  \cup {Read(k, k = Rest, FALSE) : k \in Least(1, Rest)..Least(n, Rest)}

DoRead(n) ==
  CASE kind = "memory" -> ReadMemory(n)
    [] kind = "stream" -> ReadStream(n)
    [] kind = "sequential" -> ReadSequential(n)
    [] kind = "invalid" -> {Read(0, FALSE, FALSE)}

(* The reader after a call of doReadIntoBuffer. *)
Advance(read) ==
  /\ position' = IF kind = "memory" THEN position ELSE position + read.bytes
  /\ status' = IF read.error THEN "error" ELSE status
  /\ done' = (read.done \/ read.error)
Taken(n) ==
  LET start == Len(data) - Rest IN SubSeq(data, start + 1, start + n)

-----------------------------------------------------------------------------
(* readIntoBuffer and readIntoString, which read at most BufferSize bytes   *)
(* at a time.                                                               *)
BeginRead(op, max) ==
  /\ Idle
  /\ max >= 0
  /\ call' = [Call(op) EXCEPT !.active = TRUE, !.argument = max]
  /\ UNCHANGED reader

(* A negative number of bytes. *)
ReadNegative(op) ==
  /\ Idle
  /\ status' = "error"
  /\ done' = TRUE
  /\ call' = [Call(op) EXCEPT !.argument = -1]
  /\ UNCHANGED <<fixed, offset, position>>

Reading == Active("buffer") \/ Active("string")
Missing == call.argument - Len(call.bytes)
Asked == IF call.op = "string" THEN Least(BufferSize, Missing) ELSE Missing

(* Faulty variant: one read of the source, however little it gives. *)
ReadOnce ==
  /\ Reading
  /\ Missing > 0 /\ ~done
  /\ \E read \in DoRead(Asked) :
       /\ read.bytes >= 0
       /\ offset' = offset + read.bytes
       /\ Advance(read)
       /\ call' = [call EXCEPT !.bytes = @ \o Taken(read.bytes),
                               !.active = FALSE, !.result = read.bytes]
  /\ UNCHANGED fixed

ReadSome ==
  /\ Reading
  /\ Missing > 0 /\ ~done
  /\ \E read \in DoRead(Asked) :
       /\ read.bytes >= 0
       /\ offset' = offset + read.bytes
       /\ Advance(read)
       /\ call' = [call EXCEPT !.bytes = @ \o Taken(read.bytes)]
  /\ UNCHANGED fixed

(* An internal error: 0 is returned, although bytes have been read. *)
ReadFails ==
  /\ Reading
  /\ Missing > 0 /\ ~done
  /\ \E read \in DoRead(Asked) : read.bytes < 0
  /\ status' = "error"
  /\ done' = TRUE
  /\ call' = [call EXCEPT !.active = FALSE, !.result = 0]
  /\ UNCHANGED <<fixed, offset, position>>

ReadReturns ==
  /\ Reading
  /\ Missing = 0 \/ done
  /\ call' = [call EXCEPT !.active = FALSE, !.result = Len(call.bytes)]
  /\ UNCHANGED reader

-----------------------------------------------------------------------------
(* readUntil.  Its result is 1 when the pattern was found, else 0. *)
Occurs(pattern, text, i) ==
  /\ i + Len(pattern) - 1 <= Len(text)
  /\ \A k \in 1..Len(pattern) : text[i + k - 1] = pattern[k]

(* The first place where an occurrence of pattern begins, at i or later. *)
Find(pattern, text, i) ==
  CHOOSE j \in i..(Len(text) + 1) :
    /\ Occurs(pattern, text, j) \/ j = Len(text) + 1
    /\ \A k \in i..(j - 1) : ~Occurs(pattern, text, k)

Found(pattern, text, i) == \E j \in i..(Len(text) + 1) : Occurs(pattern, text, j)

(* InMemoryDataReader::doAppendUntil searches the data at once.  done_ is   *)
(* left as it is.                                                           *)
ReadUntilInMemory(pattern) ==
  /\ Idle
  /\ kind = "memory"
  /\ offset >= 0
  /\ LET found == Found(pattern, data, offset + 1)
         end == IF found THEN Find(pattern, data, offset + 1) + Len(pattern) - 1
                ELSE Len(data)
     IN /\ offset' = end
        /\ call' = [Call("until") EXCEPT
             !.pattern = pattern, !.bytes = SubSeq(data, offset + 1, end),
             !.result = IF found THEN 1 ELSE 0]
  /\ UNCHANGED <<fixed, status, done, position>>

(* After a failed seek, substr throws std::out_of_range. *)
ReadUntilThrows(pattern) ==
  /\ Idle
  /\ kind = "memory"
  /\ offset < 0
  /\ call' = [Call("until") EXCEPT !.pattern = pattern, !.result = -1]
  /\ UNCHANGED reader

(* The other readers have DataReader::doAppendUntil read byte by byte. *)
BeginUntil(pattern) ==
  /\ Idle
  /\ kind # "memory"
  /\ call' = [Call("until") EXCEPT !.active = TRUE, !.pattern = pattern]
  /\ UNCHANGED reader

(* Faulty variant: a match that fails is given up together with all that    *)
(* has been read.                                                           *)
RestartAnew(bytes) == [found |-> Len(bytes) + 1, find |-> 1]

(* The byte does not continue the match that began at call.found, but it    *)
(* may continue, or begin, one that began later.  bytes ends with it.       *)
Restart(bytes) ==
  LET later == {i \in (call.found + 1)..Len(bytes) :
                  \A k \in i..Len(bytes) : bytes[k] = call.pattern[k - i + 1]}
      first == CHOOSE i \in later : \A j \in later : i <= j
  IN IF call.found = Len(bytes) \/ later = {}
     THEN [found |-> Len(bytes) + 1, find |-> 1]
     ELSE [found |-> first, find |-> Len(bytes) - first + 2]

UntilByte ==
  /\ Active("until")
  /\ call.find <= Len(call.pattern) /\ ~done
  /\ \E read \in DoRead(1) :
       /\ read.bytes >= 0
       /\ Advance(read)
       /\ LET bytes == call.bytes \o Taken(read.bytes)
              match == \/ read.bytes = 0
                       \/ bytes[Len(bytes)] = call.pattern[call.find]
          IN call' = [call EXCEPT
               !.bytes = bytes,
               !.find = IF match THEN @ + read.bytes ELSE Restart(bytes).find,
               !.found = IF match THEN @ ELSE Restart(bytes).found]
  /\ UNCHANGED <<fixed, offset>>

(* A reader that returns -1 here has an uninitialised byte appended. *)
UntilUndefined ==
  /\ Active("until")
  /\ call.find <= Len(call.pattern) /\ ~done
  /\ \E read \in DoRead(1) : read.bytes < 0
  /\ call' = [call EXCEPT !.active = FALSE, !.result = Undefined]
  /\ UNCHANGED reader

(* Faulty variant: the bytes read are not added to the offset. *)
UntilForgets ==
  /\ Active("until")
  /\ call.find > Len(call.pattern) \/ done
  /\ call' = [call EXCEPT !.active = FALSE,
                          !.result = IF call.find > Len(call.pattern) THEN 1 ELSE 0]
  /\ UNCHANGED reader

UntilReturns ==
  /\ Active("until")
  /\ call.find > Len(call.pattern) \/ done
  /\ offset' = offset + Len(call.bytes)
  /\ call' = [call EXCEPT !.active = FALSE,
                          !.result = IF call.find > Len(call.pattern) THEN 1 ELSE 0]
  /\ UNCHANGED <<fixed, status, done, position>>

-----------------------------------------------------------------------------
Begin ==
  \/ \E p \in 0..(MaxData + 1) : SetOffset(p)
  \/ SetOffsetNegative
  \/ \E op \in {"buffer", "string"} :
       ReadNegative(op) \/ \E max \in 0..Unlimited : BeginRead(op, max)
  \/ \E pattern \in Strings(MaxPattern) :
       \/ ReadUntilInMemory(pattern) \/ ReadUntilThrows(pattern)
       \/ BeginUntil(pattern)
Step ==
  \/ ReadSome \/ ReadFails \/ ReadReturns
  \/ UntilByte \/ UntilUndefined \/ UntilReturns
Next == Begin \/ Step

Spec == Init /\ [][Next]_vars

-----------------------------------------------------------------------------
Returned(op) == ~call.active /\ call.op = op

(* Whatever is called in whatever order, and however much the source gives *)
(* at a time: what a call hands out are the bytes from where the reader    *)
(* was to where it is afterwards, none left out and none twice.            *)
BytesInOrder ==
  ~call.active /\ call.op \in {"buffer", "string", "until"} =>
    /\ call.bytes = SubSeq(data, call.from + 1, call.from + Len(call.bytes))
    /\ call.result # Undefined => offset = call.from + Len(call.bytes)

(* A read that comes back with less than was asked for, and no error, has  *)
(* read to the end: a caller need not ask again.                           *)
ShortOnlyAtEnd ==
  /\ Returned("buffer") \/ Returned("string")
  /\ call.open /\ status = "ok" /\ call.result < call.argument
  => offset >= Len(data)

(* readUntil stops right behind the first occurrence of the pattern, or    *)
(* reads all there is: DataReader's search byte by byte, which may have to *)
(* return to the middle of a match, comes to the same as std::string::find.*)
(* (A file stream may have been moved beyond its end.)                     *)
UntilStopsAtFirst ==
  /\ Returned("until") /\ call.open /\ status = "ok" /\ call.result >= 0
  /\ call.from <= Len(data)
  => LET found == Found(call.pattern, data, call.from + 1)
    IN /\ call.result = (IF found THEN 1 ELSE 0)
       /\ offset = IF found THEN Find(call.pattern, data, call.from + 1)
                                  + Len(call.pattern) - 1
                   ELSE Len(data)
=============================================================================
