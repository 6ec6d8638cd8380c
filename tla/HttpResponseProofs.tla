------------------------- MODULE HttpResponseProofs -------------------------
(***************************************************************************)
(* Readers and the body of a response, for data, patterns, chunks and      *)
(* buffers of any length.                                                  *)
(*                                                                         *)
(* First what DataReader states of a reader on its own: a call hands out   *)
(* the bytes from where the reader was to where it is then, a short read   *)
(* has come to the end, and the search byte by byte of doAppendUntil stops *)
(* where std::string::find does.  The inductive invariant has three parts: *)
(* where the reader is (Shape), what the call in progress, or the last     *)
(* one, has handed out (CallSoFar), and what the search has ruled out      *)
(* (SearchSoFar).                                                          *)
(*                                                                         *)
(* Then what HttpResponse states of the writer that a body is written to,  *)
(* of the copy of a reader into it, and of getBody; the body reader is     *)
(* such a reader, so what was proved of one holds of it too.               *)
(***************************************************************************)
EXTENDS HttpResponse, SequenceTheorems, WellFoundedInduction, TLAPS

(* What the data are made of: letters, or what a DataWriter has stored. *)
Bytes == Letters \cup Nat

Ops == {"none", "seek", "buffer", "string", "until"}

TypeOK ==
  /\ kind \in Kinds
  /\ data \in Seq(Bytes) /\ Len(data) <= MaxData
  /\ status \in {"ok", "error"}
  /\ done \in BOOLEAN
  /\ offset \in Nat \cup {-1}
  /\ position \in Nat

CallType ==
  [op : Ops, active : BOOLEAN, argument : Int, pattern : Seq(Letters),
   from : Nat \cup {-1}, open : BOOLEAN, bytes : Seq(Bytes), result : Int,
   find : Int, found : Int]

(* Where the call has come to. *)
Here == call.from + Len(call.bytes)

(* A search adds what it has read to the offset at its end only; where the  *)
(* stream, or the source, is, shows in position.                            *)
Shape ==
  /\ kind = "invalid" => done
  /\ kind = "memory" => offset <= Len(data) /\ ~Active("until")
  /\ kind = "sequential" => position <= Len(data)
  /\ offset = -1 => done
  /\ kind \in {"stream", "sequential"} /\ offset >= 0 /\ call.result # Undefined =>
       position = IF call.active THEN Here ELSE offset

CallSoFar ==
  /\ call.active => call.op \in {"buffer", "string", "until"} /\ call.result = 0
  /\ call.open => call.from >= 0
  /\ call.active /\ ~call.open => done
  /\ call.bytes # <<>> => call.from >= 0 /\ Here <= Len(data)
  /\ ~call.open /\ (call.active \/ call.op # "until") => call.bytes = <<>>
  /\ call.bytes = SubSeq(data, call.from + 1, Here)
  /\ Active("until") => offset = call.from
  /\ Reading => offset = Here /\ Len(call.bytes) <= call.argument
  /\ call.active /\ call.open /\ done /\ status = "ok" => Here >= Len(data)
  /\ Returned("buffer") \/ Returned("string") =>
       /\ offset = Here
       /\ status = "ok" => call.result = Len(call.bytes)
  /\ Returned("until") /\ call.result # Undefined => offset = Here

(* Before the match in progress, which begins at found, no occurrence of    *)
(* pattern begins in bytes.                                                 *)
Ruled(pattern, bytes, i) ==
  \E k \in 1..Len(pattern) :
    i + k - 1 <= Len(bytes) /\ bytes[i + k - 1] # pattern[k]

Searched(pattern, bytes, found, find) ==
  /\ found \in 1..(Len(bytes) + 1)
  /\ find = Len(bytes) - found + 2
  /\ find <= Len(pattern) + 1
  /\ \A k \in 1..(find - 1) : bytes[found + k - 1] = pattern[k]
  /\ \A i \in 1..(found - 1) : Ruled(pattern, bytes, i)

SearchSoFar ==
  Active("until") => Searched(call.pattern, call.bytes, call.found, call.find)

ReaderInv ==
  /\ TypeOK /\ call \in CallType
  /\ Shape /\ CallSoFar /\ SearchSoFar
  /\ ShortOnlyAtEnd /\ UntilStopsAtFirst
-----------------------------------------------------------------------------
(* Facts about numbers, sequences and searches.                             *)
LEMMA SmallestOf ==
  ASSUME NEW S \in SUBSET Nat, S # {}
  PROVE  \E n \in S : \A m \in S : n <= m
<1>1. PICK n \in S : \A m \in S : ~ (<<m, n>> \in OpToRel(<, Nat))
  BY WFMin, NatLessThanWellFounded, Zenon
<1>2. \A m \in S : ~ (m < n)
  BY <1>1, Zenon DEF OpToRel
<1> QED
  BY <1>2

(* The first occurrence: it is one, and there is none before it.            *)
LEMMA FindIs ==
  ASSUME NEW pattern, NEW text \in Seq(Bytes), NEW i \in Nat,
         Found(pattern, text, i)
  PROVE  LET first == Find(pattern, text, i)
         IN /\ first \in i..(Len(text) + 1)
            /\ Occurs(pattern, text, first)
            /\ \A k \in i..(first - 1) : ~Occurs(pattern, text, k)
<1> DEFINE S == {j \in i..(Len(text) + 1) : Occurs(pattern, text, j)}
           IsFirst(j) == /\ Occurs(pattern, text, j) \/ j = Len(text) + 1
                         /\ \A k \in i..(j - 1) : ~Occurs(pattern, text, k)
<1>1. S \in SUBSET Nat /\ S # {}
  BY DEF Found
<1>2. PICK n \in S : \A m \in S : n <= m
  BY <1>1, SmallestOf
<1>3. Len(text) \in Nat /\ n \in Nat
  BY <1>1, <1>2
<1>4. n \in i..(Len(text) + 1) /\ IsFirst(n)
  <2>1. ASSUME NEW k \in i..(n - 1), Occurs(pattern, text, k) PROVE FALSE
    BY <2>1, <1>2, <1>3
  <2> QED
    BY <2>1, <1>2
<1>5. Find(pattern, text, i) \in i..(Len(text) + 1) /\ IsFirst(Find(pattern, text, i))
  BY <1>4, Zenon DEF Find
<1> HIDE DEF IsFirst
<1> DEFINE first == Find(pattern, text, i)
<1>6. first \in i..(Len(text) + 1) /\ IsFirst(first)
  BY <1>5
<1> HIDE DEF first
<1>7. first <= n
  <2>1. CASE first > n
    <3>1. n \in i..(first - 1)
      BY <2>1, <1>3, <1>4, <1>6
    <3> QED
      BY <3>1, <1>2, <1>6 DEF IsFirst
  <2> QED
    BY <2>1, <1>3, <1>6
<1>8. Occurs(pattern, text, first)
  <2>1. CASE Occurs(pattern, text, first)
    BY <2>1
  <2>2. CASE first = Len(text) + 1
    <3>1. first = n
      BY <2>2, <1>2, <1>3, <1>7
    <3> QED
      BY <3>1, <1>2
  <2> QED
    BY <2>1, <2>2, <1>6 DEF IsFirst
<1> QED
  BY <1>6, <1>8 DEF IsFirst, first

(* An occurrence with none before it is the first one. *)
LEMMA FirstIsFind ==
  ASSUME NEW pattern, NEW text \in Seq(Bytes), NEW i \in Nat,
         NEW j \in i..(Len(text) + 1), Occurs(pattern, text, j),
         \A k \in i..(j - 1) : ~Occurs(pattern, text, k)
  PROVE  Found(pattern, text, i) /\ Find(pattern, text, i) = j
<1> DEFINE first == Find(pattern, text, i)
<1>1. Found(pattern, text, i)
  BY DEF Found
<1>2. /\ first \in i..(Len(text) + 1)
      /\ Occurs(pattern, text, first)
      /\ \A k \in i..(first - 1) : ~Occurs(pattern, text, k)
  BY <1>1, FindIs, Zenon
<1> HIDE DEF first
<1>3. ~(first < j)
  BY <1>2
<1>4. ~(j < first)
  BY <1>2
<1> QED
  BY <1>1, <1>2, <1>3, <1>4 DEF first

(* Chunks of data: an empty one; how long one is; the next one continues it. *)
LEMMA EmptyChunk ==
  ASSUME NEW s, NEW m \in Int
  PROVE  SubSeq(s, m + 1, m) = <<>>
  BY SubSeqEmpty

LEMMA ChunkIs ==
  ASSUME NEW s \in Seq(Bytes), NEW m \in Nat, NEW n \in Nat, m + n <= Len(s)
  PROVE  /\ SubSeq(s, m + 1, m + n) \in Seq(Bytes)
         /\ Len(SubSeq(s, m + 1, m + n)) = n
         /\ \A i \in 1..n : SubSeq(s, m + 1, m + n)[i] = s[m + i]
<1>1. \A i \in (m + 1)..(m + n) : s[i] \in Bytes
  BY ElementOfSeq
<1>2. /\ SubSeq(s, m + 1, m + n) \in Seq(Bytes)
      /\ Len(SubSeq(s, m + 1, m + n))
           = IF m + 1 <= m + n THEN (m + n) - (m + 1) + 1 ELSE 0
      /\ \A i \in 1..((m + n) - (m + 1) + 1) :
           SubSeq(s, m + 1, m + n)[i] = s[(m + 1) + i - 1]
  BY <1>1, SubSeqProperties
<1> QED
  BY <1>2

LEMMA ChunkContinues ==
  ASSUME NEW s \in Seq(Bytes), NEW m \in Nat, NEW n \in Nat, NEW more \in Nat,
         m + n + more <= Len(s)
  PROVE  SubSeq(s, m + 1, m + n) \o SubSeq(s, m + n + 1, m + n + more)
           = SubSeq(s, m + 1, m + n + more)
<1>1. /\ m + 1 \in 1..(Len(s) + 1)
      /\ m + n \in ((m + 1) - 1)..Len(s)
      /\ m + n + more \in (m + n)..Len(s)
  OBVIOUS
<1> QED
  BY <1>1, ConcatAdjacentSubSeq

LEMMA ChunkExtended ==
  ASSUME NEW s \in Seq(Bytes), NEW m \in Nat, NEW chunk \in Seq(Bytes),
         NEW more \in Nat, NEW longer,
         chunk = SubSeq(s, m + 1, m + Len(chunk)),
         chunk # <<>> => m + Len(chunk) <= Len(s),
         more > 0 => m + Len(chunk) + more <= Len(s),
         longer = chunk \o SubSeq(s, m + Len(chunk) + 1, m + Len(chunk) + more)
  PROVE  /\ longer \in Seq(Bytes)
         /\ Len(longer) = Len(chunk) + more
         /\ \A i \in 1..Len(chunk) : longer[i] = chunk[i]
         /\ longer = SubSeq(s, m + 1, m + Len(longer))
         /\ longer # <<>> => m + Len(longer) <= Len(s)
<1> DEFINE next == SubSeq(s, m + Len(chunk) + 1, m + Len(chunk) + more)
<1>1. longer = chunk \o next /\ Len(chunk) \in Nat /\ Len(s) \in Nat
  OBVIOUS
<1>2. CASE more = 0
  <2>1. next = <<>>
    BY <1>1, <1>2, EmptyChunk
  <2>2. chunk \o <<>> = chunk
    BY ConcatEmptySeq
  <2>3. longer = chunk
    BY <1>1, <2>1, <2>2
  <2> QED
    BY <1>2, <2>3
<1>3. CASE more > 0
  <2>1. next \in Seq(Bytes) /\ Len(next) = more
    BY <1>1, <1>3, ChunkIs
  <2>2. longer = SubSeq(s, m + 1, m + Len(chunk) + more)
    BY <1>1, <1>3, ChunkContinues
  <2> HIDE DEF next
  <2>3. /\ chunk \o next \in Seq(Bytes)
        /\ Len(chunk \o next) = Len(chunk) + Len(next)
        /\ \A i \in 1..(Len(chunk) + Len(next)) :
             (chunk \o next)[i] = IF i <= Len(chunk) THEN chunk[i]
                                  ELSE next[i - Len(chunk)]
    BY <2>1, ConcatProperties, Zenon
  <2> QED
    BY <1>1, <1>3, <2>1, <2>2, <2>3
<1> QED
  BY <1>2, <1>3

-----------------------------------------------------------------------------
(* The parts of a call. *)
LEMMA CallFields ==
  ASSUME call \in CallType
  PROVE  /\ call.op \in Ops /\ call.active \in BOOLEAN /\ call.argument \in Int
         /\ call.pattern \in Seq(Letters) /\ call.from \in Nat \cup {-1}
         /\ call.open \in BOOLEAN /\ call.bytes \in Seq(Bytes)
         /\ Len(call.bytes) \in Nat
         /\ call.result \in Int /\ call.find \in Int /\ call.found \in Int
<1> USE DEF CallType
<1>1. call.pattern \in Seq(Letters) /\ call.bytes \in Seq(Bytes)
  OBVIOUS
<1> QED
  BY <1>1

(* What doReadIntoBuffer reads continues what the call has handed out, and  *)
(* it says that it is done only at the end.                                 *)
LEMMA ReadsNext ==
  ASSUME ReaderInv, call.active, ~done,
         NEW n \in Nat \ {0}, NEW read \in DoRead(n), read.bytes >= 0
  PROVE  /\ kind \in {"memory", "stream", "sequential"}
         /\ read.bytes \in 0..n
         /\ Len(data) - Rest = Here /\ Here \in Nat /\ call.from \in Nat
         /\ read.bytes > 0 \/ kind # "stream" => Here + read.bytes <= Len(data)
         /\ read.bytes = 0 => read.done \/ read.error
         /\ read.done => Here + read.bytes >= Len(data)
<1> USE SizesAssumption
<1>1. /\ kind \in Kinds /\ kind # "invalid"
      /\ offset \in Nat /\ position \in Nat /\ Len(data) \in Nat
  BY DEF ReaderInv, TypeOK, Shape
<1>2. call.open /\ call.result = 0
  BY DEF ReaderInv, CallSoFar
<1>3. call.from \in Nat /\ Len(call.bytes) \in Nat
  BY <1>2, CallFields DEF ReaderInv, CallSoFar
<1>4. Here \in Nat /\ Rest = Len(data) - Here
  <2>1. CASE kind = "memory"
    <3>1. Reading
      BY <2>1 DEF ReaderInv, Shape, CallSoFar, Reading, Active
    <3>2. offset = Here
      BY <3>1 DEF ReaderInv, CallSoFar
    <3> QED
      BY <1>1, <2>1, <3>2 DEF Rest
  <2>2. CASE kind # "memory"
    <3>1. position = Here
      BY <1>1, <1>2, <2>2 DEF ReaderInv, Shape, Undefined, Kinds
    <3> QED
      BY <1>1, <2>2, <3>1 DEF Rest
  <2> QED
    BY <2>1, <2>2
<1>5. Rest \in Int /\ (kind \in {"memory", "sequential"} => Rest >= 0)
  <2>1. kind = "memory" => Rest >= 0
    BY <1>1 DEF ReaderInv, Shape, Rest
  <2>2. kind = "sequential" => Rest >= 0
    BY <1>1 DEF ReaderInv, Shape, Rest
  <2> QED
    BY <2>1, <2>2, <1>1, <1>4
<1> HIDE DEF ReaderInv
<1> DEFINE Outcome ==
      /\ read.bytes \in 0..n
      /\ read.bytes > 0 \/ kind # "stream" => read.bytes <= Rest
      /\ read.bytes = 0 => read.done \/ read.error
      /\ read.done => read.bytes >= Rest
<1> SUFFICES Outcome
  BY <1>1, <1>3, <1>4 DEF Kinds
<1>6. CASE kind = "memory"
  <2> DEFINE last == n >= Rest
  <2>1. read = Read(Least(n, Rest), last, FALSE)
    BY <1>6 DEF DoRead, ReadMemory
  <2>2. last \in BOOLEAN /\ (last <=> n >= Rest)
    OBVIOUS
  <2> HIDE DEF last
  <2>3. read.bytes = Least(n, Rest) /\ read.done = last /\ read.error = FALSE
    BY <2>1, Zenon DEF Read
  <2> QED
    BY <1>5, <1>6, <2>2, <2>3 DEF Least
<1>7. CASE kind = "stream"
  <2> DEFINE most == IF Rest < 0 THEN 0 ELSE Least(n, Rest)
             last == n > Rest
  <2>1. read = Read(0, FALSE, TRUE) \/ read = Read(most, last, FALSE)
    BY <1>7 DEF DoRead, ReadStream
  <2>2. last \in BOOLEAN /\ (last <=> n > Rest)
    OBVIOUS
  <2>3. most = IF Rest < 0 THEN 0 ELSE Least(n, Rest)
    OBVIOUS
  <2> HIDE DEF last, most
  <2>4. CASE read = Read(0, FALSE, TRUE)
    <3>1. read.bytes = 0 /\ read.done = FALSE /\ read.error = TRUE
      BY <2>4, Zenon DEF Read
    <3> QED
      BY <1>5, <1>7, <3>1
  <2>5. CASE read = Read(most, last, FALSE)
    <3>1. read.bytes = most /\ read.done = last /\ read.error = FALSE
      BY <2>5, Zenon DEF Read
    <3> QED
      BY <1>5, <1>7, <2>2, <2>3, <3>1 DEF Least
  <2> QED
    BY <2>1, <2>4, <2>5
<1>8. CASE kind = "sequential"
  <2>1. read # Read(-1, FALSE, FALSE)
    <3>1. Read(-1, FALSE, FALSE).bytes = -1
      BY DEF Read
    <3> QED
      BY <3>1 DEF Read
  <2>2. CASE read = Read(0, FALSE, TRUE)
    <3>1. read.bytes = 0 /\ read.done = FALSE /\ read.error = TRUE
      BY <2>2, Zenon DEF Read
    <3> QED
      BY <1>5, <1>8, <3>1
  <2>3. CASE \E k \in Least(1, Rest)..Least(n, Rest) : read = Read(k, k = Rest, FALSE)
    <3>1. PICK k \in Least(1, Rest)..Least(n, Rest) : read = Read(k, k = Rest, FALSE)
      BY <2>3
    <3> DEFINE last == k = Rest
    <3>2. read = Read(k, last, FALSE) /\ last \in BOOLEAN /\ (last <=> k = Rest)
      BY <3>1
    <3> HIDE DEF last
    <3>3. read.bytes = k /\ read.done = last /\ read.error = FALSE
      BY <3>2, Zenon DEF Read
    <3>4. k \in 0..n /\ k <= Rest /\ (k = 0 => Rest = 0)
      BY <1>5, <1>8 DEF Least
    <3> QED
      BY <1>5, <3>2, <3>3, <3>4
  <2> QED
    BY <1>8, <2>1, <2>2, <2>3 DEF DoRead, ReadSequential
<1> QED
  BY <1>1, <1>6, <1>7, <1>8 DEF Kinds

LEMMA TakesNext ==
  ASSUME ReaderInv, call.active, ~done,
         NEW n \in Nat \ {0}, NEW read \in DoRead(n), read.bytes >= 0,
         NEW bytes, bytes = call.bytes \o Taken(read.bytes)
  PROVE  /\ bytes \in Seq(Bytes)
         /\ Len(bytes) = Len(call.bytes) + read.bytes
         /\ \A i \in 1..Len(call.bytes) : bytes[i] = call.bytes[i]
         /\ bytes = SubSeq(data, call.from + 1, call.from + Len(bytes))
         /\ bytes # <<>> => call.from + Len(bytes) <= Len(data)
<1>1. /\ data \in Seq(Bytes) /\ call.bytes \in Seq(Bytes)
      /\ call.bytes = SubSeq(data, call.from + 1, call.from + Len(call.bytes))
      /\ call.bytes # <<>> => call.from + Len(call.bytes) <= Len(data)
  BY CallFields DEF ReaderInv, TypeOK, CallSoFar, Here
<1>2. /\ call.from \in Nat /\ read.bytes \in Nat
      /\ Len(data) - Rest = call.from + Len(call.bytes)
      /\ read.bytes > 0 => call.from + Len(call.bytes) + read.bytes <= Len(data)
  BY ReadsNext DEF Here
<1>3. bytes = call.bytes \o SubSeq(data, call.from + Len(call.bytes) + 1,
                                   call.from + Len(call.bytes) + read.bytes)
  BY <1>2 DEF Taken
<1> QED
  BY <1>1, <1>2, <1>3, ChunkExtended

-----------------------------------------------------------------------------
LEMMA InitReaderInv == Init => ReaderInv
<1> SUFFICES ASSUME Init PROVE ReaderInv
  OBVIOUS
<1> USE SizesAssumption
<1>1. data \in Seq(Bytes) /\ Len(data) <= MaxData /\ Len(data) \in Nat
  <2>1. PICK n \in 0..MaxData : data \in [1..n -> Letters]
    BY DEF Init, Strings
  <2>2. data \in Seq(Bytes) /\ Len(data) = n
    BY <2>1 DEF Bytes
  <2> QED
    BY <2>1, <2>2
<1>2. TypeOK
  BY <1>1 DEF Init, TypeOK
<1>3. call \in CallType
  BY DEF Init, NoCall, CallType, Ops
<1>4. Shape
  <2>1. kind \in Kinds /\ status \in {"ok", "error"}
    BY <1>2 DEF TypeOK
  <2>2. kind = "invalid" => done
    BY DEF Init
  <2> QED
    BY <1>1, <2>1, <2>2 DEF Init, Shape, NoCall, Active, Undefined
<1>5. CallSoFar
  <2>1. call.bytes = SubSeq(data, call.from + 1, Here)
    BY EmptyChunk DEF Init, NoCall, Here
  <2> QED
    BY <2>1 DEF Init, NoCall, CallSoFar, Active, Reading, Returned
<1>6. SearchSoFar /\ ShortOnlyAtEnd /\ UntilStopsAtFirst
  BY DEF Init, NoCall, SearchSoFar, ShortOnlyAtEnd, UntilStopsAtFirst, Active, Returned
<1> QED
  BY <1>2, <1>3, <1>4, <1>5, <1>6 DEF ReaderInv
-----------------------------------------------------------------------------
(* A call that begins has handed out nothing yet.                          *)
LEMMA CallBegins ==
  ASSUME ReaderInv, NEW op \in Ops
  PROVE  /\ Call(op) \in CallType
         /\ Call(op).op = op /\ Call(op).active = FALSE /\ Call(op).bytes = <<>>
         /\ Call(op).from = offset /\ (Call(op).open <=> ~done)
         /\ Call(op).result = 0 /\ Call(op).pattern = <<>>
         /\ Call(op).find = 1 /\ Call(op).found = 1
<1>1. offset \in Nat \cup {-1} /\ done \in BOOLEAN
  BY DEF ReaderInv, TypeOK
<1> DEFINE open == ~done
<1>2. open \in BOOLEAN /\ (open <=> ~done)
  BY <1>1
<1>3. Call(op) = [NoCall EXCEPT !.op = op, !.from = offset, !.open = open]
  BY DEF Call
<1> HIDE DEF open
<1>4. Call(op) = [op |-> op, active |-> FALSE, argument |-> 0, pattern |-> <<>>,
                  from |-> offset, open |-> open, bytes |-> <<>>, result |-> 0,
                  find |-> 1, found |-> 1]
  BY <1>3 DEF NoCall
<1>5. Call(op) \in CallType
  BY <1>1, <1>2, <1>4 DEF CallType
<1>6. Call(op).open = open
  BY <1>4
<1> QED
  BY <1>2, <1>4, <1>5, <1>6

LEMMA NothingYet ==
  ASSUME ReaderInv, NEW c \in CallType, c.from = offset, c.bytes = <<>>, c.open <=> ~done
  PROVE  /\ c.bytes = SubSeq(data, c.from + 1, c.from + Len(c.bytes))
         /\ c.from + Len(c.bytes) = offset
         /\ c.open => c.from >= 0
<1>1. offset \in Nat \cup {-1} /\ (offset = -1 => done)
  BY DEF ReaderInv, TypeOK, Shape
<1> QED
  BY <1>1, EmptyChunk
(* Where a seek may get to. *)
LEMMA SeekIs ==
  ASSUME ReaderInv, NEW p \in Nat, NEW o \in DoSetOffset(p)
  PROVE  /\ o \in Nat \cup {-1}
         /\ kind = "memory" => o >= 0 /\ o <= Len(data)
         /\ kind = "stream" /\ o # -1 => o = p
         /\ kind \in {"sequential", "invalid"} => o = -1
<1>1. kind \in Kinds /\ Len(data) \in Nat
  BY DEF ReaderInv, TypeOK
<1>2. CASE kind = "memory"
  <2>1. o = Least(p, Len(data))
    BY <1>2 DEF DoSetOffset
  <2> QED
    BY <1>1, <1>2, <2>1 DEF Least
<1>3. CASE kind = "stream"
  <2>1. o \in {-1, p}
    BY <1>3 DEF DoSetOffset
  <2> QED
    BY <1>3, <2>1
<1>4. CASE kind \in {"sequential", "invalid"}
  <2>1. o = -1
    BY <1>4 DEF DoSetOffset
  <2> QED
    BY <1>4, <2>1
<1> QED
  BY <1>1, <1>2, <1>3, <1>4 DEF Kinds

LEMMA SetOffsetKeeps ==
  ASSUME ReaderInv, NEW p \in Nat, SetOffset(p)
  PROVE  ReaderInv'
<1> DEFINE new == Call("seek")
<1>1. /\ new \in CallType /\ new.op = "seek" /\ new.active = FALSE /\ new.bytes = <<>>
      /\ new.from = offset /\ (new.open <=> ~done) /\ new.result = 0
  BY CallBegins DEF Ops
<1>2. /\ kind' = kind /\ data' = data
      /\ call' = [new EXCEPT !.argument = p, !.result = offset']
  BY DEF SetOffset, fixed
<1> HIDE DEF new
<1>3. /\ offset' \in Nat \cup {-1}
      /\ kind = "memory" => offset' >= 0 /\ offset' <= Len(data)
      /\ kind = "stream" /\ offset' # -1 => offset' = p
      /\ kind \in {"sequential", "invalid"} => offset' = -1
  BY SeekIs DEF SetOffset
<1>4. /\ call' \in CallType
      /\ call'.op = "seek" /\ call'.active = FALSE /\ call'.bytes = <<>>
      /\ call'.from = offset /\ (call'.open <=> ~done)
  <2>1. p \in Int /\ offset' \in Int
    BY <1>3
  <2>2. call' = [new EXCEPT !.argument = p, !.result = offset']
    BY <1>2
  <2>3. /\ call' \in CallType
        /\ call'.op = new.op /\ call'.active = new.active /\ call'.bytes = new.bytes
        /\ call'.from = new.from /\ call'.open = new.open
    BY <1>1, <2>1, <2>2, Zenon DEF CallType
  <2> QED
    BY <1>1, <2>3
<1>5. /\ status' \in {"ok", "error"}
      /\ done' = (offset' < 0 \/ (done /\ ~Reopens(p)))
      /\ kind = "stream" /\ offset' >= 0 => position' = p
      /\ ~(kind = "stream" /\ offset' >= 0) => position' = position
  BY <1>3 DEF SetOffset
<1>6. done' \in BOOLEAN /\ (offset' = -1 => done')
  <2>1. offset' = -1 => offset' < 0
    BY <1>3
  <2> QED
    BY <1>5, <2>1, Zenon
<1>7. TypeOK'
  BY <1>2, <1>3, <1>5, <1>6 DEF ReaderInv, TypeOK
<1>8. Shape'
  BY <1>2, <1>3, <1>4, <1>5, <1>6 DEF ReaderInv, TypeOK, Shape, Active
<1>9. CallSoFar'
  BY <1>2, <1>4, NothingYet DEF CallSoFar, Here, Active, Reading, Returned
<1>10. SearchSoFar' /\ ShortOnlyAtEnd' /\ UntilStopsAtFirst'
  BY <1>4 DEF SearchSoFar, ShortOnlyAtEnd, UntilStopsAtFirst, Active, Returned
<1> QED
  BY <1>4, <1>7, <1>8, <1>9, <1>10 DEF ReaderInv

LEMMA SetOffsetNegativeKeeps ==
  ASSUME ReaderInv, SetOffsetNegative
  PROVE  ReaderInv'
<1> DEFINE new == Call("seek")
<1>1. /\ new \in CallType /\ new.op = "seek" /\ new.active = FALSE /\ new.bytes = <<>>
      /\ new.from = offset /\ (new.open <=> ~done) /\ new.result = 0
  BY CallBegins DEF Ops
<1>2. /\ kind' = kind /\ data' = data /\ position' = position
      /\ offset' = -1 /\ done' = TRUE /\ status' = "error"
      /\ call' = [new EXCEPT !.argument = -1, !.result = -1]
  BY DEF SetOffsetNegative, fixed
<1> HIDE DEF new
<1>3. /\ call' \in CallType
      /\ call'.op = "seek" /\ call'.active = FALSE /\ call'.bytes = <<>>
      /\ call'.from = offset /\ (call'.open <=> ~done)
  <2>1. -1 \in Int
    OBVIOUS
  <2>2. call' = [new EXCEPT !.argument = -1, !.result = -1]
    BY <1>2
  <2>3. /\ call' \in CallType
        /\ call'.op = new.op /\ call'.active = new.active /\ call'.bytes = new.bytes
        /\ call'.from = new.from /\ call'.open = new.open
    BY <1>1, <2>1, <2>2, Zenon DEF CallType
  <2> QED
    BY <1>1, <2>3
<1>4. TypeOK' /\ Shape'
  BY <1>2, <1>3 DEF ReaderInv, TypeOK, Shape, Active
<1>5. CallSoFar'
  BY <1>2, <1>3, NothingYet DEF CallSoFar, Here, Active, Reading, Returned
<1>6. SearchSoFar' /\ ShortOnlyAtEnd' /\ UntilStopsAtFirst'
  BY <1>3 DEF SearchSoFar, ShortOnlyAtEnd, UntilStopsAtFirst, Active, Returned
<1> QED
  BY <1>3, <1>4, <1>5, <1>6 DEF ReaderInv

LEMMA BeginReadKeeps ==
  ASSUME ReaderInv, NEW op \in {"buffer", "string"}, NEW max \in Nat, BeginRead(op, max)
  PROVE  ReaderInv'
<1> DEFINE new == Call(op)
<1>1. /\ new \in CallType /\ new.op = op /\ new.active = FALSE /\ new.bytes = <<>>
      /\ new.from = offset /\ (new.open <=> ~done) /\ new.result = 0
  BY CallBegins DEF Ops
<1>2. /\ UNCHANGED <<kind, data, status, done, offset, position>>
      /\ call' = [new EXCEPT !.active = TRUE, !.argument = max]
      /\ ~call.active /\ call.result # Undefined
  BY DEF BeginRead, reader, fixed, Idle
<1> HIDE DEF new
<1>3. /\ call' \in CallType
      /\ call'.op = op /\ call'.active = TRUE /\ call'.bytes = <<>> /\ call'.result = 0
      /\ call'.from = offset /\ (call'.open <=> ~done) /\ call'.argument = max
  <2>1. max \in Int
    OBVIOUS
  <2>2. call' = [new EXCEPT !.active = TRUE, !.argument = max]
    BY <1>2
  <2>3. /\ call' \in CallType /\ call'.active = TRUE /\ call'.argument = max
        /\ call'.op = new.op /\ call'.bytes = new.bytes /\ call'.from = new.from
        /\ call'.open = new.open /\ call'.result = new.result
    BY <1>1, <2>1, <2>2, Zenon DEF CallType
  <2> QED
    BY <1>1, <2>3
<1>4. /\ call'.bytes = SubSeq(data', call'.from + 1, Here')
      /\ Here' = offset /\ Len(call'.bytes) = 0
      /\ call'.open => call'.from >= 0
  BY <1>2, <1>3, NothingYet DEF Here
<1>5. TypeOK'
  BY <1>2 DEF ReaderInv, TypeOK
<1>6. Shape'
  BY <1>2, <1>3, <1>4 DEF ReaderInv, Shape, Active
<1>7. CallSoFar'
  BY <1>2, <1>3, <1>4 DEF CallSoFar, Active, Reading, Returned
<1>8. SearchSoFar' /\ ShortOnlyAtEnd' /\ UntilStopsAtFirst'
  BY <1>3 DEF SearchSoFar, ShortOnlyAtEnd, UntilStopsAtFirst, Active, Returned
<1> QED
  BY <1>3, <1>5, <1>6, <1>7, <1>8 DEF ReaderInv

LEMMA ReadNegativeKeeps ==
  ASSUME ReaderInv, NEW op \in {"buffer", "string"}, ReadNegative(op)
  PROVE  ReaderInv'
<1> DEFINE new == Call(op)
<1>1. /\ new \in CallType /\ new.op = op /\ new.active = FALSE /\ new.bytes = <<>>
      /\ new.from = offset /\ (new.open <=> ~done) /\ new.result = 0
  BY CallBegins DEF Ops
<1>2. /\ UNCHANGED <<kind, data, offset, position>>
      /\ done' = TRUE /\ status' = "error"
      /\ call' = [new EXCEPT !.argument = -1]
      /\ ~call.active /\ call.result # Undefined
  BY DEF ReadNegative, fixed, Idle
<1> HIDE DEF new
<1>3. /\ call' \in CallType
      /\ call'.op = op /\ call'.active = FALSE /\ call'.bytes = <<>>
      /\ call'.from = offset /\ (call'.open <=> ~done)
  BY <1>1, <1>2 DEF CallType
<1>4. /\ call'.bytes = SubSeq(data', call'.from + 1, Here')
      /\ Here' = offset
      /\ call'.open => call'.from >= 0
  BY <1>2, <1>3, NothingYet DEF Here
<1>5. TypeOK' /\ Shape'
  BY <1>2, <1>3 DEF ReaderInv, TypeOK, Shape, Active
<1>6. CallSoFar'
  BY <1>2, <1>3, <1>4 DEF CallSoFar, Active, Reading, Returned
<1>7. SearchSoFar' /\ ShortOnlyAtEnd' /\ UntilStopsAtFirst'
  BY <1>2, <1>3 DEF SearchSoFar, ShortOnlyAtEnd, UntilStopsAtFirst, Active, Returned
<1> QED
  BY <1>3, <1>5, <1>6, <1>7 DEF ReaderInv
LEMMA StringsAreSequences ==
  ASSUME NEW n \in Nat, NEW s \in Strings(n)
  PROVE  s \in Seq(Letters)
<1>1. PICK k \in 0..n : s \in [1..k -> Letters]
  BY DEF Strings
<1> QED
  BY <1>1

(* std::string::find stops within the data, not before the reader.          *)
LEMMA ReadUntilInMemoryKeeps ==
  ASSUME ReaderInv, NEW pattern \in Seq(Letters), ReadUntilInMemory(pattern)
  PROVE  ReaderInv'
<1> DEFINE new == Call("until")
           found == Found(pattern, data, offset + 1)
           first == Find(pattern, data, offset + 1)
           end == IF found THEN first + Len(pattern) - 1 ELSE Len(data)
           result == IF found THEN 1 ELSE 0
           bytes == SubSeq(data, offset + 1, end)
<1>1. /\ new \in CallType /\ new.op = "until" /\ new.active = FALSE
      /\ new.from = offset /\ (new.open <=> ~done)
  BY CallBegins DEF Ops
<1>2. /\ UNCHANGED <<kind, data, status, done, position>>
      /\ kind = "memory" /\ offset >= 0
      /\ offset' = end
      /\ call' = [new EXCEPT !.pattern = pattern, !.bytes = bytes, !.result = result]
  BY DEF ReadUntilInMemory, fixed
<1> HIDE DEF new
<1>3. /\ offset \in Nat /\ data \in Seq(Bytes) /\ Len(data) \in Nat
      /\ offset <= Len(data) /\ Len(pattern) \in Nat
  BY <1>2 DEF ReaderInv, TypeOK, Shape
<1>4. end \in Nat /\ offset <= end /\ end <= Len(data)
  <2>1. CASE found
    <3>1. first \in (offset + 1)..(Len(data) + 1) /\ Occurs(pattern, data, first)
      BY <1>3, <2>1, FindIs
    <3> QED
      BY <1>3, <2>1, <3>1 DEF Occurs
  <2>2. CASE ~found
    BY <1>3, <2>2
  <2> QED
    BY <2>1, <2>2
<1> HIDE DEF end
<1>5. bytes \in Seq(Bytes) /\ Len(bytes) = end - offset
  <2> DEFINE n == end - offset
  <2>1. n \in Nat /\ offset + n = end
    BY <1>3, <1>4
  <2> HIDE DEF n
  <2>2. bytes = SubSeq(data, offset + 1, offset + n)
    BY <2>1
  <2>3. /\ SubSeq(data, offset + 1, offset + n) \in Seq(Bytes)
        /\ Len(SubSeq(data, offset + 1, offset + n)) = n
    BY <1>3, <1>4, <2>1, ChunkIs
  <2> QED
    BY <2>2, <2>3 DEF n
<1>6. result \in Int /\ (result = 1 <=> found) /\ (result = 0 <=> ~found)
  OBVIOUS
<1> HIDE DEF bytes, result
<1>7. /\ call' \in CallType /\ call'.op = "until" /\ call'.active = FALSE
      /\ call'.from = offset /\ (call'.open <=> ~done)
      /\ call'.pattern = pattern /\ call'.bytes = bytes /\ call'.result = result
  <2>1. /\ call' \in CallType
        /\ call'.op = new.op /\ call'.active = new.active
        /\ call'.from = new.from /\ call'.open = new.open
        /\ call'.pattern = pattern /\ call'.bytes = bytes /\ call'.result = result
    BY <1>1, <1>2, <1>5, <1>6, Zenon DEF CallType
  <2> QED
    BY <1>1, <2>1
<1>8. Here' = end
  BY <1>3, <1>4, <1>5, <1>7 DEF Here
<1>9. TypeOK' /\ Shape'
  BY <1>2, <1>3, <1>4, <1>7 DEF ReaderInv, TypeOK, Shape, Active
<1>10. CallSoFar'
  BY <1>2, <1>3, <1>4, <1>7, <1>8 DEF CallSoFar, Active, Reading, Returned, bytes
<1>11. SearchSoFar' /\ ShortOnlyAtEnd'
  BY <1>7 DEF SearchSoFar, ShortOnlyAtEnd, Active, Returned
<1>12. UntilStopsAtFirst'
  BY <1>2, <1>7 DEF UntilStopsAtFirst, end, result
<1> QED
  BY <1>7, <1>9, <1>10, <1>11, <1>12 DEF ReaderInv

LEMMA ReadUntilThrowsKeeps ==
  ASSUME ReaderInv, NEW pattern \in Seq(Letters), ReadUntilThrows(pattern)
  PROVE  ReaderInv'
<1> DEFINE new == Call("until")
<1>1. /\ new \in CallType /\ new.op = "until" /\ new.active = FALSE /\ new.bytes = <<>>
      /\ new.from = offset /\ (new.open <=> ~done)
  BY CallBegins DEF Ops
<1>2. /\ UNCHANGED <<kind, data, status, done, offset, position>>
      /\ kind = "memory" /\ offset < 0
      /\ call' = [new EXCEPT !.pattern = pattern, !.result = -1]
  BY DEF ReadUntilThrows, reader, fixed
<1> HIDE DEF new
<1>3. /\ call' \in CallType /\ call'.op = "until" /\ call'.active = FALSE
      /\ call'.from = offset /\ (call'.open <=> ~done) /\ call'.bytes = <<>>
      /\ call'.result = -1
  <2>1. -1 \in Int
    OBVIOUS
  <2>2. /\ call' \in CallType
        /\ call'.op = new.op /\ call'.active = new.active
        /\ call'.from = new.from /\ call'.open = new.open
        /\ call'.bytes = new.bytes /\ call'.result = -1
    BY <1>1, <1>2, <2>1, Zenon DEF CallType
  <2> QED
    BY <1>1, <2>2
<1>4. /\ call'.bytes = SubSeq(data', call'.from + 1, Here')
      /\ Here' = offset
      /\ call'.open => call'.from >= 0
  BY <1>2, <1>3, NothingYet DEF Here
<1>5. TypeOK' /\ Shape'
  BY <1>2, <1>3 DEF ReaderInv, TypeOK, Shape, Active
<1>6. CallSoFar'
  BY <1>2, <1>3, <1>4 DEF CallSoFar, Active, Reading, Returned
<1>7. SearchSoFar' /\ ShortOnlyAtEnd' /\ UntilStopsAtFirst'
  BY <1>3 DEF SearchSoFar, ShortOnlyAtEnd, UntilStopsAtFirst, Active, Returned
<1> QED
  BY <1>3, <1>5, <1>6, <1>7 DEF ReaderInv

LEMMA BeginUntilKeeps ==
  ASSUME ReaderInv, NEW pattern \in Seq(Letters), BeginUntil(pattern)
  PROVE  ReaderInv'
<1> DEFINE new == Call("until")
<1>1. /\ new \in CallType /\ new.op = "until" /\ new.bytes = <<>> /\ new.result = 0
      /\ new.from = offset /\ (new.open <=> ~done) /\ new.find = 1 /\ new.found = 1
  BY CallBegins DEF Ops
<1>2. /\ UNCHANGED <<kind, data, status, done, offset, position>>
      /\ kind # "memory"
      /\ call' = [new EXCEPT !.active = TRUE, !.pattern = pattern]
      /\ ~call.active /\ call.result # Undefined
  BY DEF BeginUntil, reader, fixed, Idle
<1> HIDE DEF new
<1>3. /\ call' \in CallType /\ call'.op = "until" /\ call'.active = TRUE
      /\ call'.from = offset /\ (call'.open <=> ~done) /\ call'.bytes = <<>>
      /\ call'.result = 0 /\ call'.find = 1 /\ call'.found = 1
      /\ call'.pattern = pattern
  <2>1. /\ call' \in CallType /\ call'.active = TRUE /\ call'.pattern = pattern
        /\ call'.op = new.op /\ call'.from = new.from /\ call'.open = new.open
        /\ call'.bytes = new.bytes /\ call'.result = new.result
        /\ call'.find = new.find /\ call'.found = new.found
    BY <1>1, <1>2, Zenon DEF CallType
  <2> QED
    BY <1>1, <2>1
<1>4. /\ call'.bytes = SubSeq(data', call'.from + 1, Here')
      /\ Here' = offset /\ Len(call'.bytes) = 0
      /\ call'.open => call'.from >= 0
  BY <1>2, <1>3, NothingYet DEF Here
<1>5. TypeOK'
  BY <1>2 DEF ReaderInv, TypeOK
<1>6. Shape'
  BY <1>2, <1>3, <1>4 DEF ReaderInv, Shape, Active
<1>7. CallSoFar'
  BY <1>2, <1>3, <1>4 DEF CallSoFar, Active, Reading, Returned
<1>8. SearchSoFar'
  <2>1. Searched(pattern, <<>>, 1, 1)
    BY DEF Searched
  <2> QED
    BY <1>3, <2>1 DEF SearchSoFar, Active
<1>9. ShortOnlyAtEnd' /\ UntilStopsAtFirst'
  BY <1>3 DEF ShortOnlyAtEnd, UntilStopsAtFirst, Active, Returned
<1> QED
  BY <1>3, <1>5, <1>6, <1>7, <1>8, <1>9 DEF ReaderInv
-----------------------------------------------------------------------------
(* One turn of the loop of readIntoBuffer, or of readIntoString. *)
LEMMA ReadSomeKeeps ==
  ASSUME ReaderInv, ReadSome
  PROVE  ReaderInv'
<1>1. /\ call.active /\ call.op \in {"buffer", "string"} /\ ~done
      /\ Missing > 0 /\ Missing \in Int
  BY CallFields DEF ReadSome, Reading, Active, ReaderInv, Missing
<1>2. Asked \in Nat \ {0} /\ Asked <= Missing
  BY <1>1, SizesAssumption DEF Asked, Least
<1>3. PICK read \in DoRead(Asked) :
        /\ read.bytes >= 0
        /\ offset' = offset + read.bytes
        /\ Advance(read)
        /\ call' = [call EXCEPT !.bytes = @ \o Taken(read.bytes)]
  BY DEF ReadSome
<1> DEFINE bytes == call.bytes \o Taken(read.bytes)
<1>4. kind' = kind /\ data' = data /\ call' = [call EXCEPT !.bytes = bytes]
  BY <1>3 DEF ReadSome, fixed
<1>5. /\ bytes \in Seq(Bytes) /\ Len(bytes) \in Nat
      /\ Len(call.bytes) \in Nat
      /\ Len(bytes) = Len(call.bytes) + read.bytes
      /\ bytes = SubSeq(data, call.from + 1, call.from + Len(bytes))
      /\ bytes # <<>> => call.from + Len(bytes) <= Len(data)
  <2>1. bytes = call.bytes \o Taken(read.bytes)
    OBVIOUS
  <2> HIDE DEF bytes
  <2>2. Len(call.bytes) \in Nat
    BY CallFields DEF ReaderInv
  <2>3. bytes \in Seq(Bytes) /\ Len(bytes) = Len(call.bytes) + read.bytes
    BY <1>1, <1>2, <1>3, <2>1, TakesNext
  <2>4. /\ bytes = SubSeq(data, call.from + 1, call.from + Len(bytes))
        /\ bytes # <<>> => call.from + Len(bytes) <= Len(data)
    BY <1>1, <1>2, <1>3, <2>1, TakesNext
  <2> QED
    BY <2>2, <2>3, <2>4
<1> HIDE DEF bytes
<1>6. /\ kind \in {"memory", "stream", "sequential"}
      /\ read.bytes \in Nat /\ read.bytes <= Missing
      /\ Here \in Nat /\ call.from \in Nat /\ Len(data) \in Nat
      /\ read.bytes > 0 \/ kind # "stream" => Here + read.bytes <= Len(data)
      /\ read.done => Here + read.bytes >= Len(data)
  BY <1>1, <1>2, <1>3, ReadsNext DEF ReaderInv, TypeOK
<1>7. /\ call.open /\ call.result = 0 /\ offset = Here
      /\ position \in Nat
      /\ kind \in {"stream", "sequential"} => position = Here
  BY <1>1, <1>6 DEF ReaderInv, TypeOK, Shape, CallSoFar, Reading, Active, Undefined
<1>8. /\ call' \in CallType /\ call'.op = call.op /\ call'.active = TRUE
      /\ call'.from = call.from /\ call'.open /\ call'.bytes = bytes
      /\ call'.argument = call.argument /\ call'.result = 0
  <2>1. /\ call' \in CallType /\ call'.op = call.op /\ call'.active = call.active
        /\ call'.from = call.from /\ call'.open = call.open /\ call'.bytes = bytes
        /\ call'.argument = call.argument /\ call'.result = call.result
    BY <1>4, <1>5, Zenon DEF CallType, ReaderInv
  <2>2. call.active = TRUE
    BY <1>1, CallFields DEF ReaderInv
  <2> QED
    BY <1>7, <2>1, <2>2
<1>9. Here' = Here + read.bytes /\ Here' = call.from + Len(bytes)
  <2>1. Here' = call.from + Len(bytes)
    BY <1>8 DEF Here
  <2>2. Here = call.from + Len(call.bytes)
    BY DEF Here
  <2>3. /\ Len(bytes) = Len(call.bytes) + read.bytes /\ Len(call.bytes) \in Nat
        /\ read.bytes \in Nat /\ call.from \in Nat
    BY <1>5, <1>6
  <2> QED
    BY <2>1, <2>2, <2>3
<1>10. /\ position' = IF kind = "memory" THEN position ELSE position + read.bytes
       /\ status' = IF read.error THEN "error" ELSE status
       /\ done' = (read.done \/ read.error)
  BY <1>3 DEF Advance
<1>11. done' \in BOOLEAN /\ (done' /\ status' = "ok" => read.done)
  BY <1>10, Zenon
<1>12. TypeOK'
  BY <1>3, <1>4, <1>6, <1>7, <1>10, <1>11 DEF ReaderInv, TypeOK
<1>13. Shape'
  BY <1>1, <1>3, <1>4, <1>6, <1>7, <1>8, <1>9, <1>10 DEF Shape, Active
<1>14. CallSoFar'
  <2>1. Len(bytes) <= call.argument
    <3>1. call.argument \in Int /\ Missing = call.argument - Len(call.bytes)
      BY CallFields DEF Missing, ReaderInv
    <3>2. /\ Len(bytes) = Len(call.bytes) + read.bytes /\ Len(call.bytes) \in Nat
          /\ read.bytes \in Nat /\ read.bytes <= Missing
      BY <1>5, <1>6
    <3> QED
      BY <3>1, <3>2
  <2>2. offset' = Here'
    BY <1>3, <1>7, <1>9
  <2>3. done' /\ status' = "ok" => Here' >= Len(data)
    BY <1>6, <1>9, <1>11
  <2>4. call'.active /\ call'.result = 0 /\ call'.open /\ call'.from >= 0
    BY <1>6, <1>8
  <2>5. bytes # <<>> => Here' <= Len(data')
    BY <1>4, <1>5, <1>9
  <2>6. call'.bytes = SubSeq(data', call'.from + 1, Here')
    BY <1>4, <1>5, <1>8, <1>9
  <2> QED
    BY <1>1, <1>4, <1>8, <2>1, <2>2, <2>3, <2>4, <2>5, <2>6
       DEF CallSoFar, Active, Reading, Returned
<1>15. SearchSoFar' /\ ShortOnlyAtEnd' /\ UntilStopsAtFirst'
  BY <1>1, <1>8 DEF SearchSoFar, ShortOnlyAtEnd, UntilStopsAtFirst, Active, Returned
<1> QED
  BY <1>8, <1>12, <1>13, <1>14, <1>15 DEF ReaderInv

LEMMA ReadFailsKeeps ==
  ASSUME ReaderInv, ReadFails
  PROVE  ReaderInv'
<1>1. /\ UNCHANGED <<kind, data, offset, position>>
      /\ status' = "error" /\ done' = TRUE
      /\ call' = [call EXCEPT !.active = FALSE, !.result = 0]
      /\ call.active /\ call.op \in {"buffer", "string"} /\ ~done
  BY DEF ReadFails, Reading, Active, fixed
<1>2. /\ call' \in CallType /\ call'.op = call.op /\ call'.active = FALSE
      /\ call'.from = call.from /\ call'.open = call.open /\ call'.bytes = call.bytes
      /\ call'.argument = call.argument /\ call'.result = 0
  <2>1. 0 \in Int
    OBVIOUS
  <2> QED
    BY <1>1, <2>1, Zenon DEF CallType, ReaderInv
<1>3. Here' = Here /\ offset = Here
  BY <1>1, <1>2 DEF ReaderInv, CallSoFar, Here, Reading, Active
<1>4. TypeOK'
  BY <1>1 DEF ReaderInv, TypeOK
<1>5. Shape'
  BY <1>1, <1>2, <1>3 DEF ReaderInv, CallSoFar, Shape, Active, Undefined
<1>6. CallSoFar'
  BY <1>1, <1>2, <1>3 DEF ReaderInv, CallSoFar, Active, Reading, Returned
<1>7. SearchSoFar' /\ ShortOnlyAtEnd' /\ UntilStopsAtFirst'
  BY <1>1, <1>2 DEF SearchSoFar, ShortOnlyAtEnd, UntilStopsAtFirst, Active, Returned
<1> QED
  BY <1>2, <1>4, <1>5, <1>6, <1>7 DEF ReaderInv

(* A read that returns with too little, and without an error, is at the end. *)
LEMMA ReadReturnsKeeps ==
  ASSUME ReaderInv, ReadReturns
  PROVE  ReaderInv'
<1> DEFINE n == Len(call.bytes)
<1>1. /\ UNCHANGED <<kind, data, status, done, offset, position>>
      /\ call' = [call EXCEPT !.active = FALSE, !.result = n]
      /\ call.active /\ call.op \in {"buffer", "string"}
      /\ Missing = 0 \/ done
  BY DEF ReadReturns, Reading, Active, reader, fixed
<1>2. n \in Int /\ n >= 0
  BY CallFields DEF ReaderInv
<1>3. /\ call' \in CallType /\ call'.op = call.op /\ call'.active = FALSE
      /\ call'.from = call.from /\ call'.open = call.open /\ call'.bytes = call.bytes
      /\ call'.argument = call.argument /\ call'.result = n
  BY <1>1, <1>2, Zenon DEF CallType, ReaderInv
<1>4. Here' = Here /\ offset = Here /\ call.result = 0
  BY <1>1, <1>3 DEF ReaderInv, CallSoFar, Here, Reading, Active
<1>5. TypeOK'
  BY <1>1 DEF ReaderInv, TypeOK
<1>6. Shape'
  BY <1>1, <1>2, <1>3, <1>4 DEF ReaderInv, Shape, Active, Undefined
<1>7. CallSoFar'
  BY <1>1, <1>2, <1>3, <1>4 DEF ReaderInv, CallSoFar, Active, Reading, Returned
<1>8. ShortOnlyAtEnd'
  <2> SUFFICES ASSUME call'.open, status' = "ok", call'.result < call'.argument
               PROVE  offset' >= Len(data')
    BY DEF ShortOnlyAtEnd
  <2>1. Missing # 0
    BY <1>2, <1>3, CallFields DEF Missing, ReaderInv
  <2>2. Here >= Len(data)
    BY <1>1, <1>3, <2>1 DEF ReaderInv, CallSoFar
  <2> QED
    BY <1>1, <1>4, <2>2
<1>9. SearchSoFar' /\ UntilStopsAtFirst'
  BY <1>1, <1>3 DEF SearchSoFar, UntilStopsAtFirst, Active, Returned
<1> QED
  BY <1>3, <1>5, <1>6, <1>7, <1>8, <1>9 DEF ReaderInv
-----------------------------------------------------------------------------
(* One more byte: the match goes on, or the search returns to the first     *)
(* place where another one may have begun.                                  *)
LEMMA RuledStays ==
  ASSUME NEW pattern \in Seq(Letters), NEW old \in Seq(Bytes), NEW bytes \in Seq(Bytes),
         Len(bytes) = Len(old) + 1, \A i \in 1..Len(old) : bytes[i] = old[i],
         NEW i \in Nat \ {0}, Ruled(pattern, old, i)
  PROVE  Ruled(pattern, bytes, i)
<1>1. PICK k \in 1..Len(pattern) : i + k - 1 <= Len(old) /\ old[i + k - 1] # pattern[k]
  BY DEF Ruled
<1> DEFINE j == i + k - 1
<1>2. j \in 1..Len(old) /\ j <= Len(bytes)
  BY <1>1
<1>3. bytes[j] = old[j]
  BY <1>2
<1>4. j <= Len(bytes) /\ bytes[j] # pattern[k]
  BY <1>1, <1>2, <1>3
<1> QED
  BY <1>4, Zenon DEF Ruled

LEMMA MatchGoesOn ==
  ASSUME NEW pattern \in Seq(Letters), NEW old \in Seq(Bytes), NEW bytes \in Seq(Bytes),
         Len(bytes) = Len(old) + 1, \A i \in 1..Len(old) : bytes[i] = old[i],
         NEW found \in Int, NEW find \in Int, Searched(pattern, old, found, find),
         find <= Len(pattern), bytes[Len(bytes)] = pattern[find]
  PROVE  Searched(pattern, bytes, found, find + 1)
<1>1. /\ Len(old) \in Nat /\ Len(bytes) \in Nat /\ Len(pattern) \in Nat
      /\ found >= 1 /\ found <= Len(old) + 1 /\ find = Len(old) - found + 2
  BY DEF Searched
<1>2. ASSUME NEW k \in 1..find
      PROVE  bytes[found + k - 1] = pattern[k]
  <2>1. CASE k = find
    BY <1>1, <2>1
  <2>2. CASE k # find
    <3>1. k \in 1..(find - 1) /\ found + k - 1 \in 1..Len(old)
      BY <1>1, <2>2
    <3> QED
      BY <3>1 DEF Searched
  <2> QED
    BY <2>1, <2>2
<1>3. ASSUME NEW i \in 1..(found - 1)
      PROVE  Ruled(pattern, bytes, i)
  <2>1. Ruled(pattern, old, i)
    BY DEF Searched
  <2> QED
    BY <2>1, RuledStays
<1> QED
  BY <1>1, <1>2, <1>3 DEF Searched

(* The places after found where a match may have begun. *)
Later(pattern, bytes, found) ==
  {i \in (found + 1)..Len(bytes) :
     \A k \in i..Len(bytes) : bytes[k] = pattern[k - i + 1]}

LEMMA MatchFails ==
  ASSUME NEW pattern \in Seq(Letters), NEW old \in Seq(Bytes), NEW bytes \in Seq(Bytes),
         Len(bytes) = Len(old) + 1, \A i \in 1..Len(old) : bytes[i] = old[i],
         NEW found \in Int, NEW find \in Int, Searched(pattern, old, found, find),
         find <= Len(pattern), bytes[Len(bytes)] # pattern[find],
         NEW next \in (found + 1)..(Len(bytes) + 1),
         \A k \in next..Len(bytes) : bytes[k] = pattern[k - next + 1],
         \A i \in (found + 1)..(next - 1) : i \notin Later(pattern, bytes, found)
  PROVE  Searched(pattern, bytes, next, Len(bytes) - next + 2)
<1>1. /\ Len(old) \in Nat /\ Len(bytes) \in Nat /\ Len(pattern) \in Nat
      /\ found >= 1 /\ found <= Len(old) + 1 /\ find = Len(old) - found + 2
  BY DEF Searched
<1>2. ASSUME NEW k \in 1..(Len(bytes) - next + 1)
      PROVE  bytes[next + k - 1] = pattern[k]
  <2>1. next + k - 1 \in next..Len(bytes) /\ (next + k - 1) - next + 1 = k
    BY <1>1
  <2> QED
    BY <2>1
<1>3. ASSUME NEW i \in 1..(next - 1)
      PROVE  Ruled(pattern, bytes, i)
  <2>1. CASE i < found
    <3>1. i \in 1..(found - 1)
      BY <1>1, <2>1
    <3>2. Ruled(pattern, old, i)
      BY <3>1 DEF Searched
    <3> QED
      BY <3>2, RuledStays
  <2>2. CASE i = found
    <3>1. find \in 1..Len(pattern) /\ i + find - 1 = Len(bytes)
      BY <1>1, <2>2
    <3> DEFINE j == i + find - 1
    <3>2. j = Len(bytes) /\ j <= Len(bytes)
      BY <1>1, <3>1
    <3> HIDE DEF j
    <3>3. bytes[j] # pattern[find]
      BY <3>2
    <3> QED
      BY <3>1, <3>2, <3>3, Zenon DEF Ruled, j
  <2>3. CASE i > found
    <3>1. i \in (found + 1)..Len(bytes) /\ i \notin Later(pattern, bytes, found)
      BY <1>1, <2>3
    <3>2. PICK k \in i..Len(bytes) : bytes[k] # pattern[k - i + 1]
      BY <3>1 DEF Later
    <3> DEFINE j == k - i + 1
    <3>3. j \in 1..Len(pattern) /\ i + j - 1 = k /\ k <= Len(bytes)
      BY <1>1, <2>3, <3>1, <3>2
    <3> HIDE DEF j
    <3>4. bytes[i + j - 1] # pattern[j]
      BY <3>2, <3>3 DEF j
    <3>5. i + j - 1 <= Len(bytes)
      BY <3>3
    <3> QED
      BY <3>3, <3>4, <3>5, Zenon DEF Ruled
  <2> QED
    BY <1>1, <2>1, <2>2, <2>3
<1> QED
  BY <1>1, <1>2, <1>3 DEF Searched

LEMMA RestartSearches ==
  ASSUME ReaderInv, Active("until"), call.find <= Len(call.pattern),
         NEW bytes \in Seq(Bytes), Len(bytes) = Len(call.bytes) + 1,
         \A i \in 1..Len(call.bytes) : bytes[i] = call.bytes[i],
         bytes[Len(bytes)] # call.pattern[call.find]
  PROVE  /\ Restart(bytes).find \in Int /\ Restart(bytes).found \in Int
         /\ Searched(call.pattern, bytes, Restart(bytes).found, Restart(bytes).find)
<1> DEFINE later == Later(call.pattern, bytes, call.found)
           first == CHOOSE i \in later : \A j \in later : i <= j
<1>1. /\ call.pattern \in Seq(Letters) /\ call.bytes \in Seq(Bytes)
      /\ call.found \in Int /\ call.find \in Int /\ Len(bytes) \in Nat
      /\ Searched(call.pattern, call.bytes, call.found, call.find)
      /\ call.found \in 1..Len(bytes)
  BY CallFields DEF ReaderInv, SearchSoFar, Searched
<1>2. CASE call.found = Len(bytes) \/ later = {}
  <2>1. Restart(bytes) = [found |-> Len(bytes) + 1, find |-> 1]
    BY <1>2 DEF Restart, Later
  <2>2. later = {}
    <3>1. call.found = Len(bytes) => (call.found + 1)..Len(bytes) = {}
      BY <1>1
    <3> QED
      BY <1>2, <3>1 DEF Later
  <2> DEFINE next == Len(bytes) + 1
  <2>3. next \in (call.found + 1)..(Len(bytes) + 1) /\ Len(bytes) - next + 2 = 1
    BY <1>1
  <2>4. \A k \in next..Len(bytes) : bytes[k] = call.pattern[k - next + 1]
    BY <1>1
  <2>5. \A i \in (call.found + 1)..(next - 1) : i \notin later
    BY <2>2
  <2> HIDE DEF next, later
  <2>6. Searched(call.pattern, bytes, next, Len(bytes) - next + 2)
    BY <1>1, <2>3, <2>4, <2>5, MatchFails DEF later
  <2> QED
    BY <1>1, <2>1, <2>3, <2>6 DEF next
<1>3. CASE call.found # Len(bytes) /\ later # {}
  <2>1. Restart(bytes) = [found |-> first, find |-> Len(bytes) - first + 2]
    BY <1>3 DEF Restart, Later
  <2>2. later \in SUBSET Nat
    BY <1>1 DEF Later
  <2> HIDE DEF later
  <2>3. \E i \in later : \A j \in later : i <= j
    BY <1>3, <2>2, SmallestOf
  <2>4. first \in later /\ \A j \in later : first <= j
    BY <2>3, Zenon
  <2> HIDE DEF first
  <2>5. /\ first \in (call.found + 1)..Len(bytes)
        /\ \A k \in first..Len(bytes) : bytes[k] = call.pattern[k - first + 1]
    BY <2>4 DEF later, Later
  <2>6. \A i \in (call.found + 1)..(first - 1) : i \notin later
    BY <1>1, <2>4, <2>5
  <2> HIDE DEF later
  <2>7. first \in (call.found + 1)..(Len(bytes) + 1)
    BY <1>1, <2>5
  <2>8. Searched(call.pattern, bytes, first, Len(bytes) - first + 2)
    BY <1>1, <2>5, <2>6, <2>7, MatchFails DEF later
  <2> QED
    BY <1>1, <2>1, <2>5, <2>8
<1> QED
  BY <1>2, <1>3

(* One turn of the loop of doAppendUntil. *)
LEMMA UntilByteKeeps ==
  ASSUME ReaderInv, UntilByte
  PROVE  ReaderInv'
<1>1. /\ call.active /\ call.op = "until" /\ ~done /\ Active("until")
      /\ call.find <= Len(call.pattern)
  BY DEF UntilByte, Active
<1>2. PICK read \in DoRead(1) :
        /\ read.bytes >= 0
        /\ Advance(read)
        /\ LET bytes == call.bytes \o Taken(read.bytes)
               match == \/ read.bytes = 0
                        \/ bytes[Len(bytes)] = call.pattern[call.find]
           IN call' = [call EXCEPT
                !.bytes = bytes,
                !.find = IF match THEN @ + read.bytes ELSE Restart(bytes).find,
                !.found = IF match THEN @ ELSE Restart(bytes).found]
  BY DEF UntilByte
<1> DEFINE bytes == call.bytes \o Taken(read.bytes)
           match == \/ read.bytes = 0
                    \/ bytes[Len(bytes)] = call.pattern[call.find]
           find == IF match THEN call.find + read.bytes ELSE Restart(bytes).find
           found == IF match THEN call.found ELSE Restart(bytes).found
<1>3. /\ kind' = kind /\ data' = data /\ offset' = offset
      /\ call' = [call EXCEPT !.bytes = bytes, !.find = find, !.found = found]
  BY <1>2 DEF UntilByte, fixed
<1>4. /\ bytes \in Seq(Bytes) /\ Len(bytes) \in Nat
      /\ Len(call.bytes) \in Nat
      /\ Len(bytes) = Len(call.bytes) + read.bytes
      /\ \A i \in 1..Len(call.bytes) : bytes[i] = call.bytes[i]
      /\ bytes = SubSeq(data, call.from + 1, call.from + Len(bytes))
      /\ bytes # <<>> => call.from + Len(bytes) <= Len(data)
  <2>1. bytes = call.bytes \o Taken(read.bytes)
    OBVIOUS
  <2> HIDE DEF bytes
  <2>2. Len(call.bytes) \in Nat /\ 1 \in Nat \ {0}
    BY CallFields DEF ReaderInv
  <2>3. bytes \in Seq(Bytes) /\ Len(bytes) = Len(call.bytes) + read.bytes
    BY <1>1, <1>2, <2>1, <2>2, TakesNext
  <2>4. /\ bytes = SubSeq(data, call.from + 1, call.from + Len(bytes))
        /\ bytes # <<>> => call.from + Len(bytes) <= Len(data)
        /\ \A i \in 1..Len(call.bytes) : bytes[i] = call.bytes[i]
    BY <1>1, <1>2, <2>1, <2>2, TakesNext
  <2> QED
    BY <2>2, <2>3, <2>4
<1>5. /\ kind \in {"memory", "stream", "sequential"}
      /\ read.bytes \in {0, 1}
      /\ Here \in Nat /\ call.from \in Nat /\ Len(data) \in Nat
      /\ read.bytes > 0 \/ kind # "stream" => Here + read.bytes <= Len(data)
      /\ read.done => Here + read.bytes >= Len(data)
  <2>1. 1 \in Nat \ {0}
    OBVIOUS
  <2> QED
    BY <1>1, <1>2, <2>1, ReadsNext DEF ReaderInv, TypeOK
<1>6. /\ call.open /\ call.result = 0 /\ offset = call.from
      /\ kind \in {"stream", "sequential"} /\ position \in Nat /\ position = Here
  BY <1>1, <1>5 DEF ReaderInv, TypeOK, Shape, CallSoFar, Undefined
<1>7. /\ find \in Int /\ found \in Int
      /\ Searched(call.pattern, bytes, found, find)
  <2>1. /\ call.pattern \in Seq(Letters) /\ call.bytes \in Seq(Bytes)
        /\ call.found \in Int /\ call.find \in Int
        /\ Searched(call.pattern, call.bytes, call.found, call.find)
    BY <1>1, CallFields DEF ReaderInv, SearchSoFar
  <2>2. CASE read.bytes = 0
    <3>1. find = call.find /\ found = call.found
      BY <2>1, <2>2
    <3>2. bytes = call.bytes
      BY <1>4, <1>5, <1>6, <2>2 DEF ReaderInv, CallSoFar, Here
    <3> QED
      BY <2>1, <3>1, <3>2
  <2>3. CASE read.bytes = 1 /\ bytes[Len(bytes)] = call.pattern[call.find]
    <3>1. find = call.find + 1 /\ found = call.found
      BY <2>3
    <3> HIDE DEF bytes, find, found
    <3>2. Searched(call.pattern, bytes, call.found, call.find + 1)
      BY <1>1, <1>4, <2>1, <2>3, MatchGoesOn
    <3> QED
      BY <2>1, <3>1, <3>2
  <2>4. CASE read.bytes = 1 /\ bytes[Len(bytes)] # call.pattern[call.find]
    <3> HIDE DEF bytes
    <3>1. ~match
      BY <2>4
    <3> HIDE DEF match
    <3>2. find = Restart(bytes).find /\ found = Restart(bytes).found
      BY <3>1
    <3> HIDE DEF bytes, find, found
    <3> QED
      BY <1>1, <1>4, <2>4, <3>2, RestartSearches
  <2> QED
    BY <1>5, <2>2, <2>3, <2>4
<1> HIDE DEF bytes, match, find, found
<1>8. /\ call' \in CallType /\ call'.op = "until" /\ call'.active = TRUE
      /\ call'.from = call.from /\ call'.open /\ call'.bytes = bytes
      /\ call'.result = 0 /\ call'.pattern = call.pattern
      /\ call'.find = find /\ call'.found = found
  <2>1. /\ call' \in CallType /\ call'.op = call.op /\ call'.active = call.active
        /\ call'.from = call.from /\ call'.open = call.open /\ call'.bytes = bytes
        /\ call'.result = call.result /\ call'.pattern = call.pattern
        /\ call'.find = find /\ call'.found = found
    BY <1>3, <1>4, <1>7, Zenon DEF CallType, ReaderInv
  <2>2. call.active = TRUE
    BY <1>1, CallFields DEF ReaderInv
  <2> QED
    BY <1>1, <1>6, <2>1, <2>2
<1>9. Here' = Here + read.bytes /\ Here' = call.from + Len(bytes)
  <2>1. Here' = call.from + Len(bytes)
    BY <1>8 DEF Here
  <2>2. Here = call.from + Len(call.bytes)
    BY DEF Here
  <2>3. /\ Len(bytes) = Len(call.bytes) + read.bytes /\ Len(call.bytes) \in Nat
        /\ read.bytes \in Nat /\ call.from \in Nat
    BY <1>4, <1>5
  <2> QED
    BY <2>1, <2>2, <2>3
<1>10. /\ position' = position + read.bytes
       /\ status' = IF read.error THEN "error" ELSE status
       /\ done' = (read.done \/ read.error)
  BY <1>2, <1>6 DEF Advance
<1>11. done' \in BOOLEAN /\ (done' /\ status' = "ok" => read.done)
  BY <1>10, Zenon
<1>12. TypeOK'
  BY <1>3, <1>5, <1>6, <1>10, <1>11 DEF ReaderInv, TypeOK
<1>13. Shape'
  <2>1. position' = Here'
    BY <1>6, <1>9, <1>10
  <2>2. kind = "sequential" => position' <= Len(data)
    BY <1>5, <1>9, <2>1
  <2> QED
    BY <1>3, <1>5, <1>6, <1>8, <2>1, <2>2 DEF Shape, Active
<1>14. CallSoFar'
  <2>1. done' /\ status' = "ok" => Here' >= Len(data)
    BY <1>5, <1>9, <1>11
  <2>2. bytes # <<>> => Here' <= Len(data')
    BY <1>3, <1>4, <1>9
  <2>3. call'.bytes = SubSeq(data', call'.from + 1, Here')
    BY <1>3, <1>4, <1>8, <1>9
  <2>4. offset' = call'.from /\ call'.from >= 0
    BY <1>3, <1>5, <1>6, <1>8
  <2> QED
    BY <1>3, <1>8, <2>1, <2>2, <2>3, <2>4 DEF CallSoFar, Active, Reading, Returned
<1>15. SearchSoFar'
  BY <1>7, <1>8 DEF SearchSoFar
<1>16. ShortOnlyAtEnd' /\ UntilStopsAtFirst'
  BY <1>8 DEF ShortOnlyAtEnd, UntilStopsAtFirst, Returned
<1> QED
  BY <1>8, <1>12, <1>13, <1>14, <1>15, <1>16 DEF ReaderInv

LEMMA UntilUndefinedKeeps ==
  ASSUME ReaderInv, UntilUndefined
  PROVE  ReaderInv'
<1>1. /\ UNCHANGED <<kind, data, status, done, offset, position>>
      /\ call.active /\ call.op = "until" /\ ~done
      /\ call' = [call EXCEPT !.active = FALSE, !.result = Undefined]
  BY DEF UntilUndefined, Active, reader, fixed
<1>2. /\ call' \in CallType /\ call'.op = "until" /\ call'.active = FALSE
      /\ call'.from = call.from /\ call'.open = call.open /\ call'.bytes = call.bytes
      /\ call'.result = Undefined
  <2>1. Undefined \in Int
    BY DEF Undefined
  <2>2. /\ call' \in CallType /\ call'.op = call.op /\ call'.active = FALSE
        /\ call'.from = call.from /\ call'.open = call.open /\ call'.bytes = call.bytes
        /\ call'.result = Undefined
    BY <1>1, <2>1, Zenon DEF CallType, ReaderInv
  <2> QED
    BY <1>1, <2>2
<1>3. Here' = Here
  BY <1>1, <1>2 DEF Here
<1>4. TypeOK'
  BY <1>1 DEF ReaderInv, TypeOK
<1>5. Shape'
  BY <1>1, <1>2 DEF ReaderInv, Shape, Active
<1>6. CallSoFar'
  BY <1>1, <1>2, <1>3 DEF ReaderInv, CallSoFar, Active, Reading, Returned
<1>7. SearchSoFar' /\ ShortOnlyAtEnd' /\ UntilStopsAtFirst'
  BY <1>2 DEF SearchSoFar, ShortOnlyAtEnd, UntilStopsAtFirst, Active, Returned, Undefined
<1> QED
  BY <1>2, <1>4, <1>5, <1>6, <1>7 DEF ReaderInv

(* Where the match in progress is, and what has been ruled out, in the data. *)
LEMMA SearchedInData ==
  ASSUME NEW text \in Seq(Bytes), NEW from \in Nat, NEW bytes \in Seq(Bytes),
         bytes = SubSeq(text, from + 1, from + Len(bytes)),
         bytes # <<>> => from + Len(bytes) <= Len(text), from <= Len(text),
         NEW pattern \in Seq(Letters), NEW found \in Int, NEW find \in Int,
         Searched(pattern, bytes, found, find)
  PROVE  /\ from + Len(bytes) <= Len(text)
         /\ \A j \in (from + 1)..(from + found - 1) : ~Occurs(pattern, text, j)
         /\ find > Len(pattern) => Occurs(pattern, text, from + found)
         /\ find <= Len(pattern) /\ from + Len(bytes) >= Len(text) =>
              ~Found(pattern, text, from + 1)
<1>1. /\ Len(text) \in Nat /\ Len(bytes) \in Nat /\ Len(pattern) \in Nat
      /\ found \in 1..(Len(bytes) + 1)
      /\ find = Len(bytes) - found + 2 /\ find <= Len(pattern) + 1
  BY DEF Searched
<1>2. from + Len(bytes) <= Len(text)
  BY <1>1
<1>3. \A i \in 1..Len(bytes) : bytes[i] = text[from + i]
  <2> DEFINE n == Len(bytes)
  <2>1. n \in Nat /\ from + n <= Len(text)
    BY <1>1, <1>2
  <2>2. bytes = SubSeq(text, from + 1, from + n)
    OBVIOUS
  <2> HIDE DEF n
  <2>3. \A i \in 1..n : SubSeq(text, from + 1, from + n)[i] = text[from + i]
    BY <2>1, ChunkIs
  <2> QED
    BY <2>2, <2>3 DEF n
<1>4. ASSUME NEW j \in (from + 1)..(from + found - 1)
      PROVE  ~Occurs(pattern, text, j)
  <2> DEFINE i == j - from
  <2>1. i \in 1..(found - 1) /\ j = from + i
    BY <1>1
  <2> HIDE DEF i
  <2>2. PICK k \in 1..Len(pattern) :
          i + k - 1 <= Len(bytes) /\ bytes[i + k - 1] # pattern[k]
    BY <2>1 DEF Searched, Ruled
  <2> DEFINE m == i + k - 1
  <2>3. m \in 1..Len(bytes) /\ from + m = j + k - 1
    BY <1>1, <2>1, <2>2
  <2>4. bytes[m] = text[from + m] /\ bytes[m] # pattern[k]
    BY <1>3, <2>2, <2>3
  <2> HIDE DEF m
  <2>5. text[j + k - 1] # pattern[k]
    BY <2>3, <2>4
  <2> QED
    BY <2>5 DEF Occurs
<1>5. ASSUME find > Len(pattern)
      PROVE  Occurs(pattern, text, from + found)
  <2>1. from + found + Len(pattern) - 1 <= Len(text)
    BY <1>1, <1>2, <1>5
  <2>2. ASSUME NEW k \in 1..Len(pattern)
        PROVE  text[from + found + k - 1] = pattern[k]
    <3> DEFINE m == found + k - 1
    <3>1. k \in 1..(find - 1) /\ m \in 1..Len(bytes) /\ from + found + k - 1 = from + m
      BY <1>1, <1>5
    <3>2. bytes[m] = pattern[k] /\ bytes[m] = text[from + m]
      BY <1>3, <3>1 DEF Searched
    <3> HIDE DEF m
    <3> QED
      BY <3>1, <3>2
  <2> QED
    BY <2>1, <2>2 DEF Occurs
<1>6. ASSUME find <= Len(pattern), from + Len(bytes) >= Len(text)
      PROVE  ~Found(pattern, text, from + 1)
  <2> SUFFICES ASSUME NEW j \in (from + 1)..(Len(text) + 1), Occurs(pattern, text, j)
               PROVE  FALSE
    BY DEF Found
  <2>1. CASE j <= from + found - 1
    BY <1>1, <1>4, <2>1
  <2>2. CASE j > from + found - 1
    BY <1>1, <1>2, <1>6, <2>2 DEF Occurs
  <2> QED
    BY <1>1, <2>1, <2>2
<1> QED
  BY <1>2, <1>4, <1>5, <1>6

(* The search comes to the place where std::string::find would have been.   *)
LEMMA UntilReturnsKeeps ==
  ASSUME ReaderInv, UntilReturns
  PROVE  ReaderInv'
<1> DEFINE result == IF call.find > Len(call.pattern) THEN 1 ELSE 0
<1>1. /\ UNCHANGED <<kind, data, status, done, position>>
      /\ offset' = offset + Len(call.bytes)
      /\ call.active /\ call.op = "until" /\ Active("until")
      /\ call.find > Len(call.pattern) \/ done
      /\ call' = [call EXCEPT !.active = FALSE, !.result = result]
  BY DEF UntilReturns, Active, fixed
<1>2. /\ result \in Int /\ result >= 0
      /\ call.find > Len(call.pattern) => result = 1
      /\ ~(call.find > Len(call.pattern)) => result = 0
  OBVIOUS
<1> HIDE DEF result
<1>3. /\ call' \in CallType /\ call'.op = "until" /\ call'.active = FALSE
      /\ call'.from = call.from /\ call'.open = call.open /\ call'.bytes = call.bytes
      /\ call'.pattern = call.pattern /\ call'.result = result
  <2>1. /\ call' \in CallType /\ call'.op = call.op /\ call'.active = FALSE
        /\ call'.from = call.from /\ call'.open = call.open /\ call'.bytes = call.bytes
        /\ call'.pattern = call.pattern /\ call'.result = result
    BY <1>1, <1>2, Zenon DEF CallType, ReaderInv
  <2> QED
    BY <1>1, <2>1
<1>4. /\ call.from \in Nat \cup {-1} /\ call.bytes \in Seq(Bytes)
      /\ Len(call.bytes) \in Nat /\ Len(data) \in Nat
      /\ call.open => call.from >= 0
      /\ call.bytes # <<>> => call.from >= 0
      /\ offset = call.from /\ call.result = 0
  BY <1>1, CallFields DEF ReaderInv, CallSoFar, TypeOK
<1>5. Here' = Here /\ Here = offset + Len(call.bytes)
  BY <1>3, <1>4 DEF Here
<1>6. offset' = Here /\ offset' \in Nat \cup {-1} /\ (offset' = -1 => offset = -1)
  <2>1. Len(call.bytes) = 0 \/ call.from >= 0
    BY <1>4
  <2> QED
    BY <1>1, <1>4, <1>5, <2>1
<1>7. TypeOK'
  BY <1>1, <1>6 DEF ReaderInv, TypeOK
<1>8. Shape'
  <2>1. kind # "memory"
    BY <1>1 DEF ReaderInv, Shape
  <2>2. kind \in {"stream", "sequential"} /\ offset' >= 0 => position = Here
    <3>1. offset' >= 0 => offset >= 0
      BY <1>1, <1>4, <1>6
    <3> QED
      BY <1>1, <1>4, <3>1 DEF ReaderInv, Shape, Undefined
  <2> QED
    BY <1>1, <1>3, <1>6, <2>1, <2>2 DEF ReaderInv, Shape, Active
<1>9. CallSoFar'
  BY <1>1, <1>3, <1>4, <1>5, <1>6 DEF ReaderInv, CallSoFar, Active, Reading, Returned
<1>10. UntilStopsAtFirst'
  <2> SUFFICES ASSUME call.open, status = "ok", call.from <= Len(data)
               PROVE  LET there == Found(call.pattern, data, call.from + 1)
                      IN /\ result = (IF there THEN 1 ELSE 0)
                         /\ Here = IF there
                                   THEN Find(call.pattern, data, call.from + 1)
                                          + Len(call.pattern) - 1
                                   ELSE Len(data)
    BY <1>1, <1>3, <1>6 DEF UntilStopsAtFirst
  <2>1. /\ data \in Seq(Bytes) /\ call.from \in Nat
        /\ call.pattern \in Seq(Letters) /\ call.found \in Int /\ call.find \in Int
        /\ Len(call.pattern) \in Nat
        /\ call.bytes = SubSeq(data, call.from + 1, call.from + Len(call.bytes))
        /\ call.bytes # <<>> => call.from + Len(call.bytes) <= Len(data)
        /\ Searched(call.pattern, call.bytes, call.found, call.find)
    BY <1>1, <1>4, CallFields
       DEF ReaderInv, TypeOK, CallSoFar, SearchSoFar, Here
  <2>2. /\ call.from + Len(call.bytes) <= Len(data)
        /\ \A j \in (call.from + 1)..(call.from + call.found - 1) :
             ~Occurs(call.pattern, data, j)
        /\ call.find > Len(call.pattern) =>
             Occurs(call.pattern, data, call.from + call.found)
        /\ call.find <= Len(call.pattern)
             /\ call.from + Len(call.bytes) >= Len(data) =>
               ~Found(call.pattern, data, call.from + 1)
    BY <1>4, <2>1, SearchedInData
  <2>3. CASE call.find > Len(call.pattern)
    <3> DEFINE i == call.from + 1
               j == call.from + call.found
    <3>1. /\ call.found \in 1..(Len(call.bytes) + 1)
          /\ call.find = Len(call.bytes) - call.found + 2
          /\ call.find <= Len(call.pattern) + 1
      BY <2>1 DEF Searched
    <3>2. /\ call.from \in Nat /\ Len(call.pattern) \in Nat
          /\ Here = call.from + Len(call.bytes)
          /\ Len(call.bytes) \in Nat /\ Len(data) \in Nat
          /\ call.from + Len(call.bytes) <= Len(data)
      BY <1>4, <1>5, <2>1, <2>2
    <3>3. i \in Nat /\ j \in i..(Len(data) + 1) /\ Here = j + Len(call.pattern) - 1
      <4>1. i \in Nat /\ j \in Nat /\ i <= j
        BY <3>1, <3>2
      <4>2. j <= Len(data) + 1
        BY <3>1, <3>2
      <4>3. Here = j + Len(call.pattern) - 1
        <5>1. call.find = Len(call.pattern) + 1
          BY <2>3, <3>1, <3>2
        <5>2. \A l, n \in Nat, i0, j0 \in Int :
                j0 = l - i0 + 2 /\ j0 = n + 1 => n = l - i0 + 1
          OBVIOUS
        <5>3. Len(call.pattern) = Len(call.bytes) - call.found + 1
          <6>1. /\ Len(call.bytes) \in Nat /\ Len(call.pattern) \in Nat
                /\ call.found \in Int /\ call.find \in Int
                /\ call.find = Len(call.bytes) - call.found + 2
            BY <2>1, <3>1, <3>2
          <6> QED
            BY <5>1, <5>2, <6>1, Zenon
        <5> QED
          BY <3>1, <3>2, <5>3
      <4> QED
        BY <3>2, <4>1, <4>2, <4>3
    <3>4. j - 1 = call.from + call.found - 1
      BY <3>1, <3>2
    <3>5. \A k \in i..(call.from + call.found - 1) : ~Occurs(call.pattern, data, k)
      BY <2>2
    <3>6. Occurs(call.pattern, data, j)
      BY <2>2, <2>3
    <3> HIDE DEF i, j
    <3>7. \A k \in i..(j - 1) : ~Occurs(call.pattern, data, k)
      BY <3>4, <3>5
    <3>8. Found(call.pattern, data, i) /\ Find(call.pattern, data, i) = j
      BY <2>1, <3>3, <3>6, <3>7, FirstIsFind
    <3> QED
      BY <1>2, <2>3, <3>3, <3>8 DEF i
  <2>4. CASE ~(call.find > Len(call.pattern))
    <3>1. Here >= Len(data)
      BY <1>1, <2>4 DEF ReaderInv, CallSoFar
    <3>2. /\ call.find <= Len(call.pattern) /\ Here = call.from + Len(call.bytes)
          /\ Here = Len(data)
      BY <1>4, <1>5, <2>1, <2>2, <2>4, <3>1
    <3>3. ~Found(call.pattern, data, call.from + 1)
      BY <2>2, <3>1, <3>2
    <3> QED
      BY <1>2, <2>4, <3>2, <3>3
  <2> QED
    BY <2>3, <2>4
<1>11. SearchSoFar' /\ ShortOnlyAtEnd'
  BY <1>3 DEF SearchSoFar, ShortOnlyAtEnd, Active, Returned
<1> QED
  BY <1>3, <1>7, <1>8, <1>9, <1>10, <1>11 DEF ReaderInv

-----------------------------------------------------------------------------
(* Every step keeps the invariant. *)
LEMMA NextReaderInv == ReaderInv /\ [Next]_vars => ReaderInv'
<1> SUFFICES ASSUME ReaderInv, [Next]_vars PROVE ReaderInv'
  OBVIOUS
<1>1. CASE Begin
  <2>1. ASSUME NEW p \in 0..(MaxData + 1), SetOffset(p)
        PROVE  ReaderInv'
    <3>1. p \in Nat
      BY SizesAssumption
    <3> QED
      BY <2>1, <3>1, SetOffsetKeeps
  <2>2. CASE SetOffsetNegative
    BY <2>2, SetOffsetNegativeKeeps
  <2>3. ASSUME NEW op \in {"buffer", "string"}, ReadNegative(op)
        PROVE  ReaderInv'
    BY <2>3, ReadNegativeKeeps
  <2>4. ASSUME NEW op \in {"buffer", "string"}, NEW max \in 0..Unlimited,
               BeginRead(op, max)
        PROVE  ReaderInv'
    <3>1. max \in Nat
      BY SizesAssumption DEF Unlimited
    <3> QED
      BY <2>4, <3>1, BeginReadKeeps
  <2>5. ASSUME NEW pattern \in Strings(MaxPattern),
               \/ ReadUntilInMemory(pattern) \/ ReadUntilThrows(pattern)
               \/ BeginUntil(pattern)
        PROVE  ReaderInv'
    <3>1. pattern \in Seq(Letters)
      BY SizesAssumption, StringsAreSequences
    <3> QED
      BY <2>5, <3>1, ReadUntilInMemoryKeeps, ReadUntilThrowsKeeps, BeginUntilKeeps
  <2> QED
    BY <1>1, <2>1, <2>2, <2>3, <2>4, <2>5, Zenon DEF Begin
<1>2. CASE Step
  BY <1>2, ReadSomeKeeps, ReadFailsKeeps, ReadReturnsKeeps,
     UntilByteKeeps, UntilUndefinedKeeps, UntilReturnsKeeps DEF Step
<1>3. CASE UNCHANGED vars
  <2>1. /\ kind' = kind /\ data' = data /\ status' = status /\ done' = done
        /\ offset' = offset /\ position' = position /\ call' = call
    BY <1>3 DEF vars, reader, fixed
  <2> QED
    BY <2>1 DEF ReaderInv, TypeOK, Shape, CallSoFar, SearchSoFar, ShortOnlyAtEnd,
                UntilStopsAtFirst, Active, Reading, Returned, Here
<1> QED
  BY <1>1, <1>2, <1>3 DEF Next

(* A reader, whatever it reads from, is always where the bytes it has       *)
(* handed out say it is.                                                    *)
THEOREM ReaderInvariant == Spec => []ReaderInv
  BY InitReaderInv, NextReaderInv, PTL DEF Spec

LEMMA InvariantOrders == ReaderInv => BytesInOrder
<1> SUFFICES ASSUME ReaderInv, ~call.active, call.op \in {"buffer", "string", "until"}
             PROVE  /\ call.bytes = SubSeq(data, call.from + 1, call.from + Len(call.bytes))
                    /\ call.result # Undefined => offset = call.from + Len(call.bytes)
  BY DEF BytesInOrder
<1> QED
  BY DEF ReaderInv, CallSoFar, Here, Returned

(* A call of readIntoBuffer, readIntoString or readUntil hands out the      *)
(* bytes from where the reader was to where it is afterwards, none left out *)
(* and none twice.                                                          *)
THEOREM ReadersKeepTheOrder == Spec => []BytesInOrder
  BY InvariantOrders, ReaderInvariant, PTL

(* A read that comes back with too little, and no error, is at the end.     *)
THEOREM ShortReadsAreAtTheEnd == Spec => []ShortOnlyAtEnd
<1>1. ReaderInv => ShortOnlyAtEnd
  BY DEF ReaderInv
<1> QED
  BY <1>1, ReaderInvariant, PTL

(* readUntil stops right behind the first occurrence of the pattern, or     *)
(* reads all there is: the search byte by byte, which may return to the     *)
(* middle of a match, comes to the same as std::string::find.               *)
THEOREM SearchesStopAtTheFirst == Spec => []UntilStopsAtFirst
<1>1. ReaderInv => UntilStopsAtFirst
  BY DEF ReaderInv
<1> QED
  BY <1>1, ReaderInvariant, PTL

-----------------------------------------------------------------------------
(* The body reader is one of DataReader, or has not been set yet. *)
BodyReader == IF HasReader THEN ReaderInv ELSE NoReader

BodyType ==
  [phase : {"none", "rewound", "reading", "returned"},
   stuck : BOOLEAN, ok : BOOLEAN, bytes : Seq(Bytes)]

(* getBody between its steps: it has come back to the beginning, or the     *)
(* read of everything is the call in progress, or the one that returned.    *)
BodySoFar ==
  /\ body \in BodyType
  /\ body.phase # "none" => HasReader
  /\ body.phase = "rewound" => Idle /\ offset = 0
  /\ body.phase = "reading" =>
       /\ call.op = "string" /\ call.from = 0 /\ call.argument = Unlimited
       /\ body.stuck <=> ~call.open /\ data # <<>>

WriterType == [storage : Seq(Nat), size : Nat, begun : BOOLEAN, ok : BOOLEAN]
SourceType ==
  [data : Seq(Nat), total : Nat \cup {-1}, offset : Nat, done : BOOLEAN,
   error : BOOLEAN]
CopyType ==
  [op : {"none", "copy"}, active : BOOLEAN, max : Int, remaining : Int,
   ok : BOOLEAN, stored : Seq(Nat), begun : BOOLEAN, from : Nat]

WritingType ==
  /\ failing \in BOOLEAN /\ writer \in WriterType
  /\ source \in SourceType /\ copy \in CopyType
  /\ Len(writer.storage) <= MaxStored

(* A source that is done without an error has given all it had. *)
SourceIsSound(r) ==
  /\ Len(r.data) <= MaxWritten
  /\ r.total \in {-1, Len(r.data)}
  /\ r.offset <= Len(r.data)
  /\ r.error => r.done
  /\ r.done /\ ~r.error => r.offset = Len(r.data)

(* How far the copy in progress has come, and how far it is to come. *)
Progress == source.offset - copy.from
AtMost == IF copy.max < 0 THEN Writer!Unlimited ELSE copy.max
All == LET rest == Len(source.data) - copy.from
       IN IF copy.max < 0 THEN rest ELSE Least(rest, copy.max)

(* While nothing has failed all that was taken has been stored, and what    *)
(* remains is counted; after a failure a chunk is lost at most.             *)
CopySoFar ==
  /\ copy.active => copy.op = "copy" /\ copy.ok
  /\ copy.op = "copy" => copy.from <= source.offset
  /\ copy.active =>
       /\ Len(copy.stored) + Len(source.data) <= MaxStored
       /\ copy.begun => writer.begun
       /\ ~writer.begun => /\ writer.storage = copy.stored
                           /\ writer.ok => Progress = 0
       /\ ~source.error => /\ copy.remaining >= 0
                           /\ \/ copy.remaining = AtMost - Progress
                              \/ copy.remaining = All - Progress
       /\ writer.ok /\ ~source.error => Writer!CopiedIs(Progress)
       /\ \E k \in 0..Progress : Writer!CopiedIs(k) /\ Progress - k <= ChunkSize

WritingInv ==
  /\ WritingType /\ SourceIsSound(source)
  /\ SizeIsStored /\ CopySoFar /\ CopyStored

ResponseInv == BodyReader /\ BodySoFar /\ BodyWhole /\ WritingInv
-----------------------------------------------------------------------------
(* A step of the reader leaves its kind and its data as they are. *)
LEMMA ReaderStays ==
  ASSUME Next
  PROVE  kind' = kind /\ data' = data
<1> USE DEF fixed, reader
<1>1. CASE Begin
  BY <1>1 DEF Begin, SetOffset, SetOffsetNegative, ReadNegative, BeginRead,
              ReadUntilInMemory, ReadUntilThrows, BeginUntil
<1>2. CASE Step
  BY <1>2 DEF Step, ReadSome, ReadFails, ReadReturns, UntilByte, UntilUndefined,
              UntilReturns
<1> QED
  BY <1>1, <1>2 DEF Next

LEMMA ReaderGoesOn ==
  ASSUME BodyReader, HasReader, Next
  PROVE  BodyReader' /\ HasReader'
<1>1. ReaderInv' /\ kind' = kind
  BY NextReaderInv, ReaderStays DEF BodyReader
<1> QED
  BY <1>1 DEF BodyReader, HasReader

LEMMA ReaderUnchanged ==
  ASSUME BodyReader, UNCHANGED vars
  PROVE  BodyReader' /\ (HasReader' <=> HasReader)
<1>1. /\ kind' = kind /\ data' = data /\ total' = total /\ status' = status
      /\ done' = done /\ offset' = offset /\ position' = position /\ call' = call
  BY DEF vars, reader, fixed
<1>2. CASE HasReader
  <2>1. ReaderInv'
    BY <1>2, NextReaderInv DEF BodyReader
  <2> QED
    BY <1>1, <1>2, <2>1 DEF BodyReader, HasReader
<1>3. CASE ~HasReader
  BY <1>1, <1>3 DEF BodyReader, HasReader, NoReader
<1> QED
  BY <1>2, <1>3

(* The reader that is made of what has been written. *)
LEMMA ReaderIsMade ==
  ASSUME BodyReader, WritingType, SetBodyReader
  PROVE  BodyReader' /\ HasReader'
<1> USE SizesAssumption, WriterAssumption
<1>1. /\ writer.storage \in Seq(Nat) /\ Len(writer.storage) \in Nat
      /\ Len(writer.storage) <= MaxData
  <2>1. writer.storage \in Seq(Nat) /\ Len(writer.storage) <= MaxStored
    BY DEF WritingType, WriterType
  <2> QED
    BY <2>1
<1>2. offset' = 0 /\ position' = 0 /\ call' = NoCall
  BY DEF BodyReader, NoReader, SetBodyReader
<1>3. /\ kind' = IF writer.ok THEN "memory" ELSE "invalid"
      /\ data' = IF writer.ok THEN writer.storage ELSE <<>>
      /\ total' = IF writer.ok THEN Len(writer.storage) ELSE -1
      /\ status' = IF writer.ok THEN "ok" ELSE "error"
      /\ done' = (writer.ok => total' = 0)
  BY DEF SetBodyReader
<1>4. data' \in Seq(Bytes) /\ Len(data') \in Nat /\ Len(data') <= MaxData
  <2>1. writer.storage \in Seq(Bytes) /\ <<>> \in Seq(Bytes) /\ Len(<<>>) = 0
    BY <1>1 DEF Bytes
  <2> QED
    BY <1>1, <1>3, <2>1
<1>5. done' \in BOOLEAN /\ (kind' = "invalid" => done')
  BY <1>3, Zenon
<1>6. TypeOK'
  BY <1>2, <1>3, <1>4, <1>5 DEF TypeOK, Kinds
<1>7. call' \in CallType
  BY <1>2 DEF NoCall, CallType, Ops
<1>8. Shape'
  <2>1. kind' \in {"memory", "invalid"}
    BY <1>3
  <2> QED
    BY <1>2, <1>4, <1>5, <2>1 DEF Shape, NoCall, Active, Undefined
<1>9. CallSoFar'
  <2>1. call'.bytes = SubSeq(data', call'.from + 1, Here')
    BY <1>2, EmptyChunk DEF NoCall, Here
  <2> QED
    BY <1>2, <2>1 DEF NoCall, CallSoFar, Active, Reading, Returned
<1>10. SearchSoFar' /\ ShortOnlyAtEnd' /\ UntilStopsAtFirst'
  BY <1>2 DEF NoCall, SearchSoFar, ShortOnlyAtEnd, UntilStopsAtFirst, Active, Returned
<1>11. HasReader'
  BY <1>3 DEF HasReader
<1> QED
  BY <1>6, <1>7, <1>8, <1>9, <1>10, <1>11 DEF ReaderInv, BodyReader

(* The bytes of the read of everything. *)
LEMMA EverythingRead ==
  ASSUME ReaderInv, ~call.active, call.op = "string", call.from = 0,
         call.argument = Unlimited, call.open, status = "ok"
  PROVE  call.bytes = data
<1> USE SizesAssumption
<1>1. /\ data \in Seq(Bytes) /\ Len(data) \in Nat /\ Len(data) <= MaxData
      /\ call.bytes \in Seq(Bytes) /\ Len(call.bytes) \in Nat
  BY CallFields DEF ReaderInv, TypeOK
<1>2. Here = Len(call.bytes)
  BY <1>1 DEF Here
<1>3. /\ call.bytes # <<>> => Len(call.bytes) <= Len(data)
      /\ offset = Len(call.bytes) /\ call.result = Len(call.bytes)
      /\ call.bytes = SubSeq(data, call.from + 1, Here)
  BY <1>2 DEF ReaderInv, CallSoFar, Returned
<1>4. Len(call.bytes) <= Len(data)
  <2>1. call.bytes = <<>> => Len(call.bytes) = 0
    OBVIOUS
  <2>2. call.bytes # <<>> => Len(call.bytes) <= Len(data)
    BY <1>3
  <2> QED
    BY <1>1, <2>1, <2>2
<1>5. call.result < call.argument
  BY <1>1, <1>3, <1>4 DEF Unlimited
<1>6. Len(call.bytes) = Len(data)
  <2>1. offset >= Len(data)
    BY <1>5 DEF ReaderInv, ShortOnlyAtEnd, Returned
  <2> QED
    BY <1>1, <1>3, <1>4, <2>1
<1>7. call.bytes = SubSeq(data, 1, Len(data))
  BY <1>2, <1>3, <1>6
<1> QED
  BY <1>1, <1>7, SubSeqFull

(* What a step of a call keeps of it. *)
LEMMA CallGoesOn ==
  ASSUME call \in CallType, Step
  PROVE  /\ call'.op = call.op /\ call'.from = call.from
         /\ call'.open = call.open /\ call'.argument = call.argument
<1>1. CASE ReadSome
  <2>1. PICK b : call' = [call EXCEPT !.bytes = b]
    BY <1>1 DEF ReadSome
  <2> QED
    BY <2>1, Zenon DEF CallType
<1>2. CASE ReadFails
  BY <1>2, Zenon DEF ReadFails, CallType
<1>3. CASE ReadReturns
  BY <1>3, Zenon DEF ReadReturns, CallType
<1>4. CASE UntilByte
  <2>1. PICK b, i, j : call' = [call EXCEPT !.bytes = b, !.find = i, !.found = j]
    BY <1>4, Zenon DEF UntilByte
  <2> QED
    BY <2>1, Zenon DEF CallType
<1>5. CASE UntilUndefined
  BY <1>5, Zenon DEF UntilUndefined, CallType
<1>6. CASE UntilReturns
  BY <1>6, Zenon DEF UntilReturns, CallType
<1> QED
  BY <1>1, <1>2, <1>3, <1>4, <1>5, <1>6 DEF Step

-----------------------------------------------------------------------------
(* getBody. *)
BodyInv == BodyReader /\ BodySoFar /\ BodyWhole

LEMMA BodyFields ==
  ASSUME body \in BodyType
  PROVE  /\ body.phase \in {"none", "rewound", "reading", "returned"}
         /\ body.stuck \in BOOLEAN /\ body.ok \in BOOLEAN
         /\ body.bytes \in Seq(Bytes)
  BY Zenon DEF BodyType

LEMMA NoBodyIs ==
  /\ NoBody \in BodyType /\ NoBody.phase = "none"
  /\ NoBody.stuck = FALSE /\ NoBody.ok = TRUE /\ NoBody.bytes = <<>>
<1>1. <<>> \in Seq(Bytes)
  OBVIOUS
<1> QED
  BY <1>1 DEF NoBody, BodyType

LEMMA UseReaderKeeps ==
  ASSUME BodyInv, UseReader
  PROVE  BodyInv'
<1>1. BodyReader' /\ HasReader'
  BY ReaderGoesOn DEF BodyInv, UseReader, Next
<1>2. body' = NoBody
  BY DEF UseReader
<1> QED
  BY <1>1, <1>2, NoBodyIs DEF BodyInv, BodySoFar, BodyWhole

(* The read of everything begins: from the beginning, or with a reader that *)
(* is done already.                                                         *)
LEMMA BodyReadBegins ==
  ASSUME BodyInv, HasReader, offset = 0, BeginRead("string", Unlimited),
         NEW b \in BodyType, body' = [b EXCEPT !.phase = "reading", !.stuck = Stuck]
  PROVE  BodyInv'
<1>1. BodyReader' /\ HasReader'
  <2>1. Unlimited \in 0..Unlimited
    BY SizesAssumption DEF Unlimited
  <2>2. Begin
    BY <2>1, Zenon DEF Begin
  <2> QED
    BY <2>2, ReaderGoesOn DEF BodyInv, Next
<1>2. ReaderInv /\ done \in BOOLEAN
  BY DEF BodyInv, BodyReader, ReaderInv, TypeOK
<1> DEFINE new == Call("string")
<1>3. /\ new \in CallType /\ new.op = "string"
      /\ new.from = offset /\ (new.open <=> ~done)
  BY <1>2, CallBegins DEF Ops
<1>4. /\ call' = [new EXCEPT !.active = TRUE, !.argument = Unlimited]
      /\ data' = data
  BY DEF BeginRead, reader, fixed
<1> HIDE DEF new
<1>5. /\ call'.op = "string" /\ call'.from = 0 /\ call'.argument = Unlimited
      /\ (call'.open <=> ~done)
  <2>1. /\ call'.op = new.op /\ call'.from = new.from
        /\ call'.open = new.open /\ call'.argument = Unlimited
    BY <1>3, <1>4, Zenon DEF CallType
  <2> QED
    BY <1>3, <2>1
<1> DEFINE stuck == Stuck
<1>6. stuck \in BOOLEAN /\ (stuck <=> done /\ data # <<>>)
  BY <1>2 DEF Stuck
<1> HIDE DEF stuck
<1>7. body' \in BodyType /\ body'.phase = "reading" /\ body'.stuck = stuck
  <2>1. body' = [b EXCEPT !.phase = "reading", !.stuck = stuck]
    BY DEF stuck
  <2> QED
    BY <1>6, <2>1, Zenon DEF BodyType
<1>8. BodySoFar'
  BY <1>1, <1>4, <1>5, <1>6, <1>7, <1>2 DEF BodySoFar
<1>9. BodyWhole'
  BY <1>7 DEF BodyWhole
<1> QED
  BY <1>1, <1>8, <1>9 DEF BodyInv

(* reset() comes back to the beginning, or fails. *)
LEMMA ResetIs ==
  ASSUME BodyInv, HasReader, SetOffset(0)
  PROVE  /\ BodyReader' /\ HasReader'
         /\ data' = data /\ call'.active = FALSE /\ call'.result # Undefined
         /\ offset' = 0 \/ (offset' # 0 /\ status' = "error")
<1>1. ReaderInv
  BY DEF BodyInv, BodyReader
<1>2. BodyReader' /\ HasReader' /\ data' = data
  <2>1. 0 \in 0..(MaxData + 1)
    BY SizesAssumption
  <2>2. Begin
    BY <2>1, Zenon DEF Begin
  <2> QED
    BY <2>2, ReaderGoesOn, ReaderStays DEF BodyInv, Next
<1>3. offset' \in {0, -1}
  <2>1. Len(data) \in Nat /\ kind \in Kinds
    BY <1>1 DEF ReaderInv, TypeOK
  <2>2. offset' \in DoSetOffset(0)
    BY DEF SetOffset
  <2>3. DoSetOffset(0) \subseteq {0, -1}
    BY <2>1 DEF DoSetOffset, Least, Kinds
  <2> QED
    BY <2>2, <2>3
<1>4. offset' = -1 => status' = "error"
  BY <1>3 DEF SetOffset
<1> DEFINE new == Call("seek")
<1>5. new \in CallType /\ new.active = FALSE
  BY <1>1, CallBegins DEF Ops
<1>6. call' = [new EXCEPT !.argument = 0, !.result = offset']
  BY DEF SetOffset
<1> HIDE DEF new
<1>7. call'.active = new.active /\ call'.result = offset'
  BY <1>5, <1>6, Zenon DEF CallType
<1> QED
  BY <1>2, <1>3, <1>4, <1>5, <1>7 DEF Undefined

LEMMA GetBodyResetsKeeps ==
  ASSUME BodyInv, GetBodyResets
  PROVE  BodyInv'
<1>1. /\ BodyReader' /\ HasReader'
      /\ data' = data /\ call'.active = FALSE /\ call'.result # Undefined
      /\ offset' = 0 \/ (offset' # 0 /\ status' = "error")
  BY ResetIs DEF GetBodyResets
<1>2. CASE offset' = 0
  <2>1. body' = [NoBody EXCEPT !.phase = "rewound"]
    BY <1>2 DEF GetBodyResets
  <2>2. body' \in BodyType /\ body'.phase = "rewound"
    BY <2>1, NoBodyIs, Zenon DEF BodyType
  <2>3. BodySoFar' /\ BodyWhole'
    BY <1>1, <1>2, <2>2 DEF BodySoFar, BodyWhole, Idle
  <2> QED
    BY <1>1, <2>3 DEF BodyInv
<1>3. CASE offset' # 0
  <2> DEFINE ok == status' = "ok"
  <2>1. body' = [NoBody EXCEPT !.phase = "returned", !.ok = ok]
    BY <1>3 DEF GetBodyResets
  <2>2. ok \in BOOLEAN /\ ~ok
    BY <1>1, <1>3
  <2> HIDE DEF ok
  <2>3. body' \in BodyType /\ body'.phase = "returned" /\ body'.ok = ok
    BY <2>1, <2>2, NoBodyIs, Zenon DEF BodyType
  <2>4. BodySoFar' /\ BodyWhole'
    BY <1>1, <2>2, <2>3 DEF BodySoFar, BodyWhole
  <2> QED
    BY <1>1, <2>4 DEF BodyInv
<1> QED
  BY <1>2, <1>3

LEMMA GetBodyReturnsKeeps ==
  ASSUME BodyInv, GetBodyReturns
  PROVE  BodyInv'
<1> DEFINE ok == status = "ok"
<1>1. /\ body.phase = "reading" /\ HasReader /\ SetOffset(0)
      /\ ~call.active /\ body \in BodyType
      /\ body' = [body EXCEPT !.phase = "returned", !.bytes = call.bytes, !.ok = ok]
  BY DEF GetBodyReturns, SetOffset, Idle, BodyInv, BodySoFar
<1>2. ReaderInv /\ call.bytes \in Seq(Bytes)
  BY <1>1, CallFields DEF BodyInv, BodyReader, ReaderInv
<1>3. BodyReader' /\ HasReader' /\ data' = data
  BY <1>1, ResetIs
<1>4. ok \in BOOLEAN /\ (ok => status = "ok")
  OBVIOUS
<1> HIDE DEF ok
<1>5. /\ body' \in BodyType /\ body'.phase = "returned" /\ body'.ok = ok
      /\ body'.stuck = body.stuck /\ body'.bytes = call.bytes
  BY <1>1, <1>2, <1>4, Zenon DEF BodyType
<1>6. /\ call.op = "string" /\ call.from = 0 /\ call.argument = Unlimited
      /\ body.stuck <=> ~call.open /\ data # <<>>
  BY <1>1 DEF BodyInv, BodySoFar
<1>7. ok => call.bytes = IF body.stuck THEN <<>> ELSE data
  <2>1. CASE call.open
    <3>1. ok => call.bytes = data
      BY <1>1, <1>2, <1>4, <1>6, <2>1, EverythingRead
    <3> QED
      BY <1>6, <2>1, <3>1
  <2>2. CASE ~call.open
    <3>1. call.bytes = <<>>
      BY <1>2, <1>6, <2>2 DEF ReaderInv, CallSoFar
    <3> QED
      BY <1>6, <2>2, <3>1
  <2> QED
    BY <2>1, <2>2
<1>8. BodySoFar' /\ BodyWhole'
  BY <1>3, <1>5, <1>7 DEF BodySoFar, BodyWhole
<1> QED
  BY <1>3, <1>8 DEF BodyInv

(* The call that getBody has made runs on. *)
LEMMA BodyStepKeeps ==
  ASSUME BodyInv, GettingBody, Step, UNCHANGED body
  PROVE  BodyInv'
<1>1. /\ body.phase \in {"rewound", "reading"} /\ HasReader /\ call.active
  BY DEF GettingBody, BodyInv, BodySoFar, Step, ReadSome, ReadFails, ReadReturns,
         UntilByte, UntilUndefined, UntilReturns, Reading, Active
<1>2. BodyReader' /\ HasReader' /\ data' = data
  BY <1>1, ReaderGoesOn, ReaderStays DEF BodyInv, Next
<1>3. body.phase = "reading"
  BY <1>1 DEF BodyInv, BodySoFar, Idle
<1>4. /\ call'.op = call.op /\ call'.from = call.from
      /\ call'.open = call.open /\ call'.argument = call.argument
  BY <1>1, CallGoesOn DEF BodyInv, BodyReader, ReaderInv
<1>5. BodySoFar'
  BY <1>2, <1>3, <1>4 DEF BodyInv, BodySoFar, Unlimited
<1>6. BodyWhole'
  BY <1>3 DEF BodyWhole
<1> QED
  BY <1>2, <1>5, <1>6 DEF BodyInv

LEMMA ReaderMadeKeeps ==
  ASSUME BodyInv, WritingType, SetBodyReader
  PROVE  BodyInv'
<1>1. BodyReader' /\ HasReader' /\ body' = body
  BY ReaderIsMade DEF BodyInv, SetBodyReader
<1>2. body \in BodyType /\ body.phase = "none"
  BY BodyFields DEF BodyInv, BodySoFar, SetBodyReader
<1> QED
  BY <1>1, <1>2 DEF BodyInv, BodySoFar, BodyWhole

LEMMA BodyUnchanged ==
  ASSUME BodyInv, UNCHANGED <<vars, body>>
  PROVE  BodyInv'
<1>1. /\ kind' = kind /\ data' = data /\ offset' = offset /\ call' = call
      /\ body' = body
  BY DEF vars, reader, fixed
<1>2. BodyReader' /\ (HasReader' <=> HasReader)
  BY ReaderUnchanged DEF BodyInv
<1>3. BodySoFar' /\ BodyWhole'
  BY <1>1, <1>2 DEF BodyInv, BodySoFar, BodyWhole, Idle, Unlimited
<1> QED
  BY <1>2, <1>3 DEF BodyInv

LEMMA NextBodyInv ==
  ASSUME BodyInv, WritingType, [ResponseNext]_all
  PROVE  BodyInv'
<1>1. CASE WriteBody
  BY <1>1, BodyUnchanged DEF WriteBody
<1>2. CASE SetBodyReader
  BY <1>2, ReaderMadeKeeps
<1>3. CASE UseReader
  BY <1>3, UseReaderKeeps
<1>4. CASE GetBody
  BY <1>4, BodyReadBegins, NoBodyIs DEF GetBody
<1>5. CASE GetBodyResets
  BY <1>5, GetBodyResetsKeeps
<1>6. CASE GetBodyReads
  <2>1. body \in BodyType /\ HasReader /\ offset = 0
    BY <1>6 DEF GetBodyReads, BodyInv, BodySoFar
  <2> QED
    BY <1>6, <2>1, BodyReadBegins DEF GetBodyReads
<1>7. CASE GetBodyReturns
  BY <1>7, GetBodyReturnsKeeps
<1>8. CASE GettingBody /\ Step /\ UNCHANGED <<writing, body>>
  BY <1>8, BodyStepKeeps
<1>9. CASE UNCHANGED all
  BY <1>9, BodyUnchanged DEF all
<1> QED
  BY <1>1, <1>2, <1>3, <1>4, <1>5, <1>6, <1>7, <1>8, <1>9
     DEF ResponseNext, GetBodySteps

LEMMA InitBodyInv == ResponseInit => BodyInv
<1> SUFFICES ASSUME ResponseInit PROVE BodyInv
  OBVIOUS
<1>1. BodySoFar /\ BodyWhole
  BY NoBodyIs DEF ResponseInit, BodySoFar, BodyWhole
<1>2. CASE Init
  <2>1. ReaderInv
    BY <1>2, InitReaderInv
  <2> QED
    BY <1>1, <2>1 DEF BodyInv, BodyReader, ReaderInv, TypeOK, Kinds, HasReader
<1>3. CASE NoReader
  BY <1>1, <1>3 DEF BodyInv, BodyReader, HasReader, NoReader
<1> QED
  BY <1>2, <1>3 DEF ResponseInit

-----------------------------------------------------------------------------
(* The writer, operation by operation. *)
LEMMA WriterFields ==
  ASSUME NEW w \in WriterType
  PROVE  /\ w.storage \in Seq(Nat) /\ Len(w.storage) \in Nat
         /\ w.size \in Nat /\ w.begun \in BOOLEAN /\ w.ok \in BOOLEAN
<1>1. /\ w.storage \in Seq(Nat)
      /\ w.size \in Nat /\ w.begun \in BOOLEAN /\ w.ok \in BOOLEAN
  BY Zenon DEF WriterType
<1> QED
  BY <1>1

LEMMA ClearedIs ==
  ASSUME failing \in BOOLEAN, NEW w \in WriterType, NEW x \in Writer!Cleared(w)
  PROVE  /\ x \in WriterType /\ x.begun = w.begun /\ x.size = 0
         /\ x.ok => x.storage = <<>>
         /\ ~x.ok => failing /\ x.storage = w.storage
<1>1. PICK ok \in Writer!Outcomes :
        x = [w EXCEPT !.size = 0, !.ok = ok, !.storage = IF ok THEN <<>> ELSE @]
  BY DEF Writer!Cleared
<1>2. ok \in BOOLEAN /\ (~ok => failing)
  BY DEF Writer!Outcomes
<1> DEFINE storage == IF ok THEN <<>> ELSE w.storage
<1>3. x = [w EXCEPT !.size = 0, !.ok = ok, !.storage = storage]
  BY <1>1
<1>4. /\ storage \in Seq(Nat) /\ 0 \in Nat
      /\ ok => storage = <<>>
      /\ ~ok => storage = w.storage
  BY WriterFields, <1>2
<1> HIDE DEF storage
<1>5. /\ x \in WriterType /\ x.begun = w.begun /\ x.size = 0 /\ x.ok = ok
      /\ x.storage = storage
  BY <1>2, <1>3, <1>4, Zenon DEF WriterType
<1> QED
  BY <1>2, <1>4, <1>5

LEMMA BegunIs ==
  ASSUME failing \in BOOLEAN, NEW w \in WriterType, NEW x \in Writer!Begun(w)
  PROVE  /\ x \in WriterType /\ x.begun = x.ok /\ x.size = 0
         /\ x.ok => x.storage = <<>>
         /\ ~x.ok => failing /\ x.storage = w.storage
<1>1. PICK c \in Writer!Cleared(w) : x = [c EXCEPT !.begun = c.ok]
  BY DEF Writer!Begun
<1>2. /\ c \in WriterType /\ c.size = 0
      /\ c.ok => c.storage = <<>>
      /\ ~c.ok => failing /\ c.storage = w.storage
  BY ClearedIs
<1>3. c.ok \in BOOLEAN
  BY <1>2, WriterFields
<1>4. /\ x \in WriterType /\ x.begun = c.ok /\ x.size = c.size /\ x.ok = c.ok
      /\ x.storage = c.storage
  BY <1>1, <1>2, <1>3, Zenon DEF WriterType
<1> QED
  BY <1>2, <1>4

LEMMA EndedIs ==
  ASSUME failing \in BOOLEAN, NEW w \in WriterType, NEW x \in Writer!Ended(w)
  PROVE  /\ x \in WriterType /\ x.begun = w.begun /\ x.size = w.size
         /\ x.storage = w.storage
<1>1. PICK ok \in Writer!Outcomes : x = [w EXCEPT !.ok = ok]
  BY DEF Writer!Ended
<1>2. ok \in BOOLEAN
  BY DEF Writer!Outcomes
<1> QED
  BY <1>1, <1>2, Zenon DEF WriterType

(* A prefix of what is written. *)
Prefix(bytes, n) == SubSeq(bytes, 1, n)

LEMMA PrefixIs ==
  ASSUME NEW bytes \in Seq(Nat), NEW n \in 0..Len(bytes)
  PROVE  /\ Prefix(bytes, n) \in Seq(Nat) /\ Len(Prefix(bytes, n)) = n
         /\ Prefix(bytes, Len(bytes)) = bytes
<1>1. Prefix(bytes, Len(bytes)) = bytes
  BY SubSeqFull DEF Prefix
<1>2. \A i \in 1..n : bytes[i] \in Nat
  BY ElementOfSeq
<1>3. /\ SubSeq(bytes, 1, n) \in Seq(Nat)
      /\ Len(SubSeq(bytes, 1, n)) = IF 1 <= n THEN n - 1 + 1 ELSE 0
  BY <1>2, SubSeqProperties
<1> QED
  BY <1>1, <1>3 DEF Prefix

LEMMA AppendedIs ==
  ASSUME failing \in BOOLEAN, NEW w \in WriterType, NEW bytes \in Seq(Nat),
         NEW x \in Writer!Appended(w, bytes)
  PROVE  /\ x \in WriterType /\ x.begun = w.begun
         /\ \/ /\ x.storage = w.storage \o bytes /\ x.ok = w.ok
               /\ x.size = w.size + Len(bytes)
            \/ /\ failing /\ ~x.ok
               /\ \E n \in 0..Len(bytes) : x.storage = w.storage \o Prefix(bytes, n)
<1>1. w.storage \in Seq(Nat) /\ w.size \in Nat /\ w.ok \in BOOLEAN /\ Len(bytes) \in Nat
  BY WriterFields
<1>2. CASE x = [w EXCEPT !.storage = @ \o bytes, !.size = @ + Len(bytes)]
  <2> DEFINE storage == w.storage \o bytes
             size == w.size + Len(bytes)
  <2>1. storage \in Seq(Nat) /\ size \in Nat
    <3>1. storage \in Seq(Nat)
      BY <1>1, ConcatProperties, Zenon
    <3> QED
      BY <1>1, <3>1
  <2>2. x = [w EXCEPT !.storage = storage, !.size = size]
    BY <1>2
  <2> HIDE DEF storage, size
  <2>3. /\ x \in WriterType /\ x.begun = w.begun
        /\ x.storage = storage /\ x.ok = w.ok /\ x.size = size
    BY <2>1, <2>2, Zenon DEF WriterType
  <2> QED
    BY <2>3 DEF storage, size
<1>3. CASE failing /\ \E n \in 0..Len(bytes) :
             x = [w EXCEPT !.storage = @ \o SubSeq(bytes, 1, n), !.ok = FALSE]
  <2>1. PICK n \in 0..Len(bytes) :
          x = [w EXCEPT !.storage = @ \o SubSeq(bytes, 1, n), !.ok = FALSE]
    BY <1>3
  <2> DEFINE storage == w.storage \o Prefix(bytes, n)
  <2>2. storage \in Seq(Nat)
    BY <1>1, PrefixIs, ConcatProperties, Zenon
  <2>3. x = [w EXCEPT !.storage = storage, !.ok = FALSE]
    BY <2>1 DEF Prefix
  <2> HIDE DEF storage
  <2>4. /\ x \in WriterType /\ x.begun = w.begun
        /\ x.storage = storage /\ x.ok = FALSE
    BY <2>2, <2>3, Zenon DEF WriterType
  <2> QED
    BY <1>3, <2>4, Zenon DEF storage
<1>4. \/ x = [w EXCEPT !.storage = @ \o bytes, !.size = @ + Len(bytes)]
      \/ failing /\ \E n \in 0..Len(bytes) :
           x = [w EXCEPT !.storage = @ \o SubSeq(bytes, 1, n), !.ok = FALSE]
  BY DEF Writer!Appended
<1> QED
  BY <1>2, <1>3, <1>4

(* What a write leaves: the first one begins, with an empty storage; it     *)
(* stores everything, or, when it fails, a beginning.                       *)
Base(w) == IF w.begun THEN w.storage ELSE <<>>

LEMMA WrittenIs ==
  ASSUME failing \in BOOLEAN, NEW w \in WriterType, NEW bytes \in Seq(Nat),
         NEW x \in Writer!Written(w, bytes)
  PROVE  /\ x \in WriterType
         /\ \/ w.begun /\ ~w.ok /\ x = w
            \/ ~w.begun /\ failing /\ ~x.begun /\ ~x.ok /\ x.storage = w.storage
            \/ /\ x.begun /\ x.ok /\ x.storage = Base(w) \o bytes
               /\ x.size = (IF w.begun THEN w.size ELSE 0) + Len(bytes)
            \/ /\ x.begun /\ ~x.ok /\ failing
               /\ \E n \in 0..Len(bytes) : x.storage = Base(w) \o Prefix(bytes, n)
<1>1. PICK o \in Writer!Opened(w) :
        x \in IF o.ok THEN Writer!Appended(o, bytes) ELSE {o}
  BY DEF Writer!Written
<1>2. CASE w.begun
  <2>1. o = w
    BY <1>1, <1>2 DEF Writer!Opened
  <2>2. CASE w.ok
    <3>1. x \in Writer!Appended(w, bytes)
      BY <1>1, <2>1, <2>2
    <3>2. Base(w) = w.storage
      BY <1>2 DEF Base
    <3> QED
      BY <1>2, <2>2, <3>1, <3>2, AppendedIs
  <2>3. CASE ~w.ok
    BY <1>1, <1>2, <2>1, <2>3
  <2> QED
    BY <2>2, <2>3
<1>3. CASE ~w.begun
  <2>1. o \in Writer!Begun(w)
    BY <1>1, <1>3 DEF Writer!Opened
  <2>2. /\ o \in WriterType /\ o.begun = o.ok /\ o.size = 0
        /\ o.ok => o.storage = <<>>
        /\ ~o.ok => failing /\ o.storage = w.storage
    BY <2>1, BegunIs
  <2>3. CASE o.ok
    <3>1. x \in Writer!Appended(o, bytes)
      BY <1>1, <2>3
    <3>2. Base(w) = o.storage
      BY <1>3, <2>2, <2>3 DEF Base
    <3>3. /\ x \in WriterType /\ x.begun = o.begun
          /\ \/ /\ x.storage = o.storage \o bytes /\ x.ok = o.ok
                /\ x.size = o.size + Len(bytes)
             \/ /\ failing /\ ~x.ok
                /\ \E n \in 0..Len(bytes) : x.storage = o.storage \o Prefix(bytes, n)
      BY <2>2, <3>1, AppendedIs
    <3>4. x.begun /\ 0 + Len(bytes) = o.size + Len(bytes)
      BY <2>2, <2>3, <3>3
    <3> QED
      BY <1>3, <2>3, <3>2, <3>3, <3>4, Zenon
  <2>4. CASE ~o.ok
    BY <1>1, <1>3, <2>2, <2>4
  <2> QED
    BY <2>3, <2>4
<1> QED
  BY <1>2, <1>3

-----------------------------------------------------------------------------
(* Between the copies. *)
LEMMA NoCopyIs ==
  /\ Writer!NoCopy \in CopyType /\ Writer!NoCopy.op = "none"
  /\ Writer!NoCopy.active = FALSE /\ Writer!NoCopy.ok = TRUE
<1>1. <<>> \in Seq(Nat)
  OBVIOUS
<1> QED
  BY <1>1 DEF Writer!NoCopy, CopyType

LEMMA NoCopyInProgress ==
  ASSUME failing' \in BOOLEAN, writer' \in WriterType, Len(writer'.storage) <= MaxStored,
         source' \in SourceType, SourceIsSound(source'), SizeIsStored',
         copy' = Writer!NoCopy
  PROVE  WritingInv'
<1>1. copy' \in CopyType /\ copy'.op = "none" /\ copy'.active = FALSE
  BY NoCopyIs
<1>2. WritingType'
  BY <1>1 DEF WritingType
<1>3. CopySoFar' /\ CopyStored'
  BY <1>1 DEF CopySoFar, CopyStored, Writer!CopyStored
<1> QED
  BY <1>2, <1>3 DEF WritingInv, SourceIsSound

LEMMA StoredSize ==
  ASSUME failing' \in BOOLEAN,
         ~failing' /\ writer'.begun => writer'.size = Len(writer'.storage)
  PROVE  SizeIsStored'
  BY DEF SizeIsStored, Writer!SizeIsStored

LEMMA WritingFacts ==
  ASSUME WritingInv
  PROVE  /\ failing \in BOOLEAN /\ writer \in WriterType
         /\ writer.storage \in Seq(Nat) /\ Len(writer.storage) \in Nat
         /\ Len(writer.storage) <= MaxStored
         /\ writer.size \in Nat /\ writer.begun \in BOOLEAN /\ writer.ok \in BOOLEAN
         /\ source \in SourceType /\ SourceIsSound(source) /\ copy \in CopyType
         /\ ~failing /\ writer.begun => writer.size = Len(writer.storage)
         /\ MaxStored \in Nat /\ MaxWritten \in Nat
<1>1. writer \in WriterType
  BY DEF WritingInv, WritingType
<1> QED
  BY <1>1, WriterFields, WriterAssumption, SizesAssumption
     DEF WritingInv, WritingType, SizeIsStored, Writer!SizeIsStored

LEMMA ClearKeeps ==
  ASSUME WritingInv, Writer!Clear
  PROVE  WritingInv'
<1>1. /\ writer' \in Writer!Cleared(writer)
      /\ copy' = Writer!NoCopy /\ failing' = failing /\ source' = source
  BY DEF Writer!Clear
<1>2. /\ writer' \in WriterType /\ writer'.begun = writer.begun /\ writer'.size = 0
      /\ writer'.ok => writer'.storage = <<>>
      /\ ~writer'.ok => failing /\ writer'.storage = writer.storage
  BY <1>1, WritingFacts, ClearedIs
<1>3. Len(writer'.storage) <= MaxStored /\ SizeIsStored'
  BY <1>1, <1>2, WritingFacts, StoredSize
<1> QED
  BY <1>1, <1>2, <1>3, WritingFacts, NoCopyInProgress

LEMMA BeginKeeps ==
  ASSUME WritingInv, Writer!Begin
  PROVE  WritingInv'
<1>1. /\ writer' \in Writer!Begun(writer)
      /\ copy' = Writer!NoCopy /\ failing' = failing /\ source' = source
  BY DEF Writer!Begin
<1>2. /\ writer' \in WriterType /\ writer'.begun = writer'.ok /\ writer'.size = 0
      /\ writer'.ok => writer'.storage = <<>>
      /\ ~writer'.ok => failing /\ writer'.storage = writer.storage
  BY <1>1, WritingFacts, BegunIs
<1>3. Len(writer'.storage) <= MaxStored /\ SizeIsStored'
  BY <1>1, <1>2, WritingFacts, StoredSize
<1> QED
  BY <1>1, <1>2, <1>3, WritingFacts, NoCopyInProgress

LEMMA EndKeeps ==
  ASSUME WritingInv, Writer!End
  PROVE  WritingInv'
<1>1. /\ writer' \in Writer!Ended(writer)
      /\ copy' = Writer!NoCopy /\ failing' = failing /\ source' = source
  BY DEF Writer!End
<1>2. /\ writer' \in WriterType /\ writer'.begun = writer.begun
      /\ writer'.size = writer.size /\ writer'.storage = writer.storage
  BY <1>1, WritingFacts, EndedIs
<1>3. Len(writer'.storage) <= MaxStored /\ SizeIsStored'
  BY <1>1, <1>2, WritingFacts, StoredSize
<1> QED
  BY <1>1, <1>2, <1>3, WritingFacts, NoCopyInProgress

(* How long the storage is after a write, and what size_ is then. *)
LEMMA WrittenLength ==
  ASSUME WritingInv, NEW bytes \in Seq(Nat), NEW x \in Writer!Written(writer, bytes)
  PROVE  /\ x \in WriterType
         /\ Len(x.storage) \in Nat
         /\ Len(x.storage) <= Len(writer.storage) + Len(bytes)
         /\ ~failing /\ x.begun => x.size = Len(x.storage)
<1>1. /\ failing \in BOOLEAN /\ writer \in WriterType
      /\ writer.storage \in Seq(Nat) /\ Len(writer.storage) \in Nat
      /\ Len(bytes) \in Nat /\ writer.size \in Nat
      /\ ~failing /\ writer.begun => writer.size = Len(writer.storage)
  BY WritingFacts
<1>2. /\ x \in WriterType
      /\ \/ writer.begun /\ ~writer.ok /\ x = writer
         \/ ~writer.begun /\ failing /\ ~x.begun /\ ~x.ok /\ x.storage = writer.storage
         \/ /\ x.begun /\ x.ok /\ x.storage = Base(writer) \o bytes
            /\ x.size = (IF writer.begun THEN writer.size ELSE 0) + Len(bytes)
         \/ /\ x.begun /\ ~x.ok /\ failing
            /\ \E n \in 0..Len(bytes) : x.storage = Base(writer) \o Prefix(bytes, n)
  BY <1>1, WrittenIs
<1>3. /\ Base(writer) \in Seq(Nat) /\ Len(Base(writer)) \in Nat
      /\ Len(Base(writer)) = IF writer.begun THEN Len(writer.storage) ELSE 0
  BY <1>1 DEF Base
<1>4. ASSUME NEW more \in Seq(Nat)
      PROVE  Len(Base(writer) \o more) = Len(Base(writer)) + Len(more)
  BY <1>3, ConcatProperties, Zenon
<1>5. CASE writer.begun /\ ~writer.ok /\ x = writer
  BY <1>1, <1>5
<1>6. CASE ~writer.begun /\ failing /\ ~x.begun /\ ~x.ok /\ x.storage = writer.storage
  BY <1>1, <1>2, <1>6
<1>7. CASE /\ x.begun /\ x.ok /\ x.storage = Base(writer) \o bytes
           /\ x.size = (IF writer.begun THEN writer.size ELSE 0) + Len(bytes)
  <2>1. Len(x.storage) = Len(Base(writer)) + Len(bytes)
    BY <1>4, <1>7
  <2> QED
    BY <1>1, <1>2, <1>3, <1>7, <2>1
<1>8. CASE /\ x.begun /\ ~x.ok /\ failing
           /\ \E n \in 0..Len(bytes) : x.storage = Base(writer) \o Prefix(bytes, n)
  <2>1. PICK n \in 0..Len(bytes) : x.storage = Base(writer) \o Prefix(bytes, n)
    BY <1>8
  <2>2. Prefix(bytes, n) \in Seq(Nat) /\ Len(Prefix(bytes, n)) = n
    BY PrefixIs
  <2>3. Len(x.storage) = Len(Base(writer)) + n
    BY <1>4, <2>1, <2>2
  <2> QED
    BY <1>1, <1>2, <1>3, <1>8, <2>3
<1> QED
  BY <1>2, <1>5, <1>6, <1>7, <1>8

LEMMA ZerosAre ==
  ASSUME NEW n \in Nat, NEW bytes \in Writer!Zeros(n)
  PROVE  bytes \in Seq(Nat) /\ Len(bytes) \in 0..n
<1>1. PICK k \in 0..n : bytes = [i \in 1..k |-> 0]
  BY DEF Writer!Zeros
<1> QED
  BY <1>1

LEMMA WriteDataKeeps ==
  ASSUME WritingInv, NEW bytes \in Writer!Zeros(2), Writer!WriteData(bytes)
  PROVE  WritingInv'
<1>1. /\ writer' \in Writer!Written(writer, bytes)
      /\ Len(writer.storage) + Len(bytes) <= MaxStored
      /\ copy' = Writer!NoCopy /\ failing' = failing /\ source' = source
  BY DEF Writer!WriteData
<1>2. bytes \in Seq(Nat) /\ Len(bytes) \in Nat
  BY ZerosAre
<1>3. /\ writer' \in WriterType
      /\ Len(writer'.storage) \in Nat
      /\ Len(writer'.storage) <= Len(writer.storage) + Len(bytes)
      /\ ~failing /\ writer'.begun => writer'.size = Len(writer'.storage)
  BY <1>1, <1>2, WrittenLength
<1>4. Len(writer'.storage) <= MaxStored /\ SizeIsStored'
  BY <1>1, <1>2, <1>3, WritingFacts, StoredSize
<1> QED
  BY <1>1, <1>3, <1>4, WritingFacts, NoCopyInProgress

LEMMA WriteNegativeKeeps ==
  ASSUME WritingInv, Writer!WriteNegative
  PROVE  WritingInv'
<1>1. /\ writer' \in Writer!Opened(writer)
      /\ copy' = Writer!NoCopy /\ failing' = failing /\ source' = source
  BY DEF Writer!WriteNegative
<1>2. CASE writer.begun
  <2>1. writer' = writer
    BY <1>1, <1>2 DEF Writer!Opened
  <2>2. SizeIsStored'
    BY <1>1, <2>1, WritingFacts, StoredSize
  <2> QED
    BY <1>1, <2>1, <2>2, WritingFacts, NoCopyInProgress
<1>3. CASE ~writer.begun
  <2>1. writer' \in Writer!Begun(writer)
    BY <1>1, <1>3 DEF Writer!Opened
  <2>2. /\ writer' \in WriterType /\ writer'.begun = writer'.ok /\ writer'.size = 0
        /\ writer'.ok => writer'.storage = <<>>
        /\ ~writer'.ok => failing /\ writer'.storage = writer.storage
    BY <2>1, WritingFacts, BegunIs
  <2>3. Len(writer'.storage) <= MaxStored /\ SizeIsStored'
    BY <1>1, <2>2, WritingFacts, StoredSize
  <2> QED
    BY <1>1, <2>2, <2>3, WritingFacts, NoCopyInProgress
<1> QED
  BY <1>2, <1>3

LEMMA ReaderIs ==
  ASSUME NEW bytes \in Seq(Nat), Len(bytes) <= MaxWritten,
         NEW told \in {-1, Len(bytes)}
  PROVE  /\ Writer!Reader(bytes, told) \in SourceType
         /\ SourceIsSound(Writer!Reader(bytes, told))
<1> DEFINE atEnd == told = 0
           r == Writer!Reader(bytes, told)
<1>1. atEnd \in BOOLEAN /\ (atEnd <=> told = 0) /\ told \in Nat \cup {-1}
  OBVIOUS
<1>2. r = [data |-> bytes, total |-> told, offset |-> 0, done |-> atEnd, error |-> FALSE]
  BY DEF Writer!Reader
<1> HIDE DEF atEnd, r
<1>3. r \in SourceType
  BY <1>1, <1>2 DEF SourceType
<1>4. /\ r.data = bytes /\ r.total = told /\ r.offset = 0 /\ r.done = atEnd
      /\ r.error = FALSE
  BY <1>2, Zenon
<1>5. SourceIsSound(r)
  BY <1>1, <1>4 DEF SourceIsSound
<1> QED
  BY <1>3, <1>5 DEF r

LEMMA InvalidReaderIs ==
  /\ Writer!InvalidReader \in SourceType
  /\ SourceIsSound(Writer!InvalidReader)
<1> DEFINE r == Writer!Reader(<<>>, -1)
           x == Writer!InvalidReader
<1>1. <<>> \in Seq(Nat) /\ Len(<<>>) = 0 /\ 0 <= MaxWritten
  BY WriterAssumption
<1>2. r \in SourceType /\ r.data = <<>> /\ r.total = -1 /\ r.offset = 0
  BY <1>1, ReaderIs DEF Writer!Reader
<1>3. x = [r EXCEPT !.done = TRUE, !.error = TRUE]
  BY DEF Writer!InvalidReader
<1> HIDE DEF r, x
<1>4. /\ x \in SourceType /\ x.data = r.data /\ x.total = r.total
      /\ x.offset = r.offset /\ x.done = TRUE /\ x.error = TRUE
  BY <1>2, <1>3, Zenon DEF SourceType
<1>5. SourceIsSound(x)
  BY <1>1, <1>2, <1>4 DEF SourceIsSound
<1> QED
  BY <1>4, <1>5 DEF x

LEMMA ReadersAre ==
  ASSUME NEW r \in Writer!Readers
  PROVE  r \in SourceType /\ SourceIsSound(r)
<1>1. PICK bytes \in Writer!Data(MaxWritten) :
        \E told \in {-1, Len(bytes)} : r = Writer!Reader(bytes, told)
  BY DEF Writer!Readers
<1>2. PICK k \in 0..MaxWritten : bytes = [i \in 1..k |-> i]
  BY <1>1 DEF Writer!Data
<1>3. bytes \in Seq(Nat) /\ Len(bytes) <= MaxWritten
  BY <1>2, WriterAssumption
<1> QED
  BY <1>1, <1>3, ReaderIs

LEMMA CreateReaderKeeps ==
  ASSUME WritingInv, Writer!CreateReader
  PROVE  WritingInv'
<1>1. /\ Len(writer.storage) <= MaxWritten
      /\ source' = IF writer.ok
                   THEN Writer!Reader(writer.storage, Len(writer.storage))
                   ELSE Writer!InvalidReader
      /\ copy' = Writer!NoCopy /\ failing' = failing /\ writer' = writer
  BY DEF Writer!CreateReader
<1>2. source' \in SourceType /\ SourceIsSound(source')
  BY <1>1, WritingFacts, ReaderIs, InvalidReaderIs
<1>3. SizeIsStored'
  BY <1>1, WritingFacts, StoredSize
<1> QED
  BY <1>1, <1>2, <1>3, WritingFacts, NoCopyInProgress

LEMMA OtherReaderKeeps ==
  ASSUME WritingInv, Writer!OtherReader
  PROVE  WritingInv'
<1>1. /\ source' \in Writer!Readers
      /\ copy' = Writer!NoCopy /\ failing' = failing /\ writer' = writer
  BY DEF Writer!OtherReader
<1>2. source' \in SourceType /\ SourceIsSound(source')
  BY <1>1, ReadersAre
<1>3. SizeIsStored'
  BY <1>1, WritingFacts, StoredSize
<1> QED
  BY <1>1, <1>2, <1>3, WritingFacts, NoCopyInProgress

-----------------------------------------------------------------------------
(* A copy: what it appends to, and what it has appended. *)
Bases(c) == IF c.begun THEN {c.stored} ELSE {c.stored, <<>>}
Piece(bytes, i, n) == SubSeq(bytes, i + 1, i + n)
Copied(storage, c, bytes, k) ==
  \E base \in Bases(c) : storage = base \o Piece(bytes, c.from, k)

LEMMA CopiedIsCopied ==
  ASSUME NEW k
  PROVE  /\ Writer!CopiedIs(k) <=> Copied(writer.storage, copy, source.data, k)
         /\ Writer!CopiedIs(k)' <=> Copied(writer'.storage, copy', source'.data, k')
  BY DEF Writer!CopiedIs, Writer!CopiedTo, Copied, Bases, Piece

LEMMA PieceIs ==
  ASSUME NEW bytes \in Seq(Nat), NEW i \in Nat, NEW n \in Nat, i + n <= Len(bytes)
  PROVE  /\ Piece(bytes, i, n) \in Seq(Nat) /\ Len(Piece(bytes, i, n)) = n
         /\ \A j \in 1..n : Piece(bytes, i, n)[j] = bytes[i + j]
<1>1. \A j \in (i + 1)..(i + n) : bytes[j] \in Nat
  BY ElementOfSeq
<1>2. /\ SubSeq(bytes, i + 1, i + n) \in Seq(Nat)
      /\ Len(SubSeq(bytes, i + 1, i + n))
           = IF i + 1 <= i + n THEN (i + n) - (i + 1) + 1 ELSE 0
      /\ \A j \in 1..((i + n) - (i + 1) + 1) :
           SubSeq(bytes, i + 1, i + n)[j] = bytes[(i + 1) + j - 1]
  BY <1>1, SubSeqProperties
<1> QED
  BY <1>2 DEF Piece

LEMMA NoPiece ==
  ASSUME NEW bytes \in Seq(Nat), NEW i \in Nat
  PROVE  Piece(bytes, i, 0) = <<>>
<1>1. SubSeq(bytes, i + 1, i) = <<>>
  BY SubSeqEmpty
<1>2. i + 0 = i
  OBVIOUS
<1> QED
  BY <1>1, <1>2 DEF Piece

LEMMA PieceContinues ==
  ASSUME NEW bytes \in Seq(Nat), NEW i \in Nat, NEW n \in Nat, NEW m \in Nat,
         i + n + m <= Len(bytes)
  PROVE  Piece(bytes, i, n) \o Piece(bytes, i + n, m) = Piece(bytes, i, n + m)
<1>1. /\ i + 1 \in 1..(Len(bytes) + 1)
      /\ i + n \in ((i + 1) - 1)..Len(bytes)
      /\ i + n + m \in (i + n)..Len(bytes)
  OBVIOUS
<1>2. SubSeq(bytes, i + 1, i + n) \o SubSeq(bytes, i + n + 1, i + n + m)
        = SubSeq(bytes, i + 1, i + n + m)
  BY <1>1, ConcatAdjacentSubSeq
<1>3. i + (n + m) = i + n + m
  OBVIOUS
<1> QED
  BY <1>2, <1>3 DEF Piece

LEMMA PrefixOfPiece ==
  ASSUME NEW bytes \in Seq(Nat), NEW i \in Nat, NEW n \in Nat, i + n <= Len(bytes),
         NEW m \in 0..n
  PROVE  Prefix(Piece(bytes, i, n), m) = Piece(bytes, i, m)
<1> DEFINE piece == Piece(bytes, i, n)
           less == Piece(bytes, i, m)
<1>1. /\ piece \in Seq(Nat) /\ Len(piece) = n
      /\ \A j \in 1..n : piece[j] = bytes[i + j]
  BY PieceIs
<1>2. /\ less \in Seq(Nat) /\ Len(less) = m
      /\ \A j \in 1..m : less[j] = bytes[i + j]
  BY PieceIs
<1> HIDE DEF piece, less
<1>3. 0 + m <= Len(piece) /\ 0 \in Nat /\ m \in Nat /\ 0 + m = m
  BY <1>1
<1>4. /\ Piece(piece, 0, m) \in Seq(Nat) /\ Len(Piece(piece, 0, m)) = m
      /\ \A j \in 1..m : Piece(piece, 0, m)[j] = piece[0 + j]
  BY <1>1, <1>3, PieceIs
<1>5. Prefix(piece, m) = Piece(piece, 0, m)
  BY <1>3 DEF Prefix, Piece
<1> DEFINE p == Piece(piece, 0, m)
<1>6. p \in Seq(Nat) /\ Len(p) = m
  BY <1>4
<1>7. ASSUME NEW j \in 1..m
      PROVE  p[j] = less[j]
  <2>1. 0 + j = j /\ j \in 1..n
    OBVIOUS
  <2>2. p[j] = piece[0 + j]
    BY <1>4
  <2> HIDE DEF p
  <2> QED
    BY <1>1, <1>2, <2>1, <2>2
<1> HIDE DEF p
<1>8. p = less
  BY <1>2, <1>6, <1>7, SeqEqual
<1> QED
  BY <1>5, <1>8 DEF p, piece, less

LEMMA ConcatNumbers ==
  \A s, t, u \in Seq(Nat) : (s \o t) \o u = s \o (t \o u)
<1> SUFFICES ASSUME NEW s \in Seq(Nat), NEW t \in Seq(Nat), NEW u \in Seq(Nat)
             PROVE  (s \o t) \o u = s \o (t \o u)
  OBVIOUS
<1> QED
  BY ConcatAssociative

LEMMA BasesAre ==
  ASSUME NEW c, c.stored \in Seq(Nat), NEW base \in Bases(c)
  PROVE  base \in Seq(Nat) /\ Len(base) \in Nat /\ Len(base) <= Len(c.stored)
<1>1. base = c.stored \/ base = <<>>
  BY DEF Bases
<1>2. CASE base = <<>>
  <2>1. Len(<<>>) = 0 /\ <<>> \in Seq(Nat) /\ Len(c.stored) \in Nat
    OBVIOUS
  <2> QED
    BY <1>2, <2>1
<1>3. CASE base = c.stored
  BY <1>3
<1> QED
  BY <1>1, <1>2, <1>3

(* What was stored of a source goes on with the next bytes of it. *)
LEMMA CopiedGoesOn ==
  ASSUME NEW c \in CopyType, NEW bytes \in Seq(Nat), NEW storage \in Seq(Nat),
         NEW k \in Nat, Copied(storage, c, bytes, k),
         NEW m \in Nat, c.from + k + m <= Len(bytes)
  PROVE  Copied(storage \o Piece(bytes, c.from + k, m), c, bytes, k + m)
<1>1. c.from \in Nat /\ c.stored \in Seq(Nat)
  BY DEF CopyType
<1>2. PICK base \in Bases(c) : storage = base \o Piece(bytes, c.from, k)
  BY DEF Copied
<1>3. base \in Seq(Nat)
  BY <1>1, <1>2, BasesAre
<1>4. /\ Piece(bytes, c.from, k) \in Seq(Nat)
      /\ Piece(bytes, c.from + k, m) \in Seq(Nat)
  <2>1. c.from + k \in Nat /\ c.from + k <= Len(bytes)
    BY <1>1
  <2> QED
    BY <1>1, <2>1, PieceIs
<1>5. Piece(bytes, c.from, k) \o Piece(bytes, c.from + k, m) = Piece(bytes, c.from, k + m)
  BY <1>1, PieceContinues
<1>6. storage \o Piece(bytes, c.from + k, m) = base \o Piece(bytes, c.from, k + m)
  <2> DEFINE p == Piece(bytes, c.from, k)
             q == Piece(bytes, c.from + k, m)
  <2>1. p \in Seq(Nat) /\ q \in Seq(Nat) /\ storage = base \o p
    BY <1>2, <1>4
  <2> HIDE DEF p, q
  <2>2. (base \o p) \o q = base \o (p \o q)
    BY <1>3, <2>1, ConcatNumbers, Zenon
  <2> QED
    BY <1>5, <2>1, <2>2 DEF p, q
<1> QED
  BY <1>6, Zenon DEF Copied

LEMMA CopiedLength ==
  ASSUME NEW c \in CopyType, NEW bytes \in Seq(Nat), NEW storage \in Seq(Nat),
         NEW k \in Nat, c.from + k <= Len(bytes), Copied(storage, c, bytes, k)
  PROVE  Len(storage) <= Len(c.stored) + Len(bytes)
<1>1. c.from \in Nat /\ c.stored \in Seq(Nat) /\ Len(c.stored) \in Nat /\ Len(bytes) \in Nat
  BY DEF CopyType
<1>2. PICK base \in Bases(c) : storage = base \o Piece(bytes, c.from, k)
  BY DEF Copied
<1>3. base \in Seq(Nat) /\ Len(base) \in Nat /\ Len(base) <= Len(c.stored)
  BY <1>1, <1>2, BasesAre
<1>4. Piece(bytes, c.from, k) \in Seq(Nat) /\ Len(Piece(bytes, c.from, k)) = k
  BY <1>1, PieceIs
<1>5. Len(storage) = Len(base) + Len(Piece(bytes, c.from, k))
  BY <1>2, <1>3, <1>4, ConcatProperties, Zenon
<1> QED
  BY <1>1, <1>3, <1>4, <1>5

(* readIntoBuffer counts what it gives, unless it fails. *)
LEMMA ReadIs ==
  ASSUME source \in SourceType, SourceIsSound(source), ~source.done,
         NEW n \in Nat \ {0}, NEW in \in Writer!ReadIntoBuffer(n)
  PROVE  /\ in.reader \in SourceType /\ SourceIsSound(in.reader)
         /\ in.reader.data = source.data
         /\ in.read \in 0..n
         /\ in.reader.offset >= source.offset + in.read
         /\ in.reader.offset <= source.offset + n
         /\ ~in.reader.error => in.reader.offset = source.offset + in.read
<1> DEFINE rest == Len(source.data) - source.offset
           most == Writer!Least(n, rest)
           After(k, ended, error) ==
             [source EXCEPT !.offset = @ + k, !.done = ended, !.error = error]
<1>1. /\ source.data \in Seq(Nat) /\ Len(source.data) \in Nat
      /\ source.offset \in Nat /\ source.total \in Nat \cup {-1}
  BY DEF SourceType
<1>2. /\ rest \in Nat /\ most \in 0..n /\ most <= rest
      /\ n >= rest => most = rest
  BY <1>1 DEF SourceIsSound, Writer!Least
<1>3. Len(source.data) = source.offset + rest
  BY <1>1
<1> HIDE DEF rest, most
<1>4. ASSUME NEW k \in 0..most, NEW ended \in BOOLEAN, NEW error \in BOOLEAN,
             error => ended, ended /\ ~error => k = rest
      PROVE  /\ After(k, ended, error) \in SourceType
             /\ SourceIsSound(After(k, ended, error))
             /\ After(k, ended, error).data = source.data
             /\ After(k, ended, error).offset = source.offset + k
             /\ After(k, ended, error).error = error
  <2> DEFINE o == source.offset + k
             r == After(k, ended, error)
  <2>1. o \in Nat /\ o <= Len(source.data) /\ (k = rest => o = Len(source.data))
    BY <1>1, <1>2, <1>3
  <2>2. r = [source EXCEPT !.offset = o, !.done = ended, !.error = error]
    OBVIOUS
  <2> HIDE DEF o, r
  <2>3. /\ r \in SourceType /\ r.data = source.data /\ r.total = source.total
        /\ r.offset = o /\ r.done = ended /\ r.error = error
    BY <1>4, <2>1, <2>2, Zenon DEF SourceType
  <2>4. SourceIsSound(r)
    BY <1>4, <2>1, <2>3 DEF SourceIsSound
  <2> QED
    BY <2>3, <2>4 DEF o, r
<1>5. \/ \E ended \in {d \in BOOLEAN : (n > rest => d) /\ (d => n >= rest)} :
           in = [read |-> most, reader |-> After(most, ended, FALSE)]
      \/ \E k \in 0..most : in = [read |-> k, reader |-> After(k, TRUE, TRUE)]
      \/ \E k \in 0..most : in = [read |-> 0, reader |-> After(k, TRUE, TRUE)]
  BY DEF Writer!ReadIntoBuffer, rest, most
<1> HIDE DEF After
<1>6. CASE \E ended \in {d \in BOOLEAN : (n > rest => d) /\ (d => n >= rest)} :
             in = [read |-> most, reader |-> After(most, ended, FALSE)]
  <2>1. PICK ended \in BOOLEAN :
          /\ ended => n >= rest
          /\ in = [read |-> most, reader |-> After(most, ended, FALSE)]
    BY <1>6
  <2>2. in.read = most /\ in.reader = After(most, ended, FALSE)
    BY <2>1
  <2>3. most \in 0..most /\ FALSE \in BOOLEAN /\ (ended => most = rest)
    BY <1>2, <2>1
  <2>4. /\ in.reader \in SourceType /\ SourceIsSound(in.reader)
        /\ in.reader.data = source.data
        /\ in.reader.offset = source.offset + most
    BY <1>4, <2>1, <2>2, <2>3
  <2>5. in.read = most /\ in.reader.offset = source.offset + most
    BY <2>2, <2>4
  <2>6. /\ in.read \in 0..n
        /\ in.reader.offset >= source.offset + in.read
        /\ in.reader.offset <= source.offset + n
        /\ in.reader.offset = source.offset + in.read
    BY <1>1, <1>2, <2>5
  <2> QED
    BY <2>4, <2>6
<1>7. ASSUME NEW k \in 0..most, NEW read \in {0, k},
             in = [read |-> read, reader |-> After(k, TRUE, TRUE)]
      PROVE  /\ in.reader \in SourceType /\ SourceIsSound(in.reader)
             /\ in.reader.data = source.data
             /\ in.read \in 0..n
             /\ in.reader.offset >= source.offset + in.read
             /\ in.reader.offset <= source.offset + n
             /\ in.reader.error
  <2>1. in.read = read /\ in.reader = After(k, TRUE, TRUE)
    BY <1>7
  <2>2. /\ in.reader \in SourceType /\ SourceIsSound(in.reader)
        /\ in.reader.data = source.data
        /\ in.reader.offset = source.offset + k /\ in.reader.error = TRUE
    BY <1>4, <2>1
  <2>3. read \in 0..n /\ k \in Nat /\ k <= n /\ read <= k
    BY <1>2
  <2>4. in.read = read /\ in.reader.offset = source.offset + k
    BY <2>1, <2>2
  <2>5. /\ in.read \in 0..n
        /\ in.reader.offset >= source.offset + in.read
        /\ in.reader.offset <= source.offset + n
    BY <1>1, <2>3, <2>4
  <2> QED
    BY <2>2, <2>5
<1> QED
  BY <1>5, <1>6, <1>7

-----------------------------------------------------------------------------
(* A copy, from its beginning to its end. *)
LEMMA CopyFields ==
  ASSUME NEW c \in CopyType
  PROVE  /\ c.op \in {"none", "copy"} /\ c.active \in BOOLEAN /\ c.max \in Int
         /\ c.remaining \in Int /\ c.ok \in BOOLEAN /\ c.stored \in Seq(Nat)
         /\ c.begun \in BOOLEAN /\ c.from \in Nat
  BY Zenon DEF CopyType

LEMMA SourceFields ==
  ASSUME source \in SourceType, SourceIsSound(source)
  PROVE  /\ source.data \in Seq(Nat) /\ Len(source.data) \in Nat
         /\ source.offset \in Nat /\ source.total \in Nat \cup {-1}
         /\ source.done \in BOOLEAN /\ source.error \in BOOLEAN
         /\ source.offset <= Len(source.data) /\ Len(source.data) <= MaxWritten
<1>1. source.data \in Seq(Nat)
  BY DEF SourceType
<1> QED
  BY <1>1 DEF SourceType, SourceIsSound

(* What has been copied when nothing has been. *)
LEMMA NothingCopied ==
  ASSUME NEW c \in CopyType, NEW bytes \in Seq(Nat)
  PROVE  Copied(c.stored, c, bytes, 0)
<1>1. c.from \in Nat /\ c.stored \in Seq(Nat)
  BY CopyFields
<1>2. Piece(bytes, c.from, 0) = <<>>
  BY <1>1, NoPiece
<1>3. c.stored \o <<>> = c.stored
  BY <1>1, ConcatEmptySeq
<1>4. c.stored \in Bases(c)
  BY DEF Bases
<1> QED
  BY <1>2, <1>3, <1>4 DEF Copied

LEMMA CopyIs ==
  ASSUME WritingInv, NEW max \in Int
  PROVE  /\ Writer!Copy(max) \in CopyType
         /\ Writer!Copy(max).op = "copy" /\ Writer!Copy(max).active = FALSE
         /\ Writer!Copy(max).max = max /\ Writer!Copy(max).ok = TRUE
         /\ Writer!Copy(max).stored = writer.storage
         /\ Writer!Copy(max).begun = writer.begun
         /\ Writer!Copy(max).from = source.offset
<1>1. /\ writer.storage \in Seq(Nat) /\ writer.begun \in BOOLEAN
      /\ source.offset \in Nat
  BY WritingFacts, SourceFields
<1> DEFINE none == Writer!NoCopy
<1>2. none \in CopyType /\ none.active = FALSE /\ none.ok = TRUE
  BY NoCopyIs
<1>3. Writer!Copy(max) =
        [none EXCEPT !.op = "copy", !.max = max, !.stored = writer.storage,
                     !.begun = writer.begun, !.from = source.offset]
  BY DEF Writer!Copy
<1> HIDE DEF none
<1>4. "copy" \in {"none", "copy"}
  OBVIOUS
<1> QED
  BY <1>1, <1>2, <1>3, <1>4, Zenon DEF CopyType

LEMMA BeginCopyKeeps ==
  ASSUME WritingInv, NEW max \in Int, Writer!BeginCopy(max)
  PROVE  WritingInv'
<1> DEFINE new == Writer!Copy(max)
           remaining == IF source.done THEN 0 ELSE Writer!Limit(max)
           most == IF max < 0 THEN MaxWritten + 1 ELSE max
           rest == Len(source.data) - source.offset
           goal == IF max < 0 THEN rest ELSE Least(rest, max)
<1>1. /\ new \in CopyType /\ new.op = "copy" /\ new.max = max /\ new.ok = TRUE
      /\ new.stored = writer.storage /\ new.begun = writer.begun
      /\ new.from = source.offset
  BY CopyIs
<1>2. /\ failing' = failing /\ writer' = writer /\ source' = source
      /\ Len(writer.storage) + Len(source.data) <= MaxStored
      /\ copy' = [new EXCEPT !.active = TRUE, !.remaining = remaining]
  BY DEF Writer!BeginCopy
<1>3. /\ source \in SourceType /\ SourceIsSound(source)
      /\ source.data \in Seq(Nat) /\ Len(source.data) \in Nat
      /\ source.offset \in Nat /\ source.total \in Nat \cup {-1}
      /\ source.offset <= Len(source.data) /\ Len(source.data) <= MaxWritten
      /\ MaxWritten \in Nat
  BY WritingFacts, SourceFields
<1>4. rest \in Nat /\ rest <= MaxWritten /\ most \in Nat /\ goal \in Nat
  BY <1>3 DEF Least
<1>5. remaining \in Int /\ (~source.error => remaining >= 0 /\ remaining \in {most, goal})
  <2>1. CASE source.done
    <3>1. remaining = 0
      BY <2>1
    <3>2. ~source.error => goal = 0
      BY <1>3, <2>1 DEF SourceIsSound, Least
    <3> QED
      BY <3>1, <3>2
  <2>2. CASE ~source.done
    <3>1. remaining = Writer!Limit(max)
      BY <2>2
    <3>2. source.total = -1 \/ source.total = Len(source.data)
      BY <1>3 DEF SourceIsSound
    <3>3. Writer!Limit(max) \in {most, goal}
      BY <1>3, <3>2 DEF Writer!Limit, Writer!Unlimited, Writer!Least, Least
    <3> QED
      BY <1>4, <3>1, <3>3
  <2> QED
    BY <2>1, <2>2
<1> HIDE DEF new, remaining
<1>6. /\ copy' \in CopyType /\ copy'.op = "copy" /\ copy'.active = TRUE
      /\ copy'.max = max /\ copy'.ok = TRUE /\ copy'.stored = writer.storage
      /\ copy'.begun = writer.begun /\ copy'.from = source.offset
      /\ copy'.remaining = remaining
  <2>1. /\ copy' \in CopyType /\ copy'.op = new.op /\ copy'.active = TRUE
        /\ copy'.max = new.max /\ copy'.ok = new.ok /\ copy'.stored = new.stored
        /\ copy'.begun = new.begun /\ copy'.from = new.from
        /\ copy'.remaining = remaining
    BY <1>1, <1>2, <1>5, Zenon DEF CopyType
  <2> QED
    BY <1>1, <2>1
<1>7. /\ WritingType' /\ SourceIsSound(source)' /\ SizeIsStored'
  <2>1. SizeIsStored'
    BY <1>2, WritingFacts, StoredSize
  <2> QED
    BY <1>2, <1>6, <2>1, WritingFacts DEF WritingType, SourceIsSound
<1>8. CopyStored'
  BY <1>6 DEF CopyStored, Writer!CopyStored
<1>9. /\ Progress' = 0 /\ AtMost' = most /\ All' = goal
  BY <1>2, <1>3, <1>6 DEF Progress, AtMost, All, Writer!Unlimited
<1>10. Writer!CopiedIs(0)'
  <2>1. Copied(copy'.stored, copy', source.data, 0)
    BY <1>3, <1>6, NothingCopied
  <2> QED
    BY <1>2, <1>6, <2>1, CopiedIsCopied
<1>11. CopySoFar'
  <2>1. ~source'.error => copy'.remaining >= 0
                          /\ (\/ copy'.remaining = AtMost' - Progress'
                              \/ copy'.remaining = All' - Progress')
    BY <1>2, <1>4, <1>5, <1>6, <1>9
  <2>2. /\ Writer!CopiedIs(Progress)'
        /\ \E k \in 0..Progress' : Writer!CopiedIs(k)' /\ Progress' - k <= ChunkSize
    <3>1. 0 \in 0..Progress' /\ Progress' - 0 <= ChunkSize
      BY <1>9, WriterAssumption
    <3> QED
      BY <1>9, <1>10, <3>1
  <2>3. Len(copy'.stored) + Len(source'.data) <= MaxStored
    BY <1>2, <1>6
  <2>4. copy'.from <= source'.offset
    BY <1>2, <1>3, <1>6
  <2> QED
    BY <1>2, <1>6, <1>9, <2>1, <2>2, <2>3, <2>4 DEF CopySoFar
<1> QED
  BY <1>7, <1>8, <1>11 DEF WritingInv

LEMMA BadWriterKeeps ==
  ASSUME WritingInv, NEW max \in Int, Writer!BadWriter(max)
  PROVE  WritingInv'
<1> DEFINE new == Writer!Copy(max)
<1>1. /\ new \in CopyType /\ new.op = "copy" /\ new.active = FALSE /\ new.max = max
      /\ new.stored = writer.storage /\ new.begun = writer.begun
      /\ new.from = source.offset
  BY CopyIs
<1>2. /\ failing' = failing /\ writer' = writer /\ source' = source
      /\ copy' = [new EXCEPT !.ok = FALSE]
  BY DEF Writer!BadWriter
<1>3. /\ source.data \in Seq(Nat) /\ source.offset \in Nat
  BY WritingFacts, SourceFields
<1> HIDE DEF new
<1>4. /\ copy' \in CopyType /\ copy'.op = "copy" /\ copy'.active = FALSE
      /\ copy'.ok = FALSE /\ copy'.stored = writer.storage
      /\ copy'.from = source.offset
  <2>1. /\ copy' \in CopyType /\ copy'.op = new.op /\ copy'.active = new.active
        /\ copy'.ok = FALSE /\ copy'.stored = new.stored /\ copy'.from = new.from
    BY <1>1, <1>2, Zenon DEF CopyType
  <2> QED
    BY <1>1, <2>1
<1>5. /\ WritingType' /\ SourceIsSound(source)' /\ SizeIsStored'
  <2>1. SizeIsStored'
    BY <1>2, WritingFacts, StoredSize
  <2> QED
    BY <1>2, <1>4, <2>1, WritingFacts DEF WritingType, SourceIsSound
<1>6. Writer!CopiedIs(0)'
  <2>1. Copied(copy'.stored, copy', source.data, 0)
    BY <1>3, <1>4, NothingCopied
  <2> QED
    BY <1>2, <1>4, <2>1, CopiedIsCopied
<1>7. CopyStored'
  <2>1. source'.offset - copy'.from = 0
    BY <1>2, <1>3, <1>4
  <2>2. \E k \in 0..(source'.offset - copy'.from) :
          Writer!CopiedIs(k)' /\ source'.offset - copy'.from - k <= ChunkSize
    <3>1. 0 \in 0..0 /\ 0 - 0 <= ChunkSize
      BY WriterAssumption
    <3> QED
      BY <1>6, <2>1, <3>1
  <2> QED
    BY <1>4, <2>2 DEF CopyStored, Writer!CopyStored
<1>8. CopySoFar'
  <2>1. copy'.from <= source'.offset /\ ~copy'.active
    BY <1>2, <1>3, <1>4
  <2> QED
    BY <2>1, Zenon DEF CopySoFar
<1> QED
  BY <1>5, <1>7, <1>8 DEF WritingInv

(* A chunk: what is stored of it continues what was, all of it while        *)
(* nothing fails.                                                           *)
LEMMA ChunkWritten ==
  ASSUME WritingInv, copy.active, writer.ok, ~source.error,
         NEW n \in Nat, source.offset + n <= Len(source.data),
         NEW x \in Writer!Written(writer, Piece(source.data, source.offset, n))
  PROVE  /\ x \in WriterType
         /\ copy.begun => x.begun
         /\ ~x.begun => x.storage = copy.stored /\ ~x.ok
         /\ \E m \in 0..n :
              /\ Copied(x.storage, copy, source.data, Progress + m)
              /\ x.ok => m = n
<1> DEFINE bytes == Piece(source.data, source.offset, n)
           passed == Progress
<1>1. /\ failing \in BOOLEAN /\ writer \in WriterType /\ copy \in CopyType
      /\ writer.storage \in Seq(Nat)
      /\ source.data \in Seq(Nat) /\ source.offset \in Nat
      /\ copy.from \in Nat /\ copy.stored \in Seq(Nat)
      /\ copy.begun \in BOOLEAN /\ writer.begun \in BOOLEAN
  BY WritingFacts, SourceFields, CopyFields
<1>2. bytes \in Seq(Nat) /\ Len(bytes) = n
  BY <1>1, PieceIs
<1>3. /\ copy.from <= source.offset
      /\ copy.begun => writer.begun
      /\ ~writer.begun => writer.storage = copy.stored /\ Progress = 0
      /\ Copied(writer.storage, copy, source.data, Progress)
  BY CopiedIsCopied DEF WritingInv, CopySoFar
<1>4. passed \in Nat /\ copy.from + passed = source.offset
  BY <1>1, <1>3 DEF Progress
<1>5. Base(writer) \in Seq(Nat) /\ Copied(Base(writer), copy, source.data, passed)
  <2>1. CASE writer.begun
    BY <1>1, <1>3, <2>1 DEF Base
  <2>2. CASE ~writer.begun
    <3>1. Base(writer) = <<>> /\ <<>> \in Bases(copy) /\ passed = 0
      BY <1>3, <2>2 DEF Base, Bases
    <3>2. Piece(source.data, copy.from, 0) = <<>> /\ <<>> \o <<>> = <<>>
      BY <1>1, NoPiece
    <3> QED
      BY <3>1, <3>2 DEF Copied
  <2> QED
    BY <2>1, <2>2
<1>6. ASSUME NEW m \in 0..n
      PROVE  /\ Prefix(bytes, m) = Piece(source.data, copy.from + passed, m)
             /\ Copied(Base(writer) \o Prefix(bytes, m), copy, source.data, passed + m)
  <2>1. Prefix(bytes, m) = Piece(source.data, copy.from + passed, m)
    BY <1>1, <1>4, PrefixOfPiece
  <2>2. m \in Nat /\ copy.from + passed + m <= Len(source.data)
    <3>1. Len(source.data) \in Nat /\ source.offset + n <= Len(source.data)
      BY <1>1
    <3>2. copy.from + passed + m = source.offset + m
      BY <1>4
    <3> QED
      BY <1>1, <3>1, <3>2
  <2> HIDE DEF passed, bytes
  <2>3. Copied(Base(writer) \o Piece(source.data, copy.from + passed, m), copy,
               source.data, passed + m)
    BY <1>1, <1>4, <1>5, <2>2, CopiedGoesOn
  <2> QED
    BY <2>1, <2>3
<1>7. x \in Writer!Written(writer, bytes)
  OBVIOUS
<1> HIDE DEF bytes
<1>8. /\ x \in WriterType
      /\ \/ writer.begun /\ ~writer.ok /\ x = writer
         \/ ~writer.begun /\ failing /\ ~x.begun /\ ~x.ok /\ x.storage = writer.storage
         \/ /\ x.begun /\ x.ok /\ x.storage = Base(writer) \o bytes
            /\ x.size = (IF writer.begun THEN writer.size ELSE 0) + Len(bytes)
         \/ /\ x.begun /\ ~x.ok /\ failing
            /\ \E m \in 0..Len(bytes) : x.storage = Base(writer) \o Prefix(bytes, m)
  BY <1>1, <1>2, <1>7, WrittenIs
<1>9. Prefix(bytes, n) = bytes /\ n \in 0..n /\ 0 \in 0..n /\ passed + 0 = passed
  BY <1>2, <1>4, PrefixIs
<1> HIDE DEF passed
<1>10. CASE ~writer.begun /\ ~x.begun /\ ~x.ok /\ x.storage = writer.storage
  <2>1. Copied(x.storage, copy, source.data, passed + 0)
    BY <1>3, <1>9, <1>10 DEF passed
  <2> QED
    BY <1>3, <1>8, <1>9, <1>10, <2>1 DEF passed
<1>11. CASE x.begun /\ x.ok /\ x.storage = Base(writer) \o bytes
  <2>1. Copied(x.storage, copy, source.data, passed + n)
    BY <1>6, <1>9, <1>11
  <2> QED
    BY <1>8, <1>9, <1>11, <2>1 DEF passed
<1>12. CASE /\ x.begun /\ ~x.ok
            /\ \E m \in 0..Len(bytes) : x.storage = Base(writer) \o Prefix(bytes, m)
  <2>1. PICK m \in 0..n : x.storage = Base(writer) \o Prefix(bytes, m)
    BY <1>2, <1>12
  <2>2. Copied(x.storage, copy, source.data, passed + m)
    BY <1>6, <2>1
  <2> QED
    BY <1>8, <1>12, <2>2 DEF passed
<1> QED
  BY <1>8, <1>10, <1>11, <1>12

LEMMA CopyChunkKeeps ==
  ASSUME WritingInv, Writer!CopyChunk
  PROVE  WritingInv'
<1> DEFINE n == Writer!ChunkOf(copy.remaining)
<1>1. PICK in \in Writer!ReadIntoBuffer(n) :
        /\ source' = in.reader
        /\ writer' \in Writer!Written(writer,
             SubSeq(source.data, source.offset + 1, source.offset + in.read))
        /\ copy' = [copy EXCEPT !.remaining = @ - in.read]
  BY DEF Writer!CopyChunk
<1>2. /\ copy.active /\ copy.remaining # 0 /\ ~source.done /\ writer.ok
      /\ failing' = failing
  BY DEF Writer!CopyChunk, Writer!Copying
<1>3. /\ failing \in BOOLEAN /\ writer \in WriterType /\ copy \in CopyType
      /\ source \in SourceType /\ SourceIsSound(source)
      /\ source.data \in Seq(Nat) /\ source.offset \in Nat
      /\ Len(source.data) \in Nat /\ source.offset <= Len(source.data)
      /\ copy.from \in Nat /\ copy.remaining \in Int /\ copy.max \in Int
      /\ copy.stored \in Seq(Nat) /\ Len(copy.stored) \in Nat /\ MaxStored \in Nat
  BY WritingFacts, SourceFields, CopyFields
<1>4. /\ ~source.error /\ copy.remaining > 0 /\ copy.op = "copy" /\ copy.ok
      /\ copy.remaining = AtMost - Progress \/ copy.remaining = All - Progress
      /\ copy.from <= source.offset
      /\ Len(copy.stored) + Len(source.data) <= MaxStored
  <2>1. ~source.error
    BY <1>2, <1>3 DEF SourceIsSound
  <2>2. /\ copy.op = "copy" /\ copy.ok /\ copy.remaining >= 0
        /\ copy.remaining = AtMost - Progress \/ copy.remaining = All - Progress
        /\ copy.from <= source.offset
        /\ Len(copy.stored) + Len(source.data) <= MaxStored
    BY <1>2, <2>1 DEF WritingInv, CopySoFar
  <2>3. copy.remaining > 0
    BY <1>2, <1>3, <2>2
  <2> QED
    BY <2>1, <2>2, <2>3
<1>5. n \in Nat \ {0} /\ n <= copy.remaining /\ n <= ChunkSize
  BY <1>3, <1>4, WriterAssumption DEF Writer!ChunkOf, Writer!Least
<1> HIDE DEF n
<1>6. /\ source' \in SourceType /\ SourceIsSound(source')
      /\ source'.data = source.data
      /\ in.read \in 0..n
      /\ source'.offset >= source.offset + in.read
      /\ source'.offset <= source.offset + n
      /\ ~source'.error => source'.offset = source.offset + in.read
  <2>1. source' = in.reader
    BY <1>1
  <2>2. /\ in.reader \in SourceType /\ SourceIsSound(in.reader)
        /\ in.reader.data = source.data
        /\ in.read \in 0..n
        /\ in.reader.offset >= source.offset + in.read
        /\ in.reader.offset <= source.offset + n
        /\ ~in.reader.error => in.reader.offset = source.offset + in.read
    BY <1>2, <1>3, <1>5, ReadIs
  <2> QED
    BY <2>1, <2>2
<1>7. /\ source'.offset \in Nat /\ source'.offset <= Len(source.data)
      /\ in.read \in Nat /\ n \in Nat
  <2>1. source'.offset \in Nat /\ source'.offset <= Len(source'.data)
    BY <1>6, Zenon DEF SourceType, SourceIsSound
  <2> QED
    BY <1>5, <1>6, <2>1
<1>8. source.offset + in.read <= Len(source.data)
  BY <1>3, <1>6, <1>7
<1> DEFINE bytes == Piece(source.data, source.offset, in.read)
           remaining == copy.remaining - in.read
<1>9. writer' \in Writer!Written(writer, bytes)
  BY <1>1 DEF Piece
<1>10. bytes \in Seq(Nat) /\ Len(bytes) = in.read
  BY <1>3, <1>7, <1>8, PieceIs
<1>11. /\ writer' \in WriterType
       /\ copy.begun => writer'.begun
       /\ ~writer'.begun => writer'.storage = copy.stored /\ ~writer'.ok
       /\ \E m \in 0..in.read :
            /\ Copied(writer'.storage, copy, source.data, Progress + m)
            /\ writer'.ok => m = in.read
  BY <1>2, <1>4, <1>7, <1>8, <1>9, ChunkWritten
<1>12. ~failing /\ writer'.begun => writer'.size = Len(writer'.storage)
  BY <1>9, <1>10, WrittenLength
<1> HIDE DEF bytes
<1>13. remaining \in Int /\ remaining >= 0 /\ copy' = [copy EXCEPT !.remaining = remaining]
  BY <1>1, <1>3, <1>5, <1>6
<1> HIDE DEF remaining
<1>14. /\ copy' \in CopyType /\ copy'.op = copy.op /\ copy'.active = copy.active
       /\ copy'.max = copy.max /\ copy'.ok = copy.ok /\ copy'.stored = copy.stored
       /\ copy'.begun = copy.begun /\ copy'.from = copy.from
       /\ copy'.remaining = remaining
  BY <1>3, <1>13, Zenon DEF CopyType
<1>15. PICK m \in Nat :
         /\ m <= in.read
         /\ Copied(writer'.storage, copy, source.data, Progress + m)
         /\ writer'.ok => m = in.read
  BY <1>7, <1>11
<1>16. /\ Progress \in Nat /\ Progress' \in Nat
       /\ Progress + in.read <= Progress' /\ Progress' <= Progress + n
       /\ ~source'.error => Progress' = Progress + in.read
  <2>1. Progress' = source'.offset - copy.from /\ Progress = source.offset - copy.from
    BY <1>14 DEF Progress
  <2>2. /\ source.offset \in Nat /\ copy.from \in Nat /\ source'.offset \in Nat
        /\ in.read \in Nat /\ n \in Nat /\ copy.from <= source.offset
        /\ source'.offset >= source.offset + in.read
        /\ source'.offset <= source.offset + n
        /\ ~source'.error => source'.offset = source.offset + in.read
    BY <1>3, <1>4, <1>6, <1>7
  <2> QED
    BY <2>1, <2>2
<1>17. AtMost' = AtMost /\ All' = All
  BY <1>6, <1>14 DEF AtMost, All, Writer!Unlimited
<1>18. PICK k \in Nat : k = Progress + m
  BY <1>16
<1>19. /\ k \in 0..Progress' /\ Progress' - k <= ChunkSize
       /\ k \in Nat /\ copy.from + k <= Len(source.data)
  <2>1. copy.from + Progress = source.offset
    BY <1>3 DEF Progress
  <2>2. m \in Nat /\ m <= in.read
    BY <1>15
  <2>3. /\ Progress \in Nat /\ Progress' \in Nat /\ in.read \in Nat /\ n \in Nat
        /\ Progress + in.read <= Progress' /\ Progress' <= Progress + n
        /\ n <= ChunkSize /\ ChunkSize \in Nat
    BY <1>5, <1>7, <1>16, WriterAssumption
  <2>4. k \in 0..Progress' /\ Progress' - k <= ChunkSize
    <3> DEFINE p == Progress
               q == Progress'
               read == in.read
    <3>1. /\ p \in Nat /\ q \in Nat /\ read \in Nat /\ k = p + m
          /\ p + read <= q /\ q <= p + n
          /\ n <= ChunkSize /\ m <= read
      BY <1>18, <2>2, <2>3
    <3> HIDE DEF p, q, read
    <3>2. k \in 0..q /\ q - k <= ChunkSize
      BY <2>2, <2>3, <3>1
    <3> QED
      BY <3>2 DEF q
  <2>5. /\ copy.from \in Nat /\ source.offset \in Nat /\ Len(source.data) \in Nat
        /\ source.offset + in.read <= Len(source.data)
    BY <1>3, <1>8
  <2>6. copy.from + k <= Len(source.data)
    BY <1>18, <2>1, <2>2, <2>3, <2>5
  <2> QED
    BY <2>4, <2>6
<1>20. Copied(writer'.storage, copy', source'.data, k)
  <2>1. Copied(writer'.storage, copy, source.data, k)
    BY <1>15, <1>18
  <2> QED
    BY <1>6, <1>14, <2>1 DEF Copied, Bases
<1>21. Writer!CopiedIs(k)'
  BY <1>20 DEF Writer!CopiedIs, Writer!CopiedTo, Copied, Bases, Piece
<1>22. WritingType' /\ SourceIsSound(source)' /\ SizeIsStored'
  <2>1. Len(writer'.storage) <= Len(copy.stored) + Len(source.data)
    <3>1. writer'.storage \in Seq(Nat)
      BY <1>11, WriterFields
    <3>2. Copied(writer'.storage, copy, source.data, k)
      BY <1>15, <1>18
    <3> QED
      BY <1>3, <1>19, <3>1, <3>2, CopiedLength
  <2>2. Len(writer'.storage) <= MaxStored
    <3>1. Len(writer'.storage) \in Nat
      BY <1>11, WriterFields
    <3>2. /\ Len(copy.stored) \in Nat /\ Len(source.data) \in Nat /\ MaxStored \in Nat
          /\ Len(copy.stored) + Len(source.data) <= MaxStored
      BY <1>3, <1>4
    <3> DEFINE i == Len(writer'.storage)
               j == Len(copy.stored) + Len(source.data)
    <3>3. i \in Nat /\ i <= j /\ j <= MaxStored
      BY <2>1, <3>1, <3>2
    <3>4. j \in Nat
      <4> DEFINE a == Len(copy.stored)
                 b == Len(source.data)
      <4>1. a \in Nat /\ b \in Nat /\ j = a + b
        BY <3>2
      <4> HIDE DEF a, b, j
      <4> QED
        BY <4>1
    <3> HIDE DEF i, j
    <3>5. i <= MaxStored
      BY <3>2, <3>3, <3>4
    <3> QED
      BY <3>5 DEF i
  <2>3. SizeIsStored'
    BY <1>2, <1>3, <1>12, StoredSize
  <2> QED
    BY <1>2, <1>3, <1>6, <1>11, <1>14, <2>2, <2>3 DEF WritingType, SourceIsSound
<1>23. CopyStored'
  BY <1>2, <1>4, <1>14 DEF CopyStored, Writer!CopyStored
<1>24. CopySoFar'
  <2>1. copy'.op = "copy" /\ copy'.active /\ copy'.ok
    BY <1>2, <1>4, <1>14
  <2>2. copy'.from <= source'.offset
    BY <1>3, <1>4, <1>6, <1>7, <1>14
  <2>3. Len(copy'.stored) + Len(source'.data) <= MaxStored
    BY <1>4, <1>6, <1>14
  <2>4. /\ copy'.begun => writer'.begun
        /\ ~writer'.begun => writer'.storage = copy'.stored /\ ~writer'.ok
    BY <1>11, <1>14
  <2>5. ~source'.error => /\ copy'.remaining >= 0
                          /\ \/ copy'.remaining = AtMost' - Progress'
                             \/ copy'.remaining = All' - Progress'
    <3>1. AtMost \in Int /\ All \in Int
      BY <1>3, WriterAssumption DEF AtMost, All, Writer!Unlimited, Least
    <3>2. remaining = copy.remaining - in.read
      BY DEF remaining
    <3>3. /\ copy'.remaining = remaining /\ remaining >= 0 /\ copy.remaining \in Int
          /\ copy.remaining = AtMost - Progress \/ copy.remaining = All - Progress
          /\ in.read \in Nat /\ Progress \in Nat
      BY <1>3, <1>4, <1>7, <1>13, <1>14, <1>16
    <3>4. ~source'.error => Progress' = Progress + in.read
      BY <1>16
    <3> QED
      BY <1>17, <3>1, <3>2, <3>3, <3>4
  <2>6. writer'.ok /\ ~source'.error => Writer!CopiedIs(Progress)'
    <3> SUFFICES ASSUME writer'.ok, ~source'.error PROVE Writer!CopiedIs(Progress)'
      OBVIOUS
    <3>1. k = Progress'
      <4>1. m = in.read /\ Progress' = Progress + in.read
        BY <1>15, <1>16
      <4> QED
        BY <1>18, <4>1
    <3>2. Copied(writer'.storage, copy', source'.data, Progress')
      BY <1>20, <3>1
    <3> QED
      BY <3>2 DEF Writer!CopiedIs, Writer!CopiedTo, Copied, Bases, Piece
  <2>7. \E i \in 0..Progress' : Writer!CopiedIs(i)' /\ Progress' - i <= ChunkSize
    BY <1>19, <1>21, Zenon
  <2> QED
    BY <2>1, <2>2, <2>3, <2>4, <2>5, <2>6, <2>7, Zenon DEF CopySoFar
<1> QED
  BY <1>22, <1>23, <1>24 DEF WritingInv

(* The copy ends: with all there was, all that was asked for, or an error.  *)
LEMMA CopyReturnsKeeps ==
  ASSUME WritingInv, Writer!CopyReturns
  PROVE  WritingInv'
<1> DEFINE ok == writer.ok /\ ~source.error
           rest == Len(source.data) - copy.from
           goal == IF copy.max < 0 THEN rest ELSE Least(rest, copy.max)
<1>1. /\ copy.active
      /\ ~(copy.remaining # 0 /\ ~source.done /\ writer.ok)
      /\ failing' = failing /\ source' = source
      /\ writer' = [writer EXCEPT !.ok = ok]
      /\ copy' = [copy EXCEPT !.active = FALSE, !.ok = writer'.ok]
  BY DEF Writer!CopyReturns, Writer!Copying
<1>2. /\ writer \in WriterType /\ copy \in CopyType
      /\ writer.storage \in Seq(Nat) /\ Len(writer.storage) \in Nat
      /\ Len(writer.storage) <= MaxStored
      /\ writer.ok \in BOOLEAN /\ source.error \in BOOLEAN
      /\ source \in SourceType /\ SourceIsSound(source)
      /\ Len(source.data) \in Nat /\ source.offset \in Nat
      /\ source.offset <= Len(source.data) /\ Len(source.data) <= MaxWritten
      /\ MaxWritten \in Nat /\ copy.from \in Nat /\ copy.max \in Int
      /\ copy.remaining \in Int
      /\ ~failing /\ writer.begun => writer.size = Len(writer.storage)
  BY WritingFacts, SourceFields, CopyFields
<1>3. /\ copy.op = "copy" /\ copy.from <= source.offset
      /\ ~source.error => /\ copy.remaining >= 0
                          /\ \/ copy.remaining = AtMost - Progress
                             \/ copy.remaining = All - Progress
      /\ ok => Writer!CopiedIs(Progress)
      /\ \E k \in 0..Progress : Writer!CopiedIs(k) /\ Progress - k <= ChunkSize
  BY <1>1 DEF WritingInv, CopySoFar
<1>4. ok \in BOOLEAN
  BY <1>2, Zenon
<1>5. ok => Progress = goal
  <2> SUFFICES ASSUME ok PROVE Progress = goal
    OBVIOUS
  <2>1. copy.remaining = 0 \/ source.offset = Len(source.data)
    BY <1>1, <1>2 DEF SourceIsSound
  <2>2. ~source.error
    OBVIOUS
  <2> HIDE DEF ok
  <2>3. /\ Progress = source.offset - copy.from
        /\ AtMost = IF copy.max < 0 THEN MaxWritten + 1 ELSE copy.max
        /\ All = goal
    BY DEF Progress, AtMost, All, Writer!Unlimited
  <2> DEFINE length == Len(source.data)
             at == source.offset
             from == copy.from
             max == copy.max
             remaining == copy.remaining
  <2>4. /\ length \in Nat /\ at \in Nat /\ from \in Nat /\ max \in Int /\ MaxWritten \in Nat
        /\ at <= length /\ length <= MaxWritten /\ from <= at
    BY <1>2, <1>3
  <2>5. /\ goal = IF max < 0 THEN length - from
                  ELSE IF length - from < max THEN length - from ELSE max
        /\ Progress = at - from
        /\ AtMost = IF max < 0 THEN MaxWritten + 1 ELSE max
    BY <2>3 DEF Least
  <2>6. /\ remaining = 0 \/ at = length
        /\ remaining >= 0
        /\ remaining = AtMost - Progress \/ remaining = goal - Progress
    BY <1>3, <2>1, <2>2, <2>3
  <2> HIDE DEF goal, length, at, from, max, remaining
  <2> QED
    BY <2>4, <2>5, <2>6
<1> HIDE DEF ok
<1>6. /\ writer' \in WriterType /\ writer'.storage = writer.storage
      /\ writer'.size = writer.size /\ writer'.begun = writer.begun /\ writer'.ok = ok
  BY <1>1, <1>2, <1>4, Zenon DEF WriterType
<1>7. /\ copy' \in CopyType /\ copy'.op = copy.op /\ copy'.active = FALSE
      /\ copy'.max = copy.max /\ copy'.ok = ok /\ copy'.stored = copy.stored
      /\ copy'.begun = copy.begun /\ copy'.from = copy.from
  <2>1. copy' = [copy EXCEPT !.active = FALSE, !.ok = ok]
    BY <1>1, <1>6
  <2> QED
    BY <1>2, <1>4, <2>1, Zenon DEF CopyType
<1>8. ASSUME NEW k, Writer!CopiedIs(k)
      PROVE  Writer!CopiedTo' = Writer!CopiedTo
             /\ \E base \in Writer!CopiedTo' :
                  writer'.storage =
                    base \o SubSeq(source'.data, copy'.from + 1, copy'.from + k)
  BY <1>1, <1>6, <1>7, <1>8 DEF Writer!CopiedIs, Writer!CopiedTo
<1>9. WritingType' /\ SourceIsSound(source)' /\ SizeIsStored'
  <2>1. SizeIsStored'
    BY <1>1, <1>2, <1>6, WritingFacts, StoredSize
  <2> QED
    BY <1>1, <1>2, <1>6, <1>7, <2>1, WritingFacts DEF WritingType, SourceIsSound
<1>10. CopySoFar'
  <2>1. copy'.from <= source'.offset /\ ~copy'.active
    BY <1>1, <1>3, <1>7
  <2> QED
    BY <2>1, Zenon DEF CopySoFar
<1>11. CopyStored'
  <2>1. ok => Writer!CopiedIs(goal)'
    <3> SUFFICES ASSUME ok PROVE Writer!CopiedIs(goal)'
      OBVIOUS
    <3>1. goal' = goal
      BY <1>1, <1>7 DEF Least
    <3>2. Writer!CopiedIs(goal)
      BY <1>3, <1>5
    <3> HIDE DEF goal
    <3>3. \E base \in Writer!CopiedTo' :
            writer'.storage =
              base \o SubSeq(source'.data, copy'.from + 1, copy'.from + goal)
      BY <1>8, <3>2
    <3> QED
      BY <3>1, <3>3 DEF Writer!CopiedIs
  <2>2. \E k \in 0..Progress' : Writer!CopiedIs(k)' /\ Progress' - k <= ChunkSize
    <3>1. PICK k \in 0..Progress : Writer!CopiedIs(k) /\ Progress - k <= ChunkSize
      BY <1>3
    <3>2. Progress' = Progress
      BY <1>1, <1>7 DEF Progress
    <3>3. Writer!CopiedIs(k)'
      BY <1>8, <3>1 DEF Writer!CopiedIs
    <3> QED
      BY <3>1, <3>2, <3>3
  <2>3. Progress' = source'.offset - copy'.from
    BY DEF Progress
  <2>4. goal' = IF copy'.max < 0 THEN Len(source'.data) - copy'.from
                ELSE Writer!Least(Len(source'.data) - copy'.from, copy'.max)
    BY DEF Least, Writer!Least
  <2>5. ok => Writer!CopiedIs(IF copy.max < 0 THEN Len(source.data) - copy.from
                ELSE Writer!Least(Len(source.data) - copy.from, copy.max))'
    BY <2>1 DEF Least, Writer!Least
  <2> QED
    BY <1>7, <2>2, <2>3, <2>5 DEF CopyStored, Writer!CopyStored
<1> QED
  BY <1>9, <1>10, <1>11 DEF WritingInv

-----------------------------------------------------------------------------
(* The writing as a whole. *)
LEMMA WriterGoneKeeps ==
  ASSUME WriterGone
  PROVE  WritingInv'
<1>1. /\ failing' = FALSE /\ writer' = NoWriter
      /\ source' = Writer!InvalidReader /\ copy' = Writer!NoCopy
  BY DEF WriterGone
<1>2. writer' \in WriterType /\ Len(writer'.storage) <= MaxStored
  <2>1. <<>> \in Seq(Nat) /\ Len(<<>>) = 0 /\ 0 <= MaxStored
    BY WriterAssumption, SizesAssumption
  <2> QED
    BY <1>1, <2>1 DEF NoWriter, WriterType
<1>3. SizeIsStored'
  BY <1>1 DEF NoWriter, SizeIsStored, Writer!SizeIsStored
<1> QED
  BY <1>1, <1>2, <1>3, InvalidReaderIs, NoCopyInProgress

LEMMA WritingUnchanged ==
  ASSUME WritingInv, UNCHANGED writing
  PROVE  WritingInv'
<1>1. failing' = failing /\ writer' = writer /\ source' = source /\ copy' = copy
  BY DEF writing
<1> QED
  BY <1>1 DEF WritingInv, WritingType, SourceIsSound, SizeIsStored, CopySoFar,
              CopyStored, Writer!SizeIsStored, Writer!CopyStored, Progress, AtMost,
              All, Writer!Unlimited, Writer!CopiedIs, Writer!CopiedTo

LEMMA NextWritingInv ==
  ASSUME WritingInv, [ResponseNext]_all
  PROVE  WritingInv'
<1>1. CASE WriteBody
  <2>1. CASE Writer!Clear
    BY <2>1, ClearKeeps
  <2>2. CASE Writer!Begin
    BY <2>2, BeginKeeps
  <2>3. CASE Writer!End
    BY <2>3, EndKeeps
  <2>4. CASE Writer!WriteNegative
    BY <2>4, WriteNegativeKeeps
  <2>5. CASE Writer!CreateReader
    BY <2>5, CreateReaderKeeps
  <2>6. CASE Writer!OtherReader
    BY <2>6, OtherReaderKeeps
  <2>7. ASSUME NEW bytes \in Writer!Zeros(2), Writer!WriteData(bytes)
        PROVE  WritingInv'
    BY <2>7, WriteDataKeeps
  <2>8. ASSUME NEW max \in -1..MaxWritten, Writer!BeginCopy(max) \/ Writer!BadWriter(max)
        PROVE  WritingInv'
    <3>1. max \in Int
      BY WriterAssumption
    <3> QED
      BY <2>8, <3>1, BeginCopyKeeps, BadWriterKeeps
  <2>9. CASE Writer!CopyChunk
    BY <2>9, CopyChunkKeeps
  <2>10. CASE Writer!CopyReturns
    BY <2>10, CopyReturnsKeeps
  <2> QED
    BY <1>1, <2>1, <2>2, <2>3, <2>4, <2>5, <2>6, <2>7, <2>8, <2>9, <2>10
       DEF WriteBody, Writer!Next, Writer!Step
<1>2. CASE SetBodyReader
  BY <1>2, WriterGoneKeeps DEF SetBodyReader
<1>3. CASE UNCHANGED writing
  BY <1>3, WritingUnchanged
<1> QED
  BY <1>1, <1>2, <1>3
     DEF ResponseNext, UseReader, GetBody, GetBodyResets, GetBodySteps, GetBodyReads,
         GetBodyReturns, all

LEMMA InitWritingInv == ResponseInit => WritingInv
<1> SUFFICES ASSUME ResponseInit PROVE WritingInv
  OBVIOUS
<1>1. copy = Writer!NoCopy
  BY DEF ResponseInit, Writer!Init
<1>2. CASE Writer!Init
  <2>1. PICK stored \in Writer!Zeros(1) :
          writer = [storage |-> stored, size |-> 0, begun |-> FALSE, ok |-> TRUE]
    BY <1>2 DEF Writer!Init
  <2>2. stored \in Seq(Nat) /\ Len(stored) \in 0..1
    BY ZerosAre
  <2>3. writer \in WriterType /\ Len(writer.storage) <= MaxStored
    <3>1. writer \in WriterType
      BY <2>1, <2>2 DEF WriterType
    <3>2. MaxStored \in Nat /\ MaxStored >= 1
      BY WriterAssumption, SizesAssumption
    <3>3. Len(stored) <= MaxStored
      <4> DEFINE n == Len(stored)
      <4>1. n \in 0..1
        BY <2>2
      <4> HIDE DEF n
      <4>2. n <= MaxStored
        BY <3>2, <4>1
      <4> QED
        BY <4>2 DEF n
    <3>4. writer.storage = stored
      BY <2>1, Zenon
    <3> QED
      BY <3>1, <3>3, <3>4
  <2>4. failing \in BOOLEAN /\ source \in SourceType /\ SourceIsSound(source)
    BY <1>2, ReadersAre DEF Writer!Init
  <2>5. SizeIsStored
    BY <2>1 DEF SizeIsStored, Writer!SizeIsStored
  <2> QED
    BY <1>1, <2>3, <2>4, <2>5, NoCopyIs
       DEF WritingInv, WritingType, CopySoFar, CopyStored, Writer!CopyStored
<1>3. CASE failing = FALSE /\ writer = NoWriter /\ source = Writer!InvalidReader
  <2>1. writer \in WriterType /\ Len(writer.storage) <= MaxStored
    <3>1. <<>> \in Seq(Nat) /\ Len(<<>>) = 0 /\ 0 <= MaxStored
      BY WriterAssumption, SizesAssumption
    <3> QED
      BY <1>3, <3>1 DEF NoWriter, WriterType
  <2>2. SizeIsStored
    BY <1>3 DEF NoWriter, SizeIsStored, Writer!SizeIsStored
  <2> QED
    BY <1>1, <1>3, <2>1, <2>2, NoCopyIs, InvalidReaderIs
       DEF WritingInv, WritingType, CopySoFar, CopyStored, Writer!CopyStored
<1> QED
  BY <1>2, <1>3 DEF ResponseInit

-----------------------------------------------------------------------------
(* The reader of the body is one that keeps its promises, or there is none  *)
(* yet; getBody reads all of it, from the beginning; what has been copied   *)
(* into the writer goes on with the bytes of the source, none left out and  *)
(* none repeated, and what remains to be copied is counted.                 *)
THEOREM ResponseInvariant == ResponseSpec => []ResponseInv
<1>1. ResponseInit => ResponseInv
  BY InitBodyInv, InitWritingInv DEF ResponseInv, BodyInv
<1>2. ResponseInv /\ [ResponseNext]_all => ResponseInv'
  <2> SUFFICES ASSUME ResponseInv, [ResponseNext]_all PROVE ResponseInv'
    OBVIOUS
  <2>1. BodyInv'
    BY NextBodyInv DEF ResponseInv, BodyInv, WritingInv
  <2>2. WritingInv'
    BY NextWritingInv DEF ResponseInv
  <2> QED
    BY <2>1, <2>2 DEF ResponseInv, BodyInv
<1> QED
  BY <1>1, <1>2, PTL DEF ResponseSpec

(* getSize() of the body writer is what its string holds, whatever was      *)
(* begun, cleared, ended, written and copied before.                        *)
THEOREM WriterCountsWhatItStores == ResponseSpec => []SizeIsStored
<1>1. ResponseInv => SizeIsStored
  BY DEF ResponseInv, WritingInv
<1> QED
  BY <1>1, ResponseInvariant, PTL

(* A copy of a reader into the writer that reports no error has stored all  *)
(* that the reader had, or max_bytes of it; one that reports an error has   *)
(* stored the beginning, and lost a chunk at most.                          *)
THEOREM CopiesAreComplete == ResponseSpec => []CopyStored
<1>1. ResponseInv => CopyStored
  BY DEF ResponseInv, WritingInv
<1> QED
  BY <1>1, ResponseInvariant, PTL

(* What getBody hands out without an error is the whole body, wherever the  *)
(* client had left the reader, but for a reader that failed on its first    *)
(* byte before.                                                             *)
THEOREM GetBodyIsComplete == ResponseSpec => []BodyWhole
<1>1. ResponseInv => BodyWhole
  BY DEF ResponseInv
<1> QED
  BY <1>1, ResponseInvariant, PTL

(* The reader that a response hands out, and getBody uses, gives the bytes  *)
(* of the body in their order.                                              *)
THEOREM BodyReaderKeepsTheOrder == ResponseSpec => []BytesInOrder
<1>1. ResponseInv => BytesInOrder
  BY InvariantOrders DEF ResponseInv, BodyReader, NoReader, NoCall, BytesInOrder
<1> QED
  BY <1>1, ResponseInvariant, PTL

(* A read of the body that comes back with too little, and no error, is at  *)
(* its end.                                                                 *)
THEOREM ShortBodiesAreAtTheEnd == ResponseSpec => []ShortOnlyAtEnd
<1>1. ResponseInv => ShortOnlyAtEnd
  BY DEF ResponseInv, BodyReader, NoReader, ReaderInv, NoCall, ShortOnlyAtEnd, Returned
<1> QED
  BY <1>1, ResponseInvariant, PTL

(* A search in the body stops at the first occurrence of the pattern.       *)
THEOREM BodySearchesStopAtTheFirst == ResponseSpec => []UntilStopsAtFirst
<1>1. ResponseInv => UntilStopsAtFirst
  BY DEF ResponseInv, BodyReader, NoReader, ReaderInv, NoCall, UntilStopsAtFirst, Returned
<1> QED
  BY <1>1, ResponseInvariant, PTL
=============================================================================
