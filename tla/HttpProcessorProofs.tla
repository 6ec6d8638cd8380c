------------------------- MODULE HttpProcessorProofs -------------------------
(***************************************************************************)
(* What HttpProcessor states of a new processor, for responses of any size *)
(* and any number of requests: wherever a response is cut, what is passed  *)
(* on is a beginning of its body, and of a whole, framed response all of   *)
(* it; and what is needed for parsing to throw, or to read beyond the end. *)
(*                                                                         *)
(* The proof is about places: a lemma says which unit of a response is at  *)
(* which place (PartsAre), and the invariant says of each state of the     *)
(* parser at which places it is in it, and what it has passed on then.     *)
(***************************************************************************)
EXTENDS HttpProcessor, SequenceTheorems, TLAPS

-----------------------------------------------------------------------------
(* Where the parts of a response are. *)
UnitType ==
  [kind : {"status", "content-length", "transfer-encoding", "header", "spaces",
           "chunk length", "empty", "byte"},
   value : Nat]

One(b) == IF b THEN 1 ELSE 0
HasLength(r) == r.framing \in {"length", "length and chunked"}
Code(r) == IF r.framing = "no content" THEN 204 ELSE 200

(* The lines of the interim response, and up to the end of the head. *)
InterimEnd(r) == IF r.interim = 0 THEN 0 ELSE 2
HeadEnd(r) ==
  InterimEnd(r) + 2 + One(r.spaces) + One(HasLength(r)) + One(IsChunked(r))

(* The units of the chunks that b bytes of payload come in, and the payload *)
(* up to the end of the chunk that begins there.                            *)
Bounds(r) == {0, r.split, r.size}
Offset(r, b) == IF b = 0 THEN 0 ELSE IF b = r.split THEN b + 2 ELSE b + 4
ChunkEnd(r, b) == IF b = 0 THEN r.split ELSE r.size
Length(r) ==
  HeadEnd(r) + IF IsChunked(r) THEN Offset(r, r.size) + 2 + One(r.trailer) ELSE r.size

-----------------------------------------------------------------------------
(* What a new processor is at, unless the response is an interim one that   *)
(* it does not understand.                                                  *)
Untouched ==
  /\ chunked_response = FALSE /\ chunk_bytes_read = 0 /\ chunk_length = -1
  /\ body = <<>> /\ count = Len(received)

AtStatusLine ==
  /\ response_state = "STATUSLINE"
  /\ Untouched /\ headers = stale
  /\ dit = 1 \/ dit = InterimEnd(sent) + 1

AtInterim ==
  /\ response_state = "HEADERS"
  /\ Untouched /\ headers = stale
  /\ http_code = 100 /\ dit = 2 /\ sent.interim = 100

AtHeaders ==
  /\ response_state = "HEADERS"
  /\ Untouched
  /\ http_code = Code(sent)
  /\ InterimEnd(sent) + 2 <= dit /\ dit <= HeadEnd(sent)
  /\ sent.spaces => dit = InterimEnd(sent) + 2
  /\ headers.chunked <=> stale.chunked \/ (IsChunked(sent) /\ dit = HeadEnd(sent))
  /\ headers.length =
       IF stale.length # -1 THEN stale.length
       ELSE IF HasLength(sent) /\ dit > InterimEnd(sent) + 2 THEN sent.size ELSE -1

AtPlainBody ==
  /\ response_state = "BODY"
  /\ ~chunked_response /\ ~IsChunked(sent)
  /\ dit = HeadEnd(sent) + 1 /\ chunk_bytes_read = 0
  /\ body = <<>> /\ count = Len(received)
  /\ sent.framing = "length" => chunk_length = sent.size

(* Headers of an earlier response make it expect chunks that do not come. *)
AtNoContent ==
  /\ response_state = "CHUNK_LEN"
  /\ sent.framing = "no content"
  /\ dit = HeadEnd(sent) + 1 /\ body = <<>>

(* Before, in, and at the end of a chunk. *)
AtChunk(b) ==
  /\ body = Payload(1, b) /\ count = Len(received) - b
  /\ \/ response_state = "CHUNK_LEN" /\ dit = HeadEnd(sent) + Offset(sent, b) + 1
     \/ /\ response_state = "BODY" /\ dit = HeadEnd(sent) + Offset(sent, b) + 2
        /\ b < sent.size /\ chunk_bytes_left = ChunkEnd(sent, b) - b
     \/ response_state = "CHUNK_END" /\ dit = HeadEnd(sent) + Offset(sent, b) /\ b > 0

AtChunks ==
  /\ IsChunked(sent) /\ chunked_response
  /\ \E b \in Bounds(sent) : AtChunk(b)

AtFooters ==
  /\ response_state = "FOOTERS"
  /\ body = BodySent

AtComplete ==
  /\ response_state = "COMPLETE"
  /\ \E b \in 0..sent.size : body = Payload(1, b) /\ (Framed => b = sent.size)

Understands ==
  \/ /\ line_buffer = FALSE
     /\ \/ AtStatusLine \/ AtInterim
        \/ AtHeaders
        \/ ~sent.spaces /\ (AtPlainBody \/ AtNoContent \/ AtChunks)
  \/ AtFooters \/ AtComplete

(* A 102 (Processing) is taken for a response without a body. *)
MisunderstandsInterim ==
  \/ response_state = "STATUSLINE" /\ dit = 1 /\ line_buffer = FALSE /\ Untouched
  \/ response_state = "HEADERS" /\ dit = 2 /\ http_code = 102 /\ line_buffer = FALSE
     /\ Untouched
  \/ response_state = "BODY" /\ dit = 3 /\ ~chunked_response
     /\ chunk_length = 0 /\ chunk_bytes_read = 0
  \/ response_state = "CHUNK_LEN" /\ dit = 3 /\ line_buffer = FALSE
  \/ response_state \in {"FOOTERS", "COMPLETE"}

-----------------------------------------------------------------------------
(* What holds of every processor, new or not. *)
Received == \E n \in 0..Len(Units(sent)) : received = SubSeq(Units(sent), 1, n)
BytesAreLeft == response_state = "BODY" /\ chunked_response => chunk_bytes_left > 0
Taken == pc \in {"idle", "lost"} => fresh /\ body = <<>>

Passed(n) == body = Payload(1, n)
Parsed ==
  /\ pc = "parse" /\ Fresh =>
       IF sent.interim = 102 THEN MisunderstandsInterim ELSE Understands
  /\ pc = "done" /\ Fresh /\ sent.interim # 102 =>
       \E b \in 0..sent.size : Passed(b) /\ (Whole /\ Framed => b = sent.size)
  /\ pc = "threw" /\ Fresh /\ sent.interim # 102 => body = <<>>

ProcessorInv ==
  TypeOK /\ Received /\ BytesAreLeft /\ Taken /\ Parsed /\ FailsOnlyIf

-----------------------------------------------------------------------------
(* Sequences of units. *)
UnitsOf(r) ==
  {u \in UnitType :
     /\ u.kind = "status" => u.value \in {100, 102, 200, 204}
     /\ u.kind \in {"content-length", "chunk length"} => u.value <= MaxSize
     /\ u.kind = "spaces" => r.spaces}

LEMMA ResponseFields ==
  ASSUME NEW r \in Responses
  PROVE  /\ r.interim \in Interims /\ r.framing \in Framings
         /\ r.spaces \in BOOLEAN /\ r.trailer \in BOOLEAN
         /\ r.size \in Nat /\ r.size <= MaxSize /\ r.split \in Nat
         /\ r.split <= r.size
         /\ IsChunked(r) /\ r.size > 0 => r.split > 0
         /\ ~IsChunked(r) => r.split = 0 /\ ~r.trailer
         /\ r.framing = "no content" => r.size = 0
<1>1. /\ r.interim \in Interims /\ r.framing \in Framings
      /\ r.spaces \in BOOLEAN /\ r.trailer \in BOOLEAN
      /\ r.size \in 0..MaxSize /\ r.split \in 0..MaxSize
      /\ r.split <= r.size
      /\ IsChunked(r) /\ r.size > 0 => r.split > 0
      /\ ~IsChunked(r) => r.split = 0 /\ ~r.trailer
      /\ r.framing = "no content" => r.size = 0
  BY Zenon DEF Responses
<1>2. r.size \in Nat /\ r.size <= MaxSize /\ r.split \in Nat
  <2>1. r.size \in 0..MaxSize /\ r.split \in 0..MaxSize
    BY <1>1
  <2> QED
    BY <2>1, BoundsAssumption
<1> QED
  BY <1>1, <1>2, Zenon

LEMMA OneIs ==
  ASSUME NEW b \in BOOLEAN
  PROVE  One(b) \in {0, 1} /\ (b => One(b) = 1) /\ (~b => One(b) = 0)
  BY DEF One

(* The units there are. *)
LEMMA KindsOfUnits ==
  ASSUME NEW r \in Responses
  PROVE  /\ \A code \in {100, 102, 200, 204} : Status(code) \in UnitsOf(r)
         /\ \A n \in 0..MaxSize : /\ ContentLength(n) \in UnitsOf(r)
                                  /\ ChunkLength(n) \in UnitsOf(r)
         /\ TransferEncoding \in UnitsOf(r) /\ OtherHeader \in UnitsOf(r)
         /\ EmptyLine \in UnitsOf(r)
         /\ r.spaces => SpacesHeader \in UnitsOf(r)
         /\ \A i \in Nat : Byte(i) \in UnitsOf(r)
<1>1. \A n \in 0..MaxSize : n \in Nat /\ n <= MaxSize
  BY BoundsAssumption
<1>2. \A code \in {100, 102, 200, 204} : Status(code) \in UnitsOf(r)
  <2> SUFFICES ASSUME NEW code \in {100, 102, 200, 204}
               PROVE  Status(code) \in UnitsOf(r)
    OBVIOUS
  <2>1. code \in Nat
    OBVIOUS
  <2>2. /\ Status(code) \in UnitType
        /\ Status(code).kind = "status" /\ Status(code).value = code
    BY <2>1 DEF UnitType, Status
  <2> DEFINE u == Status(code)
  <2>3. /\ u \in UnitType
        /\ u.kind = "status" => u.value \in {100, 102, 200, 204}
        /\ u.kind \in {"content-length", "chunk length"} => u.value <= MaxSize
        /\ u.kind = "spaces" => r.spaces
    BY <2>2
  <2> HIDE DEF u
  <2>4. u \in UnitsOf(r)
    BY <2>3, Zenon DEF UnitsOf
  <2> QED
    BY <2>4 DEF u
<1>3. \A n \in 0..MaxSize : ContentLength(n) \in UnitsOf(r) /\ ChunkLength(n) \in UnitsOf(r)
  BY <1>1 DEF UnitsOf, UnitType, ContentLength, ChunkLength
<1>4. TransferEncoding \in UnitsOf(r) /\ OtherHeader \in UnitsOf(r) /\ EmptyLine \in UnitsOf(r)
  BY DEF UnitsOf, UnitType, TransferEncoding, OtherHeader, EmptyLine
<1>5. r.spaces => SpacesHeader \in UnitsOf(r)
  BY DEF UnitsOf, UnitType, SpacesHeader
<1>6. \A i \in Nat : Byte(i) \in UnitsOf(r)
  BY DEF UnitsOf, UnitType, Byte
<1> QED
  BY <1>2, <1>3, <1>4, <1>5, <1>6

LEMMA Joined ==
  ASSUME NEW S, NEW s \in Seq(S), NEW t \in Seq(S)
  PROVE  /\ s \o t \in Seq(S) /\ Len(s \o t) = Len(s) + Len(t)
         /\ Len(s) \in Nat /\ Len(t) \in Nat
         /\ \A i \in 1..Len(s) : (s \o t)[i] = s[i]
         /\ \A j \in 1..Len(t) : (s \o t)[Len(s) + j] = t[j]
<1>1. Len(s) \in Nat /\ Len(t) \in Nat
  OBVIOUS
<1>2. /\ s \o t \in Seq(S) /\ Len(s \o t) = Len(s) + Len(t)
      /\ \A i \in 1..(Len(s) + Len(t)) :
           (s \o t)[i] = IF i <= Len(s) THEN s[i] ELSE t[i - Len(s)]
  BY ConcatProperties, Zenon
<1> DEFINE joined == s \o t
           m == Len(s)
           n == Len(t)
<1> HIDE DEF joined, m, n
<1>3. \A i \in 1..(m + n) : joined[i] = IF i <= m THEN s[i] ELSE t[i - m]
  BY <1>2 DEF joined, m, n
<1>4. m \in Nat /\ n \in Nat
  BY <1>1 DEF m, n
<1>5. ASSUME NEW i \in 1..m
      PROVE  joined[i] = s[i]
  BY <1>3, <1>4
<1>6. ASSUME NEW j \in 1..n
      PROVE  joined[m + j] = t[j]
  <2>1. PICK k \in 1..(m + n) : k = m + j /\ ~(k <= m) /\ k - m = j
    BY <1>4
  <2>2. joined[k] = t[k - m]
    BY <1>3, <2>1
  <2> QED
    BY <2>1, <2>2
<1> QED
  BY <1>1, <1>2, <1>5, <1>6 DEF joined, m, n

LEMMA OneLine ==
  ASSUME NEW S, NEW x \in S
  PROVE  <<x>> \in Seq(S) /\ Len(<<x>>) = 1 /\ <<x>>[1] = x
  OBVIOUS

LEMMA LinesAre ==
  ASSUME NEW S, NEW b \in BOOLEAN, NEW x, b => x \in S
  PROVE  /\ Lines(b, x) \in Seq(S) /\ Len(Lines(b, x)) = One(b)
         /\ b => Lines(b, x)[1] = x
<1>1. CASE b
  BY <1>1, OneLine DEF Lines, One
<1>2. CASE ~b
  BY <1>2, EmptySeq DEF Lines, One
<1> QED
  BY <1>1, <1>2

LEMMA PayloadIs ==
  ASSUME NEW S, \A i \in Nat : Byte(i) \in S,
         NEW from \in Nat \ {0}, NEW to \in Nat, from <= to + 1
  PROVE  /\ Payload(from, to) \in Seq(S) /\ Len(Payload(from, to)) = to - from + 1
         /\ \A i \in 1..(to - from + 1) : Payload(from, to)[i] = Byte(from + i - 1)
<1> DEFINE n == to - from + 1
           payload == [i \in 1..n |-> Byte(from + i - 1)]
<1>1. n \in Nat
  OBVIOUS
<1>2. \A i \in 1..n : from + i - 1 \in Nat
  BY <1>1
<1>3. payload \in [1..n -> S]
  BY <1>2
<1>4. payload \in Seq(S) /\ Len(payload) = n
  BY <1>1, <1>3
<1>5. \A i \in 1..n : payload[i] = Byte(from + i - 1)
  OBVIOUS
<1>6. Payload(from, to) = payload
  BY DEF Payload
<1> HIDE DEF payload
<1> QED
  BY <1>4, <1>5, <1>6

(* A beginning of the payload. *)
LEMMA BeginningIs ==
  ASSUME NEW n \in Nat
  PROVE  /\ Payload(1, n) \in Seq({Byte(i) : i \in Nat}) /\ Len(Payload(1, n)) = n
         /\ \A i \in 1..n : Payload(1, n)[i] = Byte(i)
         /\ n = 0 => Payload(1, n) = <<>>
<1> DEFINE S == {Byte(i) : i \in Nat}
<1>1. \A i \in Nat : Byte(i) \in S
  OBVIOUS
<1> HIDE DEF S
<1>2. 1 \in Nat \ {0} /\ 1 <= n + 1
  OBVIOUS
<1>3. /\ Payload(1, n) \in Seq(S) /\ Len(Payload(1, n)) = n - 1 + 1
      /\ \A i \in 1..(n - 1 + 1) : Payload(1, n)[i] = Byte(1 + i - 1)
  BY <1>1, <1>2, PayloadIs
<1>4. n - 1 + 1 = n /\ \A i \in 1..n : 1 + i - 1 = i
  OBVIOUS
<1>5. Payload(1, n) \in Seq(S) /\ Len(Payload(1, n)) = n
  BY <1>3, <1>4
<1>6. \A i \in 1..n : Payload(1, n)[i] = Byte(i)
  BY <1>3, <1>4
<1>7. n = 0 => Payload(1, n) = <<>>
  BY <1>5
<1> QED
  BY <1>5, <1>6, <1>7 DEF S

LEMMA ChunkIs ==
  ASSUME NEW r \in Responses, NEW from \in Nat \ {0}, NEW to \in Nat,
         to <= MaxSize, from <= to + 1
  PROVE  /\ Chunk(from, to) \in Seq(UnitsOf(r))
         /\ Len(Chunk(from, to)) = IF from > to THEN 0 ELSE to - from + 3
         /\ from <= to =>
              /\ Chunk(from, to)[1] = ChunkLength(to - from + 1)
              /\ \A j \in 1..(to - from + 1) : Chunk(from, to)[1 + j] = Byte(from + j - 1)
              /\ Chunk(from, to)[to - from + 3] = EmptyLine
<1> DEFINE S == UnitsOf(r)
           n == to - from + 1
           a == <<ChunkLength(n)>>
           b == Payload(from, to)
           c == <<EmptyLine>>
<1>1. CASE from > to
  BY <1>1, EmptySeq DEF Chunk
<1>2. CASE from <= to
  <2>1. n \in Nat /\ n \in 0..MaxSize /\ n >= 1
    BY <1>2, BoundsAssumption
  <2>2. ChunkLength(n) \in S /\ EmptyLine \in S /\ \A i \in Nat : Byte(i) \in S
    BY <2>1, KindsOfUnits
  <2> HIDE DEF S
  <2>3. a \in Seq(S) /\ Len(a) = 1 /\ a[1] = ChunkLength(n)
    BY <2>2, OneLine
  <2>4. c \in Seq(S) /\ Len(c) = 1 /\ c[1] = EmptyLine
    BY <2>2, OneLine
  <2>5. b \in Seq(S) /\ Len(b) = n /\ \A i \in 1..n : b[i] = Byte(from + i - 1)
    BY <2>2, PayloadIs
  <2>6. Chunk(from, to) = (a \o b) \o c
    BY <1>2 DEF Chunk
  <2> HIDE DEF a, b, c
  <2> DEFINE ab == a \o b
             abc == ab \o c
  <2>7. /\ ab \in Seq(S) /\ Len(ab) = n + 1 /\ ab[1] = ChunkLength(n)
        /\ \A j \in 1..n : ab[1 + j] = Byte(from + j - 1)
    <3>1. /\ ab \in Seq(S) /\ Len(ab) = Len(a) + Len(b)
          /\ \A i \in 1..Len(a) : ab[i] = a[i]
          /\ \A j \in 1..Len(b) : ab[Len(a) + j] = b[j]
      <4>1. a \in Seq(S) /\ b \in Seq(S)
        BY <2>3, <2>5
      <4> QED
        BY <4>1, Joined
    <3> HIDE DEF ab, n
    <3> QED
      BY <2>1, <2>3, <2>5, <3>1
  <2> HIDE DEF ab
  <2>8. /\ abc \in Seq(S) /\ Len(abc) = n + 2
        /\ \A i \in 1..(n + 1) : abc[i] = ab[i]
        /\ abc[n + 2] = EmptyLine
    <3>1. /\ abc \in Seq(S) /\ Len(abc) = Len(ab) + Len(c)
          /\ \A i \in 1..Len(ab) : abc[i] = ab[i]
          /\ \A j \in 1..Len(c) : abc[Len(ab) + j] = c[j]
      <4>1. ab \in Seq(S) /\ c \in Seq(S)
        BY <2>4, <2>7
      <4> QED
        BY <4>1, Joined
    <3>2. abc[Len(ab) + 1] = c[1] /\ n + 1 + 1 = n + 2
      BY <2>1, <2>4, <3>1
    <3> HIDE DEF abc, n
    <3> QED
      BY <2>1, <2>4, <2>7, <3>1, <3>2
  <2>9. /\ abc[1] = ChunkLength(n)
        /\ \A j \in 1..n : abc[1 + j] = Byte(from + j - 1)
    <3> HIDE DEF abc, n
    <3>1. 1 \in 1..(n + 1) /\ \A j \in 1..n : 1 + j \in 1..(n + 1)
      BY <2>1
    <3> QED
      BY <2>7, <2>8, <3>1
  <2>10. n + 2 = to - from + 3
    OBVIOUS
  <2> HIDE DEF abc
  <2>11. Chunk(from, to) = abc
    BY <2>6 DEF abc, ab
  <2> QED
    BY <1>2, <2>8, <2>9, <2>10, <2>11 DEF S
<1> QED
  BY <1>1, <1>2

(* The three parts of a response. *)
InterimLines(r) == IF r.interim = 0 THEN <<>> ELSE <<Status(r.interim), EmptyLine>>
HeadLines(r) ==
  <<Status(Code(r))>> \o Lines(r.spaces, SpacesHeader)
    \o Lines(HasLength(r), ContentLength(r.size))
    \o Lines(IsChunked(r), TransferEncoding) \o <<EmptyLine>>
Chunks(r) ==
  Chunk(1, r.split) \o Chunk(r.split + 1, r.size) \o <<ChunkLength(0)>>
    \o Lines(r.trailer, OtherHeader) \o <<EmptyLine>>
Content(r) == IF IsChunked(r) THEN Chunks(r) ELSE Payload(1, r.size)

LEMMA InterimLinesAre ==
  ASSUME NEW r \in Responses
  PROVE  /\ InterimLines(r) \in Seq(UnitsOf(r))
         /\ Len(InterimLines(r)) = InterimEnd(r)
         /\ r.interim # 0 => /\ InterimLines(r)[1] = Status(r.interim)
                             /\ InterimLines(r)[2] = EmptyLine
<1> DEFINE S == UnitsOf(r)
<1>1. r.interim \in {0, 100, 102}
  BY ResponseFields DEF Interims
<1>2. r.interim # 0 => Status(r.interim) \in S
  BY <1>1, KindsOfUnits
<1>3. EmptyLine \in S
  BY KindsOfUnits
<1> HIDE DEF S
<1>4. CASE r.interim = 0
  BY <1>4, EmptySeq DEF InterimLines, InterimEnd, S
<1>5. CASE r.interim # 0
  <2> DEFINE x == Status(r.interim)
             y == EmptyLine
  <2>1. x \in S /\ y \in S
    BY <1>2, <1>3, <1>5
  <2>2. InterimLines(r) = <<x, y>>
    BY <1>5 DEF InterimLines
  <2> HIDE DEF x, y
  <2>3. /\ <<x, y>> \in Seq(S) /\ Len(<<x, y>>) = 2
        /\ <<x, y>>[1] = x /\ <<x, y>>[2] = y
    BY <2>1
  <2>4. InterimEnd(r) = 2
    BY <1>5 DEF InterimEnd
  <2> QED
    BY <2>2, <2>3, <2>4 DEF x, y, S
<1> QED
  BY <1>4, <1>5

LEMMA HeadLinesAre ==
  ASSUME NEW r \in Responses
  PROVE  /\ HeadLines(r) \in Seq(UnitsOf(r))
         /\ Len(HeadLines(r)) = HeadEnd(r) - InterimEnd(r)
         /\ HeadLines(r)[1] = Status(Code(r))
         /\ r.spaces => HeadLines(r)[2] = SpacesHeader
         /\ HasLength(r) /\ ~r.spaces => HeadLines(r)[2] = ContentLength(r.size)
         /\ IsChunked(r) =>
              HeadLines(r)[HeadEnd(r) - InterimEnd(r) - 1] = TransferEncoding
         /\ HeadLines(r)[HeadEnd(r) - InterimEnd(r)] = EmptyLine
<1> DEFINE S == UnitsOf(r)
           a == <<Status(Code(r))>>
           b == Lines(r.spaces, SpacesHeader)
           c == Lines(HasLength(r), ContentLength(r.size))
           d == Lines(IsChunked(r), TransferEncoding)
           e == <<EmptyLine>>
           ab == a \o b
           abc == ab \o c
           abcd == abc \o d
           k == One(r.spaces)
           l == One(HasLength(r))
           m == One(IsChunked(r))
<1>1. /\ r.spaces \in BOOLEAN /\ HasLength(r) \in BOOLEAN /\ IsChunked(r) \in BOOLEAN
  <2>1. r.spaces \in BOOLEAN
    BY ResponseFields, Zenon
  <2>2. HasLength(r) \in BOOLEAN
    BY DEF HasLength
  <2>3. IsChunked(r) \in BOOLEAN
    BY DEF IsChunked
  <2> QED
    BY <2>1, <2>2, <2>3, Zenon
<1>2. /\ k \in {0, 1} /\ (r.spaces => k = 1) /\ (~r.spaces => k = 0)
      /\ l \in {0, 1} /\ (HasLength(r) => l = 1) /\ (~HasLength(r) => l = 0)
      /\ m \in {0, 1} /\ (IsChunked(r) => m = 1) /\ (~IsChunked(r) => m = 0)
  BY <1>1, OneIs
<1>3. InterimEnd(r) \in Nat /\ HeadEnd(r) - InterimEnd(r) = 2 + k + l + m
  <2>1. InterimEnd(r) \in Nat
    BY DEF InterimEnd
  <2>2. HeadEnd(r) = InterimEnd(r) + 2 + k + l + m
    BY DEF HeadEnd
  <2> HIDE DEF k, l, m
  <2> QED
    BY <1>2, <2>1, <2>2
<1>4. /\ Status(Code(r)) \in S /\ (r.spaces => SpacesHeader \in S)
      /\ ContentLength(r.size) \in S /\ TransferEncoding \in S /\ EmptyLine \in S
  <2>1. Code(r) \in {100, 102, 200, 204}
    BY DEF Code
  <2>2. r.size \in 0..MaxSize
    <3>1. r.size \in Nat /\ r.size <= MaxSize
      BY ResponseFields
    <3> QED
      BY <3>1, BoundsAssumption
  <2> QED
    BY <2>1, <2>2, KindsOfUnits
<1> HIDE DEF S
<1>5. /\ a \in Seq(S) /\ Len(a) = 1 /\ a[1] = Status(Code(r))
      /\ e \in Seq(S) /\ Len(e) = 1 /\ e[1] = EmptyLine
  BY <1>4, OneLine
<1>6. /\ b \in Seq(S) /\ Len(b) = k /\ (r.spaces => b[1] = SpacesHeader)
      /\ c \in Seq(S) /\ Len(c) = l /\ (HasLength(r) => c[1] = ContentLength(r.size))
      /\ d \in Seq(S) /\ Len(d) = m /\ (IsChunked(r) => d[1] = TransferEncoding)
  BY <1>1, <1>4, LinesAre
<1>7. HeadLines(r) = abcd \o e
  BY DEF HeadLines
<1> HIDE DEF a, b, c, d, e, k, l, m
<1>8. /\ ab \in Seq(S) /\ Len(ab) = 1 + k
      /\ ab[1] = Status(Code(r)) /\ (r.spaces => ab[2] = SpacesHeader)
  <2>1. /\ ab \in Seq(S) /\ Len(ab) = Len(a) + Len(b)
        /\ \A i \in 1..Len(a) : ab[i] = a[i]
        /\ \A j \in 1..Len(b) : ab[Len(a) + j] = b[j]
    <3>1. a \in Seq(S) /\ b \in Seq(S)
      BY <1>5, <1>6
    <3> QED
      BY <3>1, Joined
  <2> HIDE DEF ab
  <2>2. r.spaces => ab[1 + 1] = b[1]
    BY <1>2, <1>5, <1>6, <2>1
  <2> QED
    BY <1>2, <1>5, <1>6, <2>1, <2>2
<1> HIDE DEF ab
<1>9. /\ abc \in Seq(S) /\ Len(abc) = 1 + k + l
      /\ abc[1] = Status(Code(r)) /\ (r.spaces => abc[2] = SpacesHeader)
      /\ HasLength(r) /\ ~r.spaces => abc[2] = ContentLength(r.size)
  <2>1. /\ abc \in Seq(S) /\ Len(abc) = Len(ab) + Len(c)
        /\ \A i \in 1..Len(ab) : abc[i] = ab[i]
        /\ \A j \in 1..Len(c) : abc[Len(ab) + j] = c[j]
    <3>1. ab \in Seq(S) /\ c \in Seq(S)
      BY <1>6, <1>8
    <3> QED
      BY <3>1, Joined
  <2> HIDE DEF abc
  <2>2. HasLength(r) /\ ~r.spaces => abc[1 + 1] = c[1]
    BY <1>2, <1>6, <1>8, <2>1
  <2>3. /\ 1 \in 1..(1 + k) /\ (r.spaces => 2 \in 1..(1 + k)) /\ 1 + 1 = 2
    BY <1>2
  <2>4. abc[1] = ab[1] /\ (r.spaces => abc[2] = ab[2])
    BY <1>8, <2>1, <2>3
  <2> QED
    BY <1>2, <1>6, <1>8, <2>1, <2>2, <2>4
<1> HIDE DEF abc
<1>10. /\ abcd \in Seq(S) /\ Len(abcd) = 1 + k + l + m
       /\ abcd[1] = Status(Code(r)) /\ (r.spaces => abcd[2] = SpacesHeader)
       /\ HasLength(r) /\ ~r.spaces => abcd[2] = ContentLength(r.size)
       /\ IsChunked(r) => abcd[1 + k + l + m] = TransferEncoding
  <2>1. /\ abcd \in Seq(S) /\ Len(abcd) = Len(abc) + Len(d)
        /\ \A i \in 1..Len(abc) : abcd[i] = abc[i]
        /\ \A j \in 1..Len(d) : abcd[Len(abc) + j] = d[j]
    <3>1. abc \in Seq(S) /\ d \in Seq(S)
      BY <1>6, <1>9
    <3> QED
      BY <3>1, Joined
  <2> HIDE DEF abcd
  <2>2. IsChunked(r) => abcd[1 + k + l + 1] = d[1]
    BY <1>2, <1>6, <1>9, <2>1
  <2>3. /\ 1 \in 1..(1 + k + l) /\ (r.spaces => 2 \in 1..(1 + k + l))
        /\ HasLength(r) => 2 \in 1..(1 + k + l)
    BY <1>2
  <2>4. /\ abcd[1] = abc[1] /\ (r.spaces => abcd[2] = abc[2])
        /\ HasLength(r) => abcd[2] = abc[2]
    BY <1>9, <2>1, <2>3
  <2> QED
    BY <1>2, <1>6, <1>9, <2>1, <2>2, <2>4
<1> HIDE DEF abcd
<1> DEFINE h == abcd \o e
           n == 1 + k + l + m
<1>11. /\ h \in Seq(S) /\ Len(h) = n + 1
       /\ \A i \in 1..n : h[i] = abcd[i]
       /\ h[n + 1] = EmptyLine
  <2>1. /\ h \in Seq(S) /\ Len(h) = Len(abcd) + Len(e)
        /\ \A i \in 1..Len(abcd) : h[i] = abcd[i]
        /\ \A j \in 1..Len(e) : h[Len(abcd) + j] = e[j]
    <3>1. abcd \in Seq(S) /\ e \in Seq(S)
      BY <1>5, <1>10
    <3> QED
      BY <3>1, Joined
  <2> HIDE DEF h, n
  <2>2. Len(abcd) = n
    BY <1>10 DEF n
  <2> QED
    BY <1>5, <2>1, <2>2
<1> HIDE DEF h
<1>12. /\ 1 \in 1..n /\ (r.spaces => 2 \in 1..n) /\ (HasLength(r) => 2 \in 1..n)
       /\ n \in 1..n
  BY <1>2
<1>13. /\ HeadEnd(r) - InterimEnd(r) = n + 1 /\ HeadEnd(r) - InterimEnd(r) - 1 = n
  BY <1>2, <1>3
<1> HIDE DEF n
<1>14. /\ h[1] = Status(Code(r)) /\ (r.spaces => h[2] = SpacesHeader)
       /\ HasLength(r) /\ ~r.spaces => h[2] = ContentLength(r.size)
       /\ IsChunked(r) => h[n] = TransferEncoding
  BY <1>10, <1>11, <1>12 DEF n
<1>15. HeadLines(r) = h
  BY <1>7 DEF h
<1> QED
  BY <1>11, <1>13, <1>14, <1>15 DEF S

(* The same with lengths that are known. *)
LEMMA JoinedAt ==
  ASSUME NEW S, NEW s \in Seq(S), NEW t \in Seq(S), NEW m, NEW n,
         Len(s) = m, Len(t) = n
  PROVE  /\ s \o t \in Seq(S) /\ Len(s \o t) = m + n
         /\ m \in Nat /\ n \in Nat
         /\ \A i \in 1..m : (s \o t)[i] = s[i]
         /\ \A j \in 1..n : (s \o t)[m + j] = t[j]
<1>1. s \o t \in Seq(S) /\ Len(s \o t) = Len(s) + Len(t)
  BY Joined
<1>2. Len(s) \in Nat /\ Len(t) \in Nat
  BY Joined
<1>3. \A i \in 1..Len(s) : (s \o t)[i] = s[i]
  BY Joined
<1>4. \A j \in 1..Len(t) : (s \o t)[Len(s) + j] = t[j]
  BY Joined
<1> QED
  BY <1>1, <1>2, <1>3, <1>4, Zenon

(* The bounds of chunks, and what is before them. *)
LEMMA BoundsAre ==
  ASSUME NEW r \in Responses, IsChunked(r), NEW b \in Bounds(r)
  PROVE  /\ b \in Nat /\ b <= r.size
         /\ Offset(r, b) \in Nat /\ Offset(r, b) <= Offset(r, r.size)
         /\ b > 0 => Offset(r, b) > 0
         /\ b < r.size =>
              /\ ChunkEnd(r, b) \in Bounds(r)
              /\ b < ChunkEnd(r, b) /\ ChunkEnd(r, b) <= r.size
              /\ Offset(r, ChunkEnd(r, b)) = Offset(r, b) + (ChunkEnd(r, b) - b) + 2
<1>1. /\ r.size \in Nat /\ r.split \in Nat /\ r.split <= r.size
      /\ r.size > 0 => r.split > 0
  BY ResponseFields
<1>2. b = 0 \/ b = r.split \/ b = r.size
  BY DEF Bounds
<1> DEFINE size == r.size
           split == r.split
<1> QED
  BY <1>1, <1>2 DEF Bounds, Offset, ChunkEnd

LEMMA ChunksAre ==
  ASSUME NEW r \in Responses, IsChunked(r)
  PROVE  /\ Chunks(r) \in Seq(UnitsOf(r))
         /\ Len(Chunks(r)) = Offset(r, r.size) + 2 + One(r.trailer)
         /\ Chunks(r)[Offset(r, r.size) + 1] = ChunkLength(0)
         /\ r.trailer => Chunks(r)[Offset(r, r.size) + 2] = OtherHeader
         /\ Chunks(r)[Offset(r, r.size) + 2 + One(r.trailer)] = EmptyLine
         /\ \A b \in Bounds(r) : b < r.size =>
              LET n == ChunkEnd(r, b) - b
                  o == Offset(r, b)
              IN  /\ Chunks(r)[o + 1] = ChunkLength(n)
                  /\ \A j \in 1..n : Chunks(r)[o + 1 + j] = Byte(b + j)
                  /\ Chunks(r)[o + n + 2] = EmptyLine
<1> DEFINE S == UnitsOf(r)
           p == IF 1 > r.split THEN 0 ELSE r.split + 2
           q == IF r.split + 1 > r.size THEN 0 ELSE r.size - r.split + 2
           t == One(r.trailer)
           c == Chunk(1, r.split)
           d == Chunk(r.split + 1, r.size)
           z == <<ChunkLength(0)>>
           l == Lines(r.trailer, OtherHeader)
           e == <<EmptyLine>>
           cd == c \o d
           cdz == cd \o z
           cdzl == cdz \o l
           all == cdzl \o e
<1>1. /\ r.size \in Nat /\ r.size <= MaxSize /\ r.split \in Nat /\ r.split <= r.size
      /\ r.size > 0 => r.split > 0
  BY ResponseFields
<1>2. r.trailer \in BOOLEAN
  BY ResponseFields, Zenon
<1>3. t \in {0, 1} /\ (r.trailer => t = 1) /\ (~r.trailer => t = 0)
  BY <1>2, OneIs
<1>4. p \in Nat /\ q \in Nat /\ p = Offset(r, r.split) /\ p + q = Offset(r, r.size)
  BY <1>1 DEF Offset
<1>5. MaxSize \in Nat
  BY BoundsAssumption
<1>6. /\ c \in Seq(S) /\ Len(c) = p
      /\ 1 <= r.split =>
           /\ c[1] = ChunkLength(r.split)
           /\ \A j \in 1..r.split : c[1 + j] = Byte(j)
           /\ c[r.split + 2] = EmptyLine
  <2>1. 1 \in Nat \ {0} /\ r.split \in Nat /\ r.split <= MaxSize /\ 1 <= r.split + 1
    BY <1>1, <1>5
  <2>2. /\ Chunk(1, r.split) \in Seq(UnitsOf(r))
        /\ Len(Chunk(1, r.split)) = IF 1 > r.split THEN 0 ELSE r.split - 1 + 3
        /\ 1 <= r.split =>
             /\ Chunk(1, r.split)[1] = ChunkLength(r.split - 1 + 1)
             /\ \A j \in 1..(r.split - 1 + 1) : Chunk(1, r.split)[1 + j] = Byte(1 + j - 1)
             /\ Chunk(1, r.split)[r.split - 1 + 3] = EmptyLine
    BY <2>1, ChunkIs
  <2>3. /\ r.split - 1 + 3 = r.split + 2 /\ r.split - 1 + 1 = r.split
        /\ \A j \in 1..r.split : 1 + j - 1 = j
    BY <1>1
  <2> QED
    BY <2>2, <2>3
<1>7. /\ d \in Seq(S) /\ Len(d) = q
      /\ r.split < r.size =>
           /\ d[1] = ChunkLength(r.size - r.split)
           /\ \A j \in 1..(r.size - r.split) : d[1 + j] = Byte(r.split + j)
           /\ d[r.size - r.split + 2] = EmptyLine
  <2>1. PICK from \in Nat \ {0} : from = r.split + 1
    BY <1>1
  <2>2. r.size \in Nat /\ r.size <= MaxSize /\ from <= r.size + 1
    BY <1>1, <2>1
  <2>3. /\ Chunk(from, r.size) \in Seq(UnitsOf(r))
        /\ Len(Chunk(from, r.size)) = IF from > r.size THEN 0 ELSE r.size - from + 3
        /\ from <= r.size =>
             /\ Chunk(from, r.size)[1] = ChunkLength(r.size - from + 1)
             /\ \A j \in 1..(r.size - from + 1) :
                  Chunk(from, r.size)[1 + j] = Byte(from + j - 1)
             /\ Chunk(from, r.size)[r.size - from + 3] = EmptyLine
    BY <2>2, ChunkIs
  <2>4. /\ r.size - from + 3 = r.size - r.split + 2 /\ r.size - from + 1 = r.size - r.split
        /\ \A j \in 1..(r.size - r.split) : from + j - 1 = r.split + j
        /\ from <= r.size <=> r.split < r.size
    BY <1>1, <2>1
  <2>5. d = Chunk(from, r.size)
    BY <2>1
  <2> HIDE DEF d
  <2>6. Len(d) = q
    BY <1>1, <2>1, <2>3, <2>4, <2>5
  <2> QED
    BY <2>3, <2>4, <2>5, <2>6
<1>8. /\ ChunkLength(0) \in S /\ OtherHeader \in S /\ EmptyLine \in S
  BY <1>5, KindsOfUnits
<1> HIDE DEF S, p, q, t
<1>9. /\ z \in Seq(S) /\ Len(z) = 1 /\ z[1] = ChunkLength(0)
      /\ e \in Seq(S) /\ Len(e) = 1 /\ e[1] = EmptyLine
  BY <1>8, OneLine
<1>10. l \in Seq(S) /\ Len(l) = t /\ (r.trailer => l[1] = OtherHeader)
  BY <1>2, <1>8, LinesAre DEF t
<1>11. Chunks(r) = all
  BY DEF Chunks
<1> HIDE DEF c, d, z, l, e
<1>12. /\ cd \in Seq(S) /\ Len(cd) = p + q
       /\ \A i \in 1..p : cd[i] = c[i]
       /\ \A j \in 1..q : cd[p + j] = d[j]
  BY <1>6, <1>7, JoinedAt
<1> HIDE DEF cd
<1>13. /\ cdz \in Seq(S) /\ Len(cdz) = p + q + 1
       /\ \A i \in 1..(p + q) : cdz[i] = cd[i]
       /\ cdz[p + q + 1] = ChunkLength(0)
  <2>1. /\ cdz \in Seq(S) /\ Len(cdz) = p + q + 1
        /\ \A i \in 1..(p + q) : cdz[i] = cd[i]
        /\ \A j \in 1..1 : cdz[p + q + j] = z[j]
    <3>1. PICK m, n : m = p + q /\ n = 1
      OBVIOUS
    <3>2. cd \in Seq(S) /\ z \in Seq(S) /\ Len(cd) = m /\ Len(z) = n
      BY <3>1, <1>9, <1>12
    <3>3. cd \o z \in Seq(S) /\ Len(cd \o z) = m + n
      BY <3>2, JoinedAt
    <3>4. \A i \in 1..m : (cd \o z)[i] = cd[i]
      BY <3>2, JoinedAt
    <3>5. \A j \in 1..n : (cd \o z)[m + j] = z[j]
      BY <3>2, JoinedAt
    <3> QED
      BY <3>1, <3>3, <3>4, <3>5
  <2> HIDE DEF cdz
  <2> QED
    BY <1>9, <2>1
<1> HIDE DEF cdz
<1>14. /\ cdzl \in Seq(S) /\ Len(cdzl) = p + q + 1 + t
       /\ \A i \in 1..(p + q) : cdzl[i] = cd[i]
       /\ cdzl[p + q + 1] = ChunkLength(0)
       /\ r.trailer => cdzl[p + q + 2] = OtherHeader
  <2>1. /\ cdzl \in Seq(S) /\ Len(cdzl) = p + q + 1 + t
        /\ \A i \in 1..(p + q + 1) : cdzl[i] = cdz[i]
        /\ \A j \in 1..t : cdzl[p + q + 1 + j] = l[j]
    BY <1>10, <1>13, JoinedAt
  <2> HIDE DEF cdzl
  <2>2. r.trailer => cdzl[p + q + 1 + 1] = l[1]
    <3>1. r.trailer => 1 \in 1..t
      BY <1>3
    <3> QED
      BY <2>1, <3>1
  <2>3. p + q + 1 \in 1..(p + q + 1) /\ p + q + 1 + 1 = p + q + 2
        /\ \A i \in 1..(p + q) : i \in 1..(p + q + 1)
    BY <1>4
  <2> QED
    BY <1>10, <1>13, <2>1, <2>2, <2>3
<1> HIDE DEF cdzl
<1>15. /\ all \in Seq(S) /\ Len(all) = p + q + 2 + t
       /\ \A i \in 1..(p + q) : all[i] = cd[i]
       /\ all[p + q + 1] = ChunkLength(0)
       /\ r.trailer => all[p + q + 2] = OtherHeader
       /\ all[p + q + 2 + t] = EmptyLine
  <2>1. /\ all \in Seq(S) /\ Len(all) = p + q + 1 + t + 1
        /\ \A i \in 1..(p + q + 1 + t) : all[i] = cdzl[i]
        /\ \A j \in 1..1 : all[p + q + 1 + t + j] = e[j]
    <3>1. PICK m, n : m = p + q + 1 + t /\ n = 1
      OBVIOUS
    <3>2. cdzl \in Seq(S) /\ e \in Seq(S) /\ Len(cdzl) = m /\ Len(e) = n
      BY <3>1, <1>9, <1>14
    <3>3. cdzl \o e \in Seq(S) /\ Len(cdzl \o e) = m + n
      BY <3>2, JoinedAt
    <3>4. \A i \in 1..m : (cdzl \o e)[i] = cdzl[i]
      BY <3>2, JoinedAt
    <3>5. \A j \in 1..n : (cdzl \o e)[m + j] = e[j]
      BY <3>2, JoinedAt
    <3> QED
      BY <3>1, <3>3, <3>4, <3>5
  <2> HIDE DEF all
  <2>2. all[p + q + 1 + t + 1] = EmptyLine
    BY <1>9, <2>1
  <2>3. t \in {0, 1} /\ (r.trailer => t = 1)
    BY <1>3 DEF t
  <2>4. /\ p + q + 1 \in 1..(p + q + 1 + t) /\ p + q + 1 + t + 1 = p + q + 2 + t
        /\ r.trailer => p + q + 2 \in 1..(p + q + 1 + t)
        /\ \A i \in 1..(p + q) : i \in 1..(p + q + 1 + t)
    BY <1>4, <2>3
  <2> QED
    BY <1>14, <2>1, <2>2, <2>4
<1> HIDE DEF all
<1>16. ASSUME NEW b \in Bounds(r), b < r.size,
              NEW n, n = ChunkEnd(r, b) - b, NEW o, o = Offset(r, b)
       PROVE  /\ all[o + 1] = ChunkLength(n)
              /\ \A j \in 1..n : all[o + 1 + j] = Byte(b + j)
              /\ all[o + n + 2] = EmptyLine
  <2>1. CASE b = 0
    <3>1. o = 0 /\ n = r.split /\ n >= 1 /\ n \in Nat /\ p = n + 2
      BY <1>1, <1>16, <2>1 DEF Offset, ChunkEnd, p
    <3>2. /\ c[1] = ChunkLength(n) /\ c[n + 2] = EmptyLine
          /\ \A j \in 1..n : c[1 + j] = Byte(j)
      BY <1>6, <3>1
    <3>3. \A i \in 1..(n + 2) : all[i] = c[i]
      BY <1>4, <1>12, <1>15, <3>1
    <3>4. /\ 1 \in 1..(n + 2) /\ n + 2 \in 1..(n + 2) /\ o + 1 = 1 /\ o + n + 2 = n + 2
          /\ \A j \in 1..n : 1 + j \in 1..(n + 2) /\ o + 1 + j = 1 + j /\ b + j = j
      BY <2>1, <3>1
    <3> QED
      BY <3>2, <3>3, <3>4
  <2>2. CASE b # 0
    <3>1. /\ b = r.split /\ o = p /\ n = r.size - r.split /\ n >= 1 /\ n \in Nat
          /\ q = n + 2 /\ b \in Nat
      BY <1>1, <1>4, <1>16, <2>2 DEF Bounds, Offset, ChunkEnd, p, q
    <3>2. /\ d[1] = ChunkLength(n) /\ d[n + 2] = EmptyLine
          /\ \A j \in 1..n : d[1 + j] = Byte(b + j)
      BY <1>1, <1>7, <1>16, <3>1
    <3>3. \A i \in 1..(n + 2) : all[o + i] = d[i]
      <4> SUFFICES ASSUME NEW i \in 1..(n + 2)
                   PROVE  all[o + i] = d[i]
        OBVIOUS
      <4>1. PICK k \in 1..(p + q) : k = p + i
        BY <1>4, <3>1
      <4>2. all[k] = cd[k] /\ cd[p + i] = d[i]
        BY <1>12, <1>15, <3>1
      <4> QED
        BY <3>1, <4>1, <4>2
    <3>4. /\ 1 \in 1..(n + 2) /\ n + 2 \in 1..(n + 2) /\ o + n + 2 = o + (n + 2)
          /\ \A j \in 1..n : 1 + j \in 1..(n + 2) /\ o + 1 + j = o + (1 + j)
      BY <1>4, <3>1
    <3> QED
      BY <3>2, <3>3, <3>4
  <2> QED
    BY <2>1, <2>2
<1>17. \A b \in Bounds(r) : b < r.size =>
         LET n == ChunkEnd(r, b) - b
             o == Offset(r, b)
         IN  /\ all[o + 1] = ChunkLength(n)
             /\ \A j \in 1..n : all[o + 1 + j] = Byte(b + j)
             /\ all[o + n + 2] = EmptyLine
  BY <1>16
<1> QED
  BY <1>4, <1>11, <1>15, <1>17, Zenon DEF S, t

LEMMA LengthsAre ==
  ASSUME NEW r \in Responses
  PROVE  /\ InterimEnd(r) \in {0, 2} /\ (r.interim = 0 <=> InterimEnd(r) = 0)
         /\ HeadEnd(r) \in Nat /\ InterimEnd(r) + 2 <= HeadEnd(r)
         /\ r.spaces => InterimEnd(r) + 3 <= HeadEnd(r)
         /\ IsChunked(r) \/ HasLength(r) => InterimEnd(r) + 3 <= HeadEnd(r)
         /\ ~r.spaces /\ ~IsChunked(r) /\ ~HasLength(r) => HeadEnd(r) = InterimEnd(r) + 2
         /\ ~r.spaces /\ ~IsChunked(r) /\ HasLength(r) => HeadEnd(r) = InterimEnd(r) + 3
         /\ ~r.spaces /\ IsChunked(r) /\ ~HasLength(r) => HeadEnd(r) = InterimEnd(r) + 3
         /\ ~r.spaces /\ IsChunked(r) /\ HasLength(r) => HeadEnd(r) = InterimEnd(r) + 4
         /\ Length(r) \in Nat /\ HeadEnd(r) <= Length(r)
         /\ ~IsChunked(r) => Length(r) = HeadEnd(r) + r.size
         /\ IsChunked(r) =>
              Length(r) = HeadEnd(r) + Offset(r, r.size) + 2 + One(r.trailer)
         /\ One(r.trailer) \in {0, 1} /\ (r.trailer <=> One(r.trailer) = 1)
<1> DEFINE k == One(r.spaces)
           l == One(HasLength(r))
           m == One(IsChunked(r))
           t == One(r.trailer)
           o == Offset(r, r.size)
<1>1. /\ r.spaces \in BOOLEAN /\ r.trailer \in BOOLEAN
      /\ HasLength(r) \in BOOLEAN /\ IsChunked(r) \in BOOLEAN
  <2>1. r.spaces \in BOOLEAN /\ r.trailer \in BOOLEAN
    BY ResponseFields, Zenon
  <2>2. HasLength(r) \in BOOLEAN
    BY DEF HasLength
  <2>3. IsChunked(r) \in BOOLEAN
    BY DEF IsChunked
  <2> QED
    BY <2>1, <2>2, <2>3, Zenon
<1>2. /\ k \in {0, 1} /\ (r.spaces => k = 1) /\ (~r.spaces => k = 0)
      /\ l \in {0, 1} /\ (HasLength(r) => l = 1) /\ (~HasLength(r) => l = 0)
      /\ m \in {0, 1} /\ (IsChunked(r) => m = 1) /\ (~IsChunked(r) => m = 0)
      /\ t \in {0, 1} /\ (r.trailer => t = 1) /\ (~r.trailer => t = 0)
  BY <1>1, OneIs
<1>3. r.size \in Nat /\ r.split \in Nat
  BY ResponseFields
<1>4. o \in Nat
  BY <1>3 DEF Offset
<1>5. InterimEnd(r) \in {0, 2} /\ (r.interim = 0 <=> InterimEnd(r) = 0)
  BY DEF InterimEnd
<1>6. HeadEnd(r) = InterimEnd(r) + 2 + k + l + m
  BY DEF HeadEnd
<1>7. /\ IsChunked(r) => Length(r) = HeadEnd(r) + (o + 2 + t)
      /\ ~IsChunked(r) => Length(r) = HeadEnd(r) + r.size
  BY DEF Length
<1> HIDE DEF k, l, m, t, o
<1> DEFINE h == HeadEnd(r)
           i == InterimEnd(r)
<1> HIDE DEF h, i
<1>8. h = i + 2 + k + l + m /\ i \in {0, 2}
  BY <1>5, <1>6 DEF h, i
<1>9. /\ h \in Nat /\ i + 2 <= h
      /\ k = 1 => i + 3 <= h
      /\ m = 1 \/ l = 1 => i + 3 <= h
      /\ k = 0 /\ m = 0 /\ l = 0 => h = i + 2
      /\ k = 0 /\ m = 0 /\ l = 1 => h = i + 3
      /\ k = 0 /\ m = 1 /\ l = 0 => h = i + 3
      /\ k = 0 /\ m = 1 /\ l = 1 => h = i + 4
  BY <1>2, <1>8
<1>10. /\ Length(r) \in Nat /\ h <= Length(r)
       /\ ~IsChunked(r) => Length(r) = h + r.size
       /\ IsChunked(r) => Length(r) = h + o + 2 + t
  BY <1>2, <1>3, <1>4, <1>7, <1>9 DEF h
<1>11. /\ t \in {0, 1} /\ (r.trailer <=> t = 1)
  BY <1>1, <1>2
<1>12. /\ r.spaces => k = 1
       /\ ~r.spaces => k = 0
       /\ HasLength(r) => l = 1
       /\ ~HasLength(r) => l = 0
       /\ IsChunked(r) => m = 1
       /\ ~IsChunked(r) => m = 0
  BY <1>2
<1>13. /\ r.spaces => i + 3 <= h
       /\ IsChunked(r) \/ HasLength(r) => i + 3 <= h
       /\ ~r.spaces /\ ~IsChunked(r) /\ ~HasLength(r) => h = i + 2
       /\ ~r.spaces /\ ~IsChunked(r) /\ HasLength(r) => h = i + 3
       /\ ~r.spaces /\ IsChunked(r) /\ ~HasLength(r) => h = i + 3
       /\ ~r.spaces /\ IsChunked(r) /\ HasLength(r) => h = i + 4
  BY <1>9, <1>12
<1> QED
  BY <1>5, <1>9, <1>10, <1>11, <1>13, Zenon DEF h, i, o, t

LEMMA ContentIs ==
  ASSUME NEW r \in Responses
  PROVE  /\ Content(r) \in Seq(UnitsOf(r))
         /\ Len(Content(r)) = Length(r) - HeadEnd(r)
         /\ ~IsChunked(r) => \A j \in 1..r.size : Content(r)[j] = Byte(j)
<1>1. CASE IsChunked(r)
  <2>1. Chunks(r) \in Seq(UnitsOf(r)) /\ Len(Chunks(r)) = Offset(r, r.size) + 2 + One(r.trailer)
    BY <1>1, ChunksAre
  <2>2. /\ HeadEnd(r) \in Nat /\ One(r.trailer) \in {0, 1}
        /\ Length(r) = HeadEnd(r) + Offset(r, r.size) + 2 + One(r.trailer)
    BY <1>1, LengthsAre
  <2>3. r.size \in Nat /\ r.split \in Nat
    BY ResponseFields
  <2>4. Offset(r, r.size) \in Nat
    BY <2>3 DEF Offset
  <2>5. Length(r) - HeadEnd(r) = Offset(r, r.size) + 2 + One(r.trailer)
    BY <2>2, <2>4
  <2>6. Content(r) = Chunks(r)
    BY <1>1 DEF Content
  <2> QED
    BY <1>1, <2>1, <2>5, <2>6
<1>2. CASE ~IsChunked(r)
  <2>1. r.size \in Nat /\ HeadEnd(r) \in Nat /\ Length(r) = HeadEnd(r) + r.size
    BY <1>2, ResponseFields, LengthsAre
  <2>2. \A i \in Nat : Byte(i) \in UnitsOf(r)
    BY KindsOfUnits
  <2> DEFINE S == UnitsOf(r)
             n == r.size
  <2> HIDE DEF S, n
  <2>3. 1 \in Nat \ {0} /\ n \in Nat /\ 1 <= n + 1 /\ \A i \in Nat : Byte(i) \in S
    BY <2>1, <2>2 DEF S, n
  <2>4. /\ Payload(1, n) \in Seq(S) /\ Len(Payload(1, n)) = n - 1 + 1
        /\ \A i \in 1..(n - 1 + 1) : Payload(1, n)[i] = Byte(1 + i - 1)
    BY <2>3, PayloadIs
  <2>5. n - 1 + 1 = n /\ \A i \in 1..n : 1 + i - 1 = i
    BY <2>3
  <2>6. /\ Payload(1, n) \in Seq(S) /\ Len(Payload(1, n)) = n
        /\ \A i \in 1..n : Payload(1, n)[i] = Byte(i)
    BY <2>4, <2>5
  <2>7. Content(r) = Payload(1, n)
    BY <1>2 DEF Content, n
  <2>8. Length(r) - HeadEnd(r) = n
    BY <2>1 DEF n
  <2> QED
    BY <2>6, <2>7, <2>8 DEF S, n
<1> QED
  BY <1>1, <1>2

(* The head is before the content, and after the interim response. *)
LEMMA PartsAre ==
  ASSUME NEW r \in Responses
  PROVE  /\ Units(r) \in Seq(UnitsOf(r)) /\ Len(Units(r)) = Length(r)
         /\ \A i \in 1..InterimEnd(r) : Units(r)[i] = InterimLines(r)[i]
         /\ \A j \in 1..(HeadEnd(r) - InterimEnd(r)) :
              Units(r)[InterimEnd(r) + j] = HeadLines(r)[j]
         /\ \A j \in 1..(Length(r) - HeadEnd(r)) : Units(r)[HeadEnd(r) + j] = Content(r)[j]
<1> DEFINE S == UnitsOf(r)
           a == InterimLines(r)
           b == HeadLines(r)
           c == Content(r)
           ab == a \o b
           all == ab \o c
<1>1. Units(r) = all
  BY DEF Units, InterimLines, HeadLines, Content, Chunks, Code, HasLength
<1>2. PICK i, h, n : i = InterimEnd(r) /\ h = HeadEnd(r) - i /\ n = Length(r) - HeadEnd(r)
  OBVIOUS
<1>3. i \in Nat /\ h \in Nat /\ n \in Nat /\ i + h = HeadEnd(r) /\ i + h + n = Length(r)
  BY <1>2, LengthsAre
<1>4. a \in Seq(S) /\ Len(a) = i
  BY <1>2, InterimLinesAre
<1>5. b \in Seq(S) /\ Len(b) = h
  BY <1>2, HeadLinesAre
<1>6. c \in Seq(S) /\ Len(c) = n
  BY <1>2, ContentIs
<1> HIDE DEF S, a, b, c
<1>7. ab \in Seq(S) /\ Len(ab) = i + h
  BY <1>4, <1>5, JoinedAt
<1>8. \A k \in 1..i : ab[k] = a[k]
  BY <1>4, <1>5, JoinedAt
<1>9. \A j \in 1..h : ab[i + j] = b[j]
  BY <1>4, <1>5, JoinedAt
<1> HIDE DEF ab
<1>10. PICK m : m = i + h
  OBVIOUS
<1>11. ab \in Seq(S) /\ Len(ab) = m
  BY <1>7, <1>10
<1>12. all \in Seq(S) /\ Len(all) = m + n
  BY <1>6, <1>11, JoinedAt
<1>13. \A k \in 1..m : all[k] = ab[k]
  BY <1>6, <1>11, JoinedAt
<1>14. \A j \in 1..n : all[m + j] = c[j]
  BY <1>6, <1>11, JoinedAt
<1> HIDE DEF all
<1>15. /\ \A k \in 1..i : k \in 1..m
       /\ \A j \in 1..h : i + j \in 1..m
  BY <1>3, <1>10
<1>16. \A k \in 1..i : all[k] = a[k]
  BY <1>8, <1>13, <1>15
<1>17. \A j \in 1..h : all[i + j] = b[j]
  BY <1>9, <1>13, <1>15
<1>18. all \in Seq(UnitsOf(r)) /\ Len(all) = Length(r)
  BY <1>3, <1>10, <1>12 DEF S
<1> QED
  BY <1>1, <1>2, <1>3, <1>10, <1>14, <1>16, <1>17, <1>18 DEF a, b, c

(* The units by their places: of the head, and of what follows it. *)
LEMMA HeadUnits ==
  ASSUME NEW r \in Responses
  PROVE  /\ r.interim # 0 => /\ Units(r)[1] = Status(r.interim)
                             /\ Units(r)[2] = EmptyLine
         /\ Units(r)[InterimEnd(r) + 1] = Status(Code(r))
         /\ r.spaces => Units(r)[InterimEnd(r) + 2] = SpacesHeader
         /\ HasLength(r) /\ ~r.spaces =>
              Units(r)[InterimEnd(r) + 2] = ContentLength(r.size)
         /\ IsChunked(r) => Units(r)[HeadEnd(r) - 1] = TransferEncoding
         /\ Units(r)[HeadEnd(r)] = EmptyLine
<1> DEFINE units == Units(r)
           lines == HeadLines(r)
<1>1. PICK i, n : i = InterimEnd(r) /\ n = HeadEnd(r) - i
  OBVIOUS
<1>2. /\ i \in {0, 2} /\ (r.interim # 0 => i = 2)
      /\ n \in Nat /\ n >= 2 /\ HeadEnd(r) = i + n
      /\ r.spaces => n >= 3
      /\ IsChunked(r) \/ HasLength(r) => n >= 3
  BY <1>1, LengthsAre
<1>3. /\ \A k \in 1..i : units[k] = InterimLines(r)[k]
      /\ \A j \in 1..n : units[i + j] = lines[j]
  BY <1>1, PartsAre
<1>4. /\ lines[1] = Status(Code(r))
      /\ r.spaces => lines[2] = SpacesHeader
      /\ HasLength(r) /\ ~r.spaces => lines[2] = ContentLength(r.size)
      /\ IsChunked(r) => lines[n - 1] = TransferEncoding
      /\ lines[n] = EmptyLine
  BY <1>1, HeadLinesAre
<1>5. r.interim # 0 => /\ InterimLines(r)[1] = Status(r.interim)
                       /\ InterimLines(r)[2] = EmptyLine
  BY InterimLinesAre
<1> HIDE DEF units, lines
<1>6. r.interim # 0 => units[1] = Status(r.interim) /\ units[2] = EmptyLine
  BY <1>2, <1>3, <1>5
<1>7. units[i + 1] = Status(Code(r))
  BY <1>2, <1>3, <1>4
<1>8. /\ r.spaces => units[i + 2] = SpacesHeader
      /\ HasLength(r) /\ ~r.spaces => units[i + 2] = ContentLength(r.size)
  BY <1>2, <1>3, <1>4
<1>9. IsChunked(r) => units[HeadEnd(r) - 1] = TransferEncoding
  <2> SUFFICES ASSUME IsChunked(r)
               PROVE  units[HeadEnd(r) - 1] = TransferEncoding
    OBVIOUS
  <2>1. PICK j \in 1..n : j = n - 1 /\ HeadEnd(r) - 1 = i + j
    BY <1>2
  <2> QED
    BY <1>3, <1>4, <2>1
<1>10. units[HeadEnd(r)] = EmptyLine
  BY <1>2, <1>3, <1>4
<1> QED
  BY <1>1, <1>6, <1>7, <1>8, <1>9, <1>10 DEF units

(* A line of the head, after its first one. *)
LEMMA HeaderAt ==
  ASSUME NEW r \in Responses, NEW d \in Int,
         InterimEnd(r) + 2 <= d, d <= HeadEnd(r), r.spaces => d = InterimEnd(r) + 2
  PROVE  /\ r.spaces => Units(r)[d] = SpacesHeader
         /\ ~r.spaces =>
              \/ Units(r)[d] = EmptyLine /\ d = HeadEnd(r)
              \/ /\ Units(r)[d] = ContentLength(r.size)
                 /\ HasLength(r) /\ d = InterimEnd(r) + 2 /\ d < HeadEnd(r)
                 /\ IsChunked(r) => d + 1 # HeadEnd(r)
              \/ /\ Units(r)[d] = TransferEncoding
                 /\ IsChunked(r) /\ d = HeadEnd(r) - 1
                 /\ HasLength(r) => d > InterimEnd(r) + 2
<1>1. InterimEnd(r) \in Int /\ HeadEnd(r) \in Int
  BY LengthsAre
<1>2. CASE r.spaces
  BY <1>2, HeadUnits
<1>3. CASE ~r.spaces
  <2>1. CASE d = HeadEnd(r)
    BY <1>3, <2>1, HeadUnits
  <2>2. CASE d # HeadEnd(r) /\ HasLength(r) /\ d = InterimEnd(r) + 2
    <3>1. Units(r)[d] = ContentLength(r.size)
      BY <1>3, <2>2, HeadUnits
    <3>2. d < HeadEnd(r)
      BY <1>1, <2>2
    <3>3. IsChunked(r) => d + 1 # HeadEnd(r)
      BY <1>1, <1>3, <2>2, LengthsAre
    <3> QED
      BY <1>3, <2>2, <3>1, <3>2, <3>3
  <2>3. CASE d # HeadEnd(r) /\ ~(HasLength(r) /\ d = InterimEnd(r) + 2)
    <3>1. /\ IsChunked(r) /\ d = HeadEnd(r) - 1
          /\ HasLength(r) => d > InterimEnd(r) + 2
      BY <1>1, <1>3, <2>3, LengthsAre
    <3>2. Units(r)[d] = TransferEncoding
      BY <3>1, HeadUnits
    <3> QED
      BY <1>3, <3>1, <3>2
  <2> QED
    BY <2>1, <2>2, <2>3
<1> QED
  BY <1>2, <1>3

LEMMA PlainUnits ==
  ASSUME NEW r \in Responses, ~IsChunked(r)
  PROVE  \A j \in 1..r.size : Units(r)[HeadEnd(r) + j] = Byte(j)
<1>1. /\ \A j \in 1..(Length(r) - HeadEnd(r)) : Units(r)[HeadEnd(r) + j] = Content(r)[j]
      /\ \A j \in 1..r.size : Content(r)[j] = Byte(j)
  BY PartsAre, ContentIs
<1>2. r.size \in Nat /\ HeadEnd(r) \in Nat /\ Length(r) = HeadEnd(r) + r.size
  BY ResponseFields, LengthsAre
<1>3. Length(r) - HeadEnd(r) = r.size
  BY <1>2
<1> QED
  BY <1>1, <1>3

LEMMA ChunkUnits ==
  ASSUME NEW r \in Responses, IsChunked(r), NEW b \in Bounds(r)
  PROVE  /\ Units(r)[HeadEnd(r) + Offset(r, r.size) + 1] = ChunkLength(0)
         /\ b > 0 => Units(r)[HeadEnd(r) + Offset(r, b)] = EmptyLine
         /\ b < r.size =>
              LET n == ChunkEnd(r, b) - b
                  o == HeadEnd(r) + Offset(r, b)
              IN  /\ Units(r)[o + 1] = ChunkLength(n)
                  /\ \A j \in 1..n : Units(r)[o + 1 + j] = Byte(b + j)
<1> DEFINE units == Units(r)
           chunks == Chunks(r)
           size == r.size
           h == HeadEnd(r)
           end == Offset(r, size)
<1>1. PICK l : l = Length(r) - HeadEnd(r)
  OBVIOUS
<1>2. Content(r) = chunks
  BY DEF Content
<1>3. \A j \in 1..l : units[h + j] = chunks[j]
  BY <1>1, <1>2, PartsAre
<1>4. /\ chunks[end + 1] = ChunkLength(0)
      /\ \A c \in Bounds(r) : c < size =>
           LET n == ChunkEnd(r, c) - c
               o == Offset(r, c)
           IN  /\ chunks[o + 1] = ChunkLength(n)
               /\ \A j \in 1..n : chunks[o + 1 + j] = Byte(c + j)
               /\ chunks[o + n + 2] = EmptyLine
  BY ChunksAre, Zenon
<1>5. size \in Nat /\ size \in Bounds(r)
  BY ResponseFields DEF Bounds
<1>6. h \in Nat /\ end \in Nat /\ l \in Nat /\ end + 2 <= l
  <2>1. end \in Nat
    BY <1>5, BoundsAre
  <2>2. /\ HeadEnd(r) \in Nat /\ One(r.trailer) \in {0, 1}
        /\ Length(r) = HeadEnd(r) + Offset(r, r.size) + 2 + One(r.trailer)
    BY LengthsAre
  <2> QED
    BY <1>1, <2>1, <2>2
<1>7. \A c \in Bounds(r) :
        /\ c \in Nat /\ Offset(r, c) \in Nat /\ Offset(r, c) <= end
        /\ c < size => /\ ChunkEnd(r, c) \in Bounds(r) /\ c < ChunkEnd(r, c)
                       /\ Offset(r, ChunkEnd(r, c)) = Offset(r, c) + (ChunkEnd(r, c) - c) + 2
  BY BoundsAre
<1> HIDE DEF units, chunks, size, h, end
<1>8. units[h + end + 1] = ChunkLength(0)
  <2>1. PICK j \in 1..l : j = end + 1 /\ h + end + 1 = h + j
    BY <1>6
  <2> QED
    BY <1>3, <1>4, <2>1
<1>9. \A c \in Bounds(r) : c < size =>
        /\ units[h + Offset(r, c) + 1] = ChunkLength(ChunkEnd(r, c) - c)
        /\ \A j \in 1..(ChunkEnd(r, c) - c) :
             units[h + Offset(r, c) + 1 + j] = Byte(c + j)
        /\ units[h + Offset(r, ChunkEnd(r, c))] = EmptyLine
  <2> SUFFICES ASSUME NEW c \in Bounds(r), c < size
               PROVE  /\ units[h + Offset(r, c) + 1] = ChunkLength(ChunkEnd(r, c) - c)
                      /\ \A j \in 1..(ChunkEnd(r, c) - c) :
                           units[h + Offset(r, c) + 1 + j] = Byte(c + j)
                      /\ units[h + Offset(r, ChunkEnd(r, c))] = EmptyLine
    OBVIOUS
  <2>1. PICK n, o, p : n = ChunkEnd(r, c) - c /\ o = Offset(r, c)
                       /\ p = Offset(r, ChunkEnd(r, c))
    OBVIOUS
  <2>2. /\ chunks[o + 1] = ChunkLength(n)
        /\ \A j \in 1..n : chunks[o + 1 + j] = Byte(c + j)
        /\ chunks[o + n + 2] = EmptyLine
    BY <1>4, <2>1
  <2>3. ChunkEnd(r, c) \in Nat /\ c \in Nat /\ c < ChunkEnd(r, c)
    BY <1>7
  <2>4. n \in Nat /\ n >= 1 /\ o \in Nat /\ p \in Nat /\ p = o + n + 2 /\ p <= end
    <3>1. o \in Nat /\ p \in Nat /\ p <= end /\ p = o + (ChunkEnd(r, c) - c) + 2
      BY <1>7, <2>1
    <3> QED
      BY <2>1, <2>3, <3>1
  <2>5. units[h + o + 1] = ChunkLength(n)
    <3>1. PICK j \in 1..l : j = o + 1 /\ h + o + 1 = h + j
      BY <1>6, <2>4
    <3> QED
      BY <1>3, <2>2, <3>1
  <2>6. ASSUME NEW j \in 1..n
        PROVE  units[h + o + 1 + j] = Byte(c + j)
    <3>1. PICK k \in 1..l : k = o + 1 + j /\ h + o + 1 + j = h + k
      BY <1>6, <2>4
    <3> QED
      BY <1>3, <2>2, <3>1
  <2>7. units[h + p] = EmptyLine
    <3>1. PICK k \in 1..l : k = p /\ p = o + n + 2
      BY <1>6, <2>4
    <3> QED
      BY <1>3, <2>2, <3>1
  <2> QED
    BY <2>1, <2>5, <2>6, <2>7
<1>10. b > 0 => \E c \in Bounds(r) : c < size /\ b = ChunkEnd(r, c)
  <2>1. /\ r.size \in Nat /\ r.split \in Nat /\ r.split <= r.size
        /\ r.size > 0 => r.split > 0
    BY ResponseFields
  <2>2. b = 0 \/ b = r.split \/ b = r.size
    BY DEF Bounds
  <2>3. CASE b = 0
    BY <2>3
  <2>4. CASE b > 0 /\ b = r.split
    BY <2>1, <2>4 DEF Bounds, ChunkEnd, size
  <2>5. CASE b > 0 /\ b = r.size /\ b # r.split
    BY <2>1, <2>5 DEF Bounds, ChunkEnd, size
  <2> QED
    BY <2>1, <2>2, <2>3, <2>4, <2>5
<1>11. b > 0 => units[h + Offset(r, b)] = EmptyLine
  BY <1>9, <1>10
<1>12. b < size =>
         LET n == ChunkEnd(r, b) - b
             o == h + Offset(r, b)
         IN  /\ units[o + 1] = ChunkLength(n)
             /\ \A j \in 1..n : units[o + 1 + j] = Byte(b + j)
  BY <1>9
<1> QED
  BY <1>8, <1>11, <1>12 DEF units, h, size, end

-----------------------------------------------------------------------------
(* What has been received is the beginning of what was sent. *)
LEMMA Here ==
  ASSUME TypeOK, Received
  PROVE  /\ sent \in Responses /\ received \in Seq(UnitsOf(sent))
         /\ Len(received) \in Nat /\ Len(received) <= Length(sent)
         /\ \A i \in 1..Len(received) : /\ received[i] = Units(sent)[i]
                                        /\ received[i] \in UnitsOf(sent)
         /\ Whole => Len(received) = Length(sent)
<1>1. sent \in Responses
  BY DEF TypeOK
<1> DEFINE S == UnitsOf(sent)
           units == Units(sent)
<1>2. units \in Seq(S) /\ Len(units) = Length(sent)
  BY <1>1, PartsAre
<1>3. Whole => received = units
  BY DEF Whole
<1>4. PICK n \in 0..Len(units) : received = SubSeq(units, 1, n)
  BY DEF Received
<1> HIDE DEF S, units
<1>5. Len(units) \in Nat
  BY <1>2
<1>6. 1 \in 1..(Len(units) + 1) /\ n \in (1 - 1)..Len(units) /\ n \in Nat
  BY <1>4, <1>5
<1>7. /\ received \in Seq(S) /\ Len(received) = n - 1 + 1
      /\ \A i \in 1..(n - 1 + 1) : received[i] = units[1 + i - 1]
  BY <1>2, <1>4, <1>6, SubSeqProperties
<1>8. n - 1 + 1 = n /\ \A i \in 1..n : 1 + i - 1 = i
  BY <1>6
<1>9. Len(received) = n /\ n \in Nat /\ n <= Len(units)
  BY <1>4, <1>5, <1>7, <1>8
<1>10. \A i \in 1..n : received[i] = units[i]
  BY <1>7, <1>8
<1>11. \A i \in 1..n : received[i] \in S
  BY <1>7, <1>9
<1> QED
  BY <1>1, <1>2, <1>3, <1>7, <1>9, <1>10, <1>11 DEF S, units

LEMMA UnitFields ==
  ASSUME NEW r \in Responses, NEW u \in UnitsOf(r)
  PROVE  /\ u.value \in Nat
         /\ u.kind = "status" => u.value \in {100, 102, 200, 204}
         /\ u.kind \in {"content-length", "chunk length"} => u.value <= MaxSize
         /\ u.kind = "spaces" => r.spaces
<1>1. /\ u \in UnitType
      /\ u.kind = "status" => u.value \in {100, 102, 200, 204}
      /\ u.kind \in {"content-length", "chunk length"} => u.value <= MaxSize
      /\ u.kind = "spaces" => r.spaces
  BY Zenon DEF UnitsOf
<1>2. u.value \in Nat
  BY <1>1, Zenon DEF UnitType
<1> QED
  BY <1>1, <1>2, Zenon

(* The unit that is looked at. *)
LEMMA UnitIs ==
  ASSUME ProcessorInv, ~AtEnd, response_state # "COMPLETE"
  PROVE  /\ sent \in Responses /\ Len(received) \in Nat
         /\ dit \in Nat /\ 1 <= dit /\ dit <= Len(received) /\ dit <= Length(sent)
         /\ received[dit] = Units(sent)[dit]
         /\ received[dit] \in UnitsOf(sent) /\ Unit \in UnitsOf(sent)
         /\ line_buffer = FALSE => Unit = Units(sent)[dit]
<1>1. TypeOK /\ Received
  BY DEF ProcessorInv
<1>2. /\ sent \in Responses /\ Len(received) \in Nat /\ Len(received) <= Length(sent)
      /\ \A i \in 1..Len(received) : /\ received[i] = Units(sent)[i]
                                     /\ received[i] \in UnitsOf(sent)
  BY <1>1, Here
<1>3. Length(sent) \in Nat
  BY <1>2, LengthsAre
<1>4. dit \in Int /\ 1 <= dit /\ dit <= Len(received)
  BY <1>1, <1>2 DEF AtEnd, TypeOK
<1>5. dit \in 1..Len(received) /\ dit \in Nat /\ dit <= Length(sent)
  BY <1>2, <1>3, <1>4
<1>6. received[dit] = Units(sent)[dit] /\ received[dit] \in UnitsOf(sent)
  BY <1>2, <1>5
<1>7. OtherHeader \in UnitsOf(sent)
  BY <1>2, KindsOfUnits
<1>8. Unit \in UnitsOf(sent) /\ (line_buffer = FALSE => Unit = Units(sent)[dit])
  BY <1>6, <1>7 DEF Unit
<1> QED
  BY <1>2, <1>4, <1>5, <1>6, <1>8

-----------------------------------------------------------------------------
(* What is kept by what does not touch these variables. *)
LEMMA StartIsKept ==
  ASSUME UNCHANGED <<received, start>>
  PROVE  /\ Received' <=> Received
         /\ Fresh' <=> Fresh
         /\ Whole' <=> Whole
         /\ Framed' <=> Framed
  BY DEF start, Received, Fresh, Agree, Whole, Framed

LEMMA LineIsKept ==
  ASSUME ProcessorInv, NEW s \in LineStates, Line(s)
  PROVE  /\ Received' /\ UNCHANGED <<received, start>>
         /\ dit \in Nat /\ 1 <= dit /\ dit' \in Nat /\ dit' = dit + 1
         /\ dit' <= Len(received') + 1
<1>1. /\ Received /\ ~AtEnd /\ response_state # "COMPLETE"
      /\ dit' = dit + 1 /\ UNCHANGED <<received, start>>
  BY DEF ProcessorInv, Line, LineStates
<1>2. /\ Len(received) \in Nat /\ dit \in Nat /\ 1 <= dit /\ dit <= Len(received)
  BY <1>1, UnitIs
<1>3. dit' \in Nat /\ dit' <= Len(received') + 1
  BY <1>1, <1>2
<1> QED
  BY <1>1, <1>2, <1>3, StartIsKept

LEMMA AccumulateLineKeeps ==
  ASSUME ProcessorInv, AccumulateLine
  PROVE  ProcessorInv'
<1>1. /\ pc = "parse" /\ ~AtEnd /\ response_state \in LineStates
      /\ received[dit].kind = "byte" /\ dit' = dit + 1 /\ line_buffer' = TRUE
      /\ UNCHANGED <<pc, processor, headers, body, received, count, start>>
  BY DEF AccumulateLine
<1>2. response_state # "COMPLETE" /\ response_state # "BODY"
  BY <1>1 DEF LineStates
<1>3. /\ sent \in Responses /\ Len(received) \in Nat
      /\ dit \in Nat /\ 1 <= dit /\ dit <= Len(received) /\ dit <= Length(sent)
      /\ received[dit] = Units(sent)[dit]
  BY <1>1, <1>2, UnitIs
<1>4. /\ Received' /\ (Fresh' <=> Fresh)
  BY <1>1, StartIsKept DEF ProcessorInv
<1>5. TypeOK'
  <2>1. TypeOK
    BY DEF ProcessorInv
  <2>2. dit' \in Int /\ dit' <= Len(received') + 1 /\ dit' >= 1
    BY <1>1, <1>3
  <2>3. line_buffer' \in BOOLEAN
    BY <1>1
  <2> QED
    BY <1>1, <2>1, <2>2, <2>3 DEF TypeOK, processor, start
<1>6. BytesAreLeft' /\ Taken'
  BY <1>1, <1>2 DEF BytesAreLeft, Taken, processor
<1>7. FailsOnlyIf'
  BY <1>1 DEF FailsOnlyIf, Beyond
<1>8. ASSUME Fresh, sent.interim # 102
      PROVE  Understands'
  <2>1. Understands
    BY <1>1, <1>8 DEF ProcessorInv, Parsed
  <2>2. Units(sent)[dit].kind = "byte"
    BY <1>1, <1>3
  <2>3. /\ \A n : Status(n).kind # "byte" /\ ContentLength(n).kind # "byte"
        /\ \A n : ChunkLength(n).kind # "byte"
        /\ EmptyLine.kind # "byte" /\ SpacesHeader.kind # "byte"
        /\ TransferEncoding.kind # "byte"
    BY DEF Status, EmptyLine, SpacesHeader, ContentLength, TransferEncoding, ChunkLength
  <2>4. /\ InterimEnd(sent) \in {0, 2} /\ (sent.interim = 0 <=> InterimEnd(sent) = 0)
        /\ HeadEnd(sent) \in Nat /\ Length(sent) \in Nat
        /\ ~IsChunked(sent) => Length(sent) = HeadEnd(sent) + sent.size
    BY <1>3, LengthsAre
  <2>5. ~AtStatusLine
    <3> SUFFICES ASSUME AtStatusLine
                 PROVE  FALSE
      OBVIOUS
    <3>1. dit = 1 \/ dit = InterimEnd(sent) + 1
      BY DEF AtStatusLine
    <3>2. Units(sent)[dit] = Status(sent.interim) \/ Units(sent)[dit] = Status(Code(sent))
      BY <1>3, <2>4, <3>1, HeadUnits
    <3> QED
      BY <2>2, <2>3, <3>2
  <2>6. ~AtInterim
    <3> SUFFICES ASSUME AtInterim
                 PROVE  FALSE
      OBVIOUS
    <3>1. dit = 2 /\ sent.interim # 0
      BY DEF AtInterim
    <3>2. Units(sent)[dit] = EmptyLine
      BY <1>3, <3>1, HeadUnits
    <3> QED
      BY <2>2, <2>3, <3>2
  <2>7. ~AtHeaders
    <3> SUFFICES ASSUME AtHeaders
                 PROVE  FALSE
      OBVIOUS
    <3>1. /\ InterimEnd(sent) + 2 <= dit /\ dit <= HeadEnd(sent) /\ dit \in Int
          /\ sent.spaces => dit = InterimEnd(sent) + 2
      BY <1>3 DEF AtHeaders
    <3>2. \/ Units(sent)[dit] = SpacesHeader \/ Units(sent)[dit] = EmptyLine
          \/ Units(sent)[dit] = ContentLength(sent.size)
          \/ Units(sent)[dit] = TransferEncoding
      BY <1>3, <3>1, HeaderAt
    <3> QED
      BY <2>2, <2>3, <3>2
  <2>8. ~AtPlainBody
    BY <1>2 DEF AtPlainBody
  <2>9. ~AtNoContent
    <3> SUFFICES ASSUME AtNoContent
                 PROVE  FALSE
      OBVIOUS
    <3>1. sent.framing = "no content" /\ dit = HeadEnd(sent) + 1
      BY DEF AtNoContent
    <3>2. ~IsChunked(sent) /\ sent.size = 0
      BY <1>3, <3>1, ResponseFields DEF IsChunked
    <3>3. Length(sent) = HeadEnd(sent) /\ HeadEnd(sent) \in Nat
      BY <2>4, <3>2
    <3>4. dit <= Length(sent) /\ dit = HeadEnd(sent) + 1
      BY <1>3, <3>1
    <3> QED
      BY <3>3, <3>4
  <2>10. ~AtChunks
    <3> SUFFICES ASSUME AtChunks
                 PROVE  FALSE
      OBVIOUS
    <3>1. PICK b \in Bounds(sent) : AtChunk(b)
      BY DEF AtChunks
    <3>2. IsChunked(sent)
      BY DEF AtChunks
    <3>3. b \in Nat /\ b <= sent.size /\ sent.size \in Nat /\ Offset(sent, b) \in Nat
      BY <1>3, <3>2, BoundsAre, ResponseFields
    <3>4. CASE dit = HeadEnd(sent) + Offset(sent, b) + 1
      <4>1. \E n : Units(sent)[dit] = ChunkLength(n)
        BY <1>3, <3>2, <3>3, <3>4, ChunkUnits
      <4> QED
        BY <2>2, <2>3, <4>1
    <3>5. CASE dit = HeadEnd(sent) + Offset(sent, b) /\ b > 0
      <4>1. Units(sent)[dit] = EmptyLine
        BY <1>3, <3>2, <3>5, ChunkUnits
      <4> QED
        BY <2>2, <2>3, <4>1
    <3> QED
      BY <1>2, <3>1, <3>4, <3>5 DEF AtChunk
  <2>11. AtFooters' \/ AtComplete'
    <3>1. AtFooters \/ AtComplete
      BY <2>1, <2>5, <2>6, <2>7, <2>8, <2>9, <2>10 DEF Understands
    <3>2. AtFooters
      BY <1>2, <3>1 DEF AtComplete
    <3> QED
      BY <1>1, <3>2 DEF AtFooters, BodySent, processor, start
  <2> QED
    BY <2>11 DEF Understands
<1>9. ASSUME Fresh, sent.interim = 102
      PROVE  MisunderstandsInterim'
  <2>1. MisunderstandsInterim
    BY <1>1, <1>9 DEF ProcessorInv, Parsed
  <2>2. InterimEnd(sent) = 2
    BY <1>3, <1>9, LengthsAre
  <2>3. /\ Units(sent)[1] = Status(102) /\ Units(sent)[2] = EmptyLine
        /\ Units(sent)[3] = Status(Code(sent))
    BY <1>3, <1>9, <2>2, HeadUnits
  <2>4. /\ Units(sent)[1].kind # "byte" /\ Units(sent)[2].kind # "byte"
        /\ Units(sent)[3].kind # "byte"
    BY <2>3 DEF Status, EmptyLine
  <2>5. response_state = "FOOTERS"
    BY <1>1, <1>2, <1>3, <2>1, <2>4 DEF MisunderstandsInterim
  <2> QED
    BY <1>1, <2>5 DEF MisunderstandsInterim, processor
<1>10. Parsed'
  BY <1>1, <1>4, <1>8, <1>9 DEF Parsed, start
<1> QED
  BY <1>4, <1>5, <1>6, <1>7, <1>10 DEF ProcessorInv

-----------------------------------------------------------------------------
(* The status line. *)
LEMMA InStatusLine ==
  ASSUME ProcessorInv, Line("STATUSLINE"), Fresh
  PROVE  /\ line_buffer = FALSE /\ Untouched
         /\ sent.interim = 102 => dit = 1 /\ Unit = Status(102)
         /\ sent.interim # 102 =>
              /\ headers = stale
              /\ \/ dit = 1 /\ sent.interim = 100 /\ Unit = Status(100)
                 \/ dit = InterimEnd(sent) + 1 /\ Unit = Status(Code(sent))
<1>1. pc = "parse" /\ ~AtEnd /\ response_state = "STATUSLINE"
  BY DEF Line
<1>2. /\ sent \in Responses /\ (line_buffer = FALSE => Unit = Units(sent)[dit])
  BY <1>1, UnitIs
<1>3. Parsed
  BY DEF ProcessorInv
<1>4. CASE sent.interim = 102
  <2>1. line_buffer = FALSE /\ Untouched /\ dit = 1
    BY <1>1, <1>3, <1>4 DEF Parsed, MisunderstandsInterim
  <2>2. Units(sent)[1] = Status(102)
    BY <1>2, <1>4, HeadUnits
  <2> QED
    BY <1>2, <1>4, <2>1, <2>2
<1>5. CASE sent.interim # 102
  <2>1. Understands
    BY <1>1, <1>3, <1>5 DEF Parsed
  <2>2. line_buffer = FALSE /\ AtStatusLine
    BY <1>1, <2>1 DEF Understands, AtInterim, AtHeaders, AtPlainBody, AtNoContent,
                      AtChunks, AtChunk, AtFooters, AtComplete
  <2>3. Untouched /\ headers = stale /\ (dit = 1 \/ dit = InterimEnd(sent) + 1)
    BY <2>2 DEF AtStatusLine
  <2>4. Units(sent)[InterimEnd(sent) + 1] = Status(Code(sent))
    BY <1>2, HeadUnits
  <2>5. CASE dit = 1 /\ sent.interim # 0
    <3>1. sent.interim = 100
      BY <1>2, <1>5, <2>5, ResponseFields DEF Interims
    <3>2. Units(sent)[1] = Status(sent.interim)
      BY <1>2, <2>5, HeadUnits
    <3> QED
      BY <1>2, <1>5, <2>2, <2>3, <2>5, <3>1, <3>2
  <2>6. CASE ~(dit = 1 /\ sent.interim # 0)
    <3>1. dit = InterimEnd(sent) + 1
      BY <2>3, <2>6 DEF InterimEnd
    <3> QED
      BY <1>2, <1>5, <2>2, <2>3, <2>4, <3>1
  <2> QED
    BY <2>5, <2>6
<1> QED
  BY <1>4, <1>5

LEMMA ProcessStatusLineKeeps ==
  ASSUME ProcessorInv, ProcessStatusLine
  PROVE  ProcessorInv'
<1>1. /\ Line("STATUSLINE") /\ pc = "parse" /\ line_buffer' = FALSE
      /\ response_state = "STATUSLINE" /\ ~AtEnd
      /\ http_code' = IF Unit.kind = "status" THEN Unit.value ELSE 0
      /\ response_state' = "HEADERS"
      /\ UNCHANGED <<pc, chunked_response, chunk_bytes_left, chunk_bytes_read,
                     chunk_length, headers, body, received, count, start>>
  BY DEF ProcessStatusLine, Line
<1>2. /\ Received' /\ dit \in Nat /\ dit' \in Nat /\ dit' = dit + 1
      /\ dit' <= Len(received') + 1
  BY <1>1, LineIsKept DEF LineStates
<1>3. Fresh' <=> Fresh
  BY <1>1, StartIsKept
<1>4. sent \in Responses /\ Unit \in UnitsOf(sent)
  BY <1>1, UnitIs
<1>5. TypeOK'
  <2>1. TypeOK
    BY DEF ProcessorInv
  <2>2. http_code' \in {0, 100, 102, 200, 204}
    BY <1>1, <1>4, UnitFields
  <2>3. dit' \in Int /\ dit' >= 1 /\ line_buffer' \in BOOLEAN
    <3>1. dit' \in Int /\ dit' >= 1
      BY <1>2
    <3>2. line_buffer' \in BOOLEAN
      BY <1>1
    <3> QED
      BY <3>1, <3>2, Zenon
  <2>4. response_state' \in States
    BY <1>1 DEF States, LineStates
  <2> QED
    BY <1>1, <1>2, <2>1, <2>2, <2>3, <2>4 DEF TypeOK, start
<1>6. BytesAreLeft' /\ Taken'
  BY <1>1 DEF BytesAreLeft, Taken
<1>7. FailsOnlyIf'
  BY <1>1 DEF FailsOnlyIf, Beyond
<1>8. ASSUME Fresh, sent.interim # 102
      PROVE  Understands'
  <2>1. /\ Untouched /\ headers = stale
        /\ \/ dit = 1 /\ sent.interim = 100 /\ Unit = Status(100)
           \/ dit = InterimEnd(sent) + 1 /\ Unit = Status(Code(sent))
    BY <1>1, <1>8, InStatusLine
  <2>2. Untouched' /\ headers' = stale'
    BY <1>1, <2>1 DEF Untouched, start
  <2>3. CASE dit = 1 /\ sent.interim = 100 /\ Unit = Status(100)
    <3>1. http_code' = 100
      BY <1>1, <2>3 DEF Status
    <3>2. AtInterim'
      BY <1>1, <1>2, <2>2, <2>3, <3>1 DEF AtInterim, start
    <3> QED
      BY <1>1, <3>2 DEF Understands
  <2>4. CASE dit = InterimEnd(sent) + 1 /\ Unit = Status(Code(sent))
    <3>1. http_code' = Code(sent)
      BY <1>1, <2>4 DEF Status
    <3>2. /\ InterimEnd(sent) \in Nat /\ HeadEnd(sent) \in Nat
          /\ InterimEnd(sent) + 2 <= HeadEnd(sent)
          /\ IsChunked(sent) => InterimEnd(sent) + 3 <= HeadEnd(sent)
      BY <1>4, LengthsAre
    <3>3. dit' = InterimEnd(sent) + 2
      <4>1. dit' = dit + 1 /\ dit = InterimEnd(sent) + 1
        BY <1>2, <2>4
      <4> QED
        BY <3>2, <4>1
    <3>4. /\ InterimEnd(sent) + 2 <= dit' /\ dit' <= HeadEnd(sent)
          /\ ~(dit' > InterimEnd(sent) + 2)
          /\ ~(IsChunked(sent) /\ dit' = HeadEnd(sent))
      <4>1. ASSUME IsChunked(sent)
            PROVE  dit' # HeadEnd(sent)
        BY <3>2, <3>3, <4>1
      <4>2. /\ InterimEnd(sent) + 2 <= dit' /\ dit' <= HeadEnd(sent)
            /\ ~(dit' > InterimEnd(sent) + 2)
        BY <3>2, <3>3
      <4> QED
        BY <4>1, <4>2
    <3>5. headers'.chunked <=> stale.chunked
      BY <1>1, <2>1
    <3>6. headers'.length = IF stale.length # -1 THEN stale.length ELSE -1
      BY <1>1, <2>1
    <3>7. sent' = sent /\ stale' = stale
      BY <1>1 DEF start
    <3>8. AtHeaders'
      BY <1>1, <2>2, <3>1, <3>3, <3>4, <3>5, <3>6, <3>7 DEF AtHeaders
    <3> QED
      BY <1>1, <3>8 DEF Understands
  <2> QED
    BY <2>1, <2>3, <2>4
<1>9. ASSUME Fresh, sent.interim = 102
      PROVE  MisunderstandsInterim'
  <2>1. Untouched /\ dit = 1 /\ Unit = Status(102)
    BY <1>1, <1>9, InStatusLine
  <2>2. http_code' = 102 /\ dit' = 2
    BY <1>1, <1>2, <2>1 DEF Status
  <2>3. Untouched'
    BY <1>1, <2>1 DEF Untouched
  <2> QED
    BY <1>1, <2>2, <2>3 DEF MisunderstandsInterim
<1>10. Parsed'
  BY <1>1, <1>3, <1>8, <1>9 DEF Parsed, start
<1> QED
  BY <1>2, <1>5, <1>6, <1>7, <1>10 DEF ProcessorInv

-----------------------------------------------------------------------------
(* The headers. *)
LEMMA InHeaders ==
  ASSUME ProcessorInv, Line("HEADERS"), Fresh
  PROVE  /\ line_buffer = FALSE /\ Untouched
         /\ sent.interim = 102 => dit = 2 /\ http_code = 102 /\ Unit = EmptyLine
         /\ sent.interim # 102 =>
              \/ AtInterim /\ Unit = EmptyLine
              \/ /\ AtHeaders
                 /\ sent.spaces => Unit = SpacesHeader
                 /\ ~sent.spaces =>
                      \/ Unit = EmptyLine /\ dit = HeadEnd(sent)
                      \/ /\ Unit = ContentLength(sent.size)
                         /\ HasLength(sent) /\ dit = InterimEnd(sent) + 2
                         /\ dit < HeadEnd(sent)
                         /\ IsChunked(sent) => dit + 1 # HeadEnd(sent)
                      \/ /\ Unit = TransferEncoding
                         /\ IsChunked(sent) /\ dit = HeadEnd(sent) - 1
                         /\ HasLength(sent) => dit > InterimEnd(sent) + 2
<1>1. pc = "parse" /\ ~AtEnd /\ response_state = "HEADERS"
  BY DEF Line
<1>2. /\ sent \in Responses /\ dit \in Nat
      /\ line_buffer = FALSE => Unit = Units(sent)[dit]
  BY <1>1, UnitIs
<1>3. Parsed
  BY DEF ProcessorInv
<1>4. CASE sent.interim = 102
  <2>1. line_buffer = FALSE /\ Untouched /\ dit = 2 /\ http_code = 102
    BY <1>1, <1>3, <1>4 DEF Parsed, MisunderstandsInterim
  <2>2. Units(sent)[2] = EmptyLine
    BY <1>2, <1>4, HeadUnits
  <2> QED
    BY <1>2, <1>4, <2>1, <2>2
<1>5. CASE sent.interim # 102
  <2>1. Understands
    BY <1>1, <1>3, <1>5 DEF Parsed
  <2>2. line_buffer = FALSE /\ (AtInterim \/ AtHeaders)
    BY <1>1, <2>1 DEF Understands, AtStatusLine, AtPlainBody, AtNoContent,
                      AtChunks, AtChunk, AtFooters, AtComplete
  <2>3. CASE AtInterim
    <3>1. Untouched /\ dit = 2 /\ sent.interim # 0
      BY <2>3 DEF AtInterim
    <3>2. Units(sent)[2] = EmptyLine
      BY <1>2, <3>1, HeadUnits
    <3> QED
      BY <1>2, <1>5, <2>2, <2>3, <3>1, <3>2
  <2>4. CASE AtHeaders
    <3>1. /\ Untouched
          /\ InterimEnd(sent) + 2 <= dit /\ dit <= HeadEnd(sent) /\ dit \in Int
          /\ sent.spaces => dit = InterimEnd(sent) + 2
      BY <1>2, <2>4 DEF AtHeaders
    <3>2. Unit = Units(sent)[dit]
      BY <1>2, <2>2
    <3> HIDE DEF Unit
    <3>3. /\ sent.spaces => Unit = SpacesHeader
          /\ ~sent.spaces =>
               \/ Unit = EmptyLine /\ dit = HeadEnd(sent)
               \/ /\ Unit = ContentLength(sent.size)
                  /\ HasLength(sent) /\ dit = InterimEnd(sent) + 2 /\ dit < HeadEnd(sent)
                  /\ IsChunked(sent) => dit + 1 # HeadEnd(sent)
               \/ /\ Unit = TransferEncoding
                  /\ IsChunked(sent) /\ dit = HeadEnd(sent) - 1
                  /\ HasLength(sent) => dit > InterimEnd(sent) + 2
      BY <1>2, <3>1, <3>2, HeaderAt
    <3> QED
      BY <1>5, <2>2, <2>4, <3>1, <3>3
  <2> QED
    BY <2>2, <2>3, <2>4
<1> QED
  BY <1>4, <1>5

LEMMA ProcessHeaderLineKeeps ==
  ASSUME ProcessorInv, ProcessHeaderLine
  PROVE  ProcessorInv'
<1>1. /\ Line("HEADERS") /\ pc = "parse" /\ line_buffer' = FALSE
      /\ response_state = "HEADERS" /\ ~AtEnd
      /\ Unit.kind \notin {"empty", "spaces"}
      /\ headers' =
           CASE Unit.kind = "transfer-encoding" -> [headers EXCEPT !.chunked = TRUE]
             [] Unit.kind = "content-length" /\ headers.length = -1 ->
                  [headers EXCEPT !.length = Unit.value]
             [] OTHER -> headers
      /\ UNCHANGED <<pc, processor, body, received, count, start>>
  BY DEF ProcessHeaderLine, Line
<1>2. /\ Received' /\ dit \in Nat /\ dit' \in Nat /\ dit' = dit + 1
      /\ dit' <= Len(received') + 1
  BY <1>1, LineIsKept DEF LineStates
<1>3. Fresh' <=> Fresh
  BY <1>1, StartIsKept
<1>4. sent \in Responses /\ Unit \in UnitsOf(sent)
  BY <1>1, UnitIs
<1>5. TypeOK
  BY DEF ProcessorInv
<1>6. headers \in [chunked : BOOLEAN, length : -1..MaxSize]
  BY <1>5 DEF TypeOK
<1>7. TypeOK'
  <2>1. headers' \in [chunked : BOOLEAN, length : -1..MaxSize]
    <3>1. CASE Unit.kind = "transfer-encoding"
      <4>1. headers' = [headers EXCEPT !.chunked = TRUE]
        BY <1>1, <3>1
      <4> QED
        BY <1>6, <4>1
    <3>2. CASE Unit.kind = "content-length" /\ headers.length = -1
      <4>1. headers' = [headers EXCEPT !.length = Unit.value]
        BY <1>1, <3>2
      <4>2. Unit.value \in Nat /\ Unit.value <= MaxSize
        BY <1>4, <3>2, UnitFields
      <4>3. Unit.value \in -1..MaxSize
        BY <4>2, BoundsAssumption
      <4> QED
        BY <1>6, <4>1, <4>3
    <3>3. CASE /\ Unit.kind # "transfer-encoding"
               /\ ~(Unit.kind = "content-length" /\ headers.length = -1)
      BY <1>1, <1>6, <3>3
    <3> QED
      BY <3>1, <3>2, <3>3
  <2>2. dit' \in Int /\ dit' >= 1 /\ line_buffer' \in BOOLEAN
    <3>1. dit' \in Int /\ dit' >= 1
      BY <1>2
    <3>2. line_buffer' \in BOOLEAN
      BY <1>1
    <3> QED
      BY <3>1, <3>2, Zenon
  <2> QED
    BY <1>1, <1>2, <1>5, <2>1, <2>2 DEF TypeOK, start, processor
<1>8. BytesAreLeft' /\ Taken'
  BY <1>1 DEF BytesAreLeft, Taken, processor
<1>9. FailsOnlyIf'
  BY <1>1 DEF FailsOnlyIf, Beyond
<1>10. Unit # EmptyLine /\ Unit # SpacesHeader
  BY <1>1 DEF EmptyLine, SpacesHeader
<1>11. ASSUME Fresh, sent.interim # 102
       PROVE  Understands'
  <2>1. /\ AtHeaders /\ Untouched /\ ~sent.spaces
        /\ \/ /\ Unit = ContentLength(sent.size)
              /\ HasLength(sent) /\ dit = InterimEnd(sent) + 2 /\ dit < HeadEnd(sent)
              /\ IsChunked(sent) => dit + 1 # HeadEnd(sent)
           \/ /\ Unit = TransferEncoding
              /\ IsChunked(sent) /\ dit = HeadEnd(sent) - 1
              /\ HasLength(sent) => dit > InterimEnd(sent) + 2
    BY <1>1, <1>10, <1>11, InHeaders
  <2>2. /\ http_code = Code(sent) /\ InterimEnd(sent) + 2 <= dit /\ dit <= HeadEnd(sent)
        /\ headers.chunked <=> stale.chunked \/ (IsChunked(sent) /\ dit = HeadEnd(sent))
        /\ headers.length =
             IF stale.length # -1 THEN stale.length
             ELSE IF HasLength(sent) /\ dit > InterimEnd(sent) + 2 THEN sent.size ELSE -1
    BY <2>1 DEF AtHeaders
  <2>3. Untouched'
    BY <1>1, <2>1 DEF Untouched, processor
  <2>4. sent' = sent /\ stale' = stale
    BY <1>1 DEF start
  <2>5. InterimEnd(sent) \in Nat /\ HeadEnd(sent) \in Nat
    BY <1>4, LengthsAre
  <2>6. InterimEnd(sent) + 2 <= dit' /\ dit' <= HeadEnd(sent) /\ dit' > InterimEnd(sent) + 2
    BY <1>2, <2>1, <2>2, <2>5
  <2>7. CASE /\ Unit = ContentLength(sent.size)
             /\ HasLength(sent) /\ dit = InterimEnd(sent) + 2 /\ dit < HeadEnd(sent)
             /\ IsChunked(sent) => dit + 1 # HeadEnd(sent)
    <3>1. Unit.kind = "content-length" /\ Unit.value = sent.size
      BY <2>7 DEF ContentLength
    <3>2. headers.chunked <=> stale.chunked
      BY <2>2, <2>7
    <3>3. ~(IsChunked(sent) /\ dit' = HeadEnd(sent))
      BY <1>2, <2>7
    <3>4. headers.length = IF stale.length # -1 THEN stale.length ELSE -1
      BY <2>2, <2>5, <2>7
    <3>5. headers' = IF headers.length = -1 THEN [headers EXCEPT !.length = sent.size]
                     ELSE headers
      BY <1>1, <3>1
    <3>6. headers'.chunked = headers.chunked
      BY <1>6, <3>5
    <3>7. headers'.length = IF stale.length # -1 THEN stale.length ELSE sent.size
      BY <1>6, <3>4, <3>5
    <3>8. headers'.chunked <=> stale.chunked \/ (IsChunked(sent) /\ dit' = HeadEnd(sent))
      BY <3>2, <3>3, <3>6
    <3> QED
      BY <1>1, <2>1, <2>2, <2>3, <2>4, <2>6, <2>7, <3>7, <3>8
      DEF AtHeaders, Understands, processor
  <2>8. CASE /\ Unit = TransferEncoding
             /\ IsChunked(sent) /\ dit = HeadEnd(sent) - 1
             /\ HasLength(sent) => dit > InterimEnd(sent) + 2
    <3>1. Unit.kind = "transfer-encoding"
      BY <2>8 DEF TransferEncoding
    <3>2. headers' = [headers EXCEPT !.chunked = TRUE]
      BY <1>1, <3>1
    <3>3. headers'.chunked = TRUE /\ headers'.length = headers.length
      BY <1>6, <3>2
    <3>4. dit' = HeadEnd(sent)
      BY <1>2, <2>5, <2>8
    <3>5. headers'.length =
            IF stale.length # -1 THEN stale.length
            ELSE IF HasLength(sent) /\ dit' > InterimEnd(sent) + 2 THEN sent.size ELSE -1
      BY <2>2, <2>6, <2>8, <3>3
    <3>6. headers'.chunked <=> stale.chunked \/ (IsChunked(sent) /\ dit' = HeadEnd(sent))
      BY <2>8, <3>3, <3>4
    <3> QED
      BY <1>1, <2>1, <2>2, <2>3, <2>4, <2>6, <3>5, <3>6
      DEF AtHeaders, Understands, processor
  <2> QED
    BY <2>1, <2>7, <2>8
<1>12. ASSUME Fresh, sent.interim = 102
       PROVE  FALSE
  BY <1>1, <1>10, <1>12, InHeaders
<1>13. Parsed'
  BY <1>1, <1>3, <1>11, <1>12 DEF Parsed, start
<1> QED
  BY <1>2, <1>7, <1>8, <1>9, <1>13 DEF ProcessorInv

LEMMA ProcessHeaderThrowsKeeps ==
  ASSUME ProcessorInv, ProcessHeaderThrows
  PROVE  ProcessorInv'
<1>1. /\ Line("HEADERS") /\ line_buffer' = FALSE /\ pc' = "threw"
      /\ response_state = "HEADERS" /\ ~AtEnd
      /\ Unit.kind = "spaces"
      /\ UNCHANGED <<processor, headers, body, received, count, start>>
  BY DEF ProcessHeaderThrows, Line
<1>2. /\ Received' /\ dit \in Nat /\ dit' \in Nat /\ dit' = dit + 1
      /\ dit' <= Len(received') + 1
  BY <1>1, LineIsKept DEF LineStates
<1>3. Fresh' <=> Fresh
  BY <1>1, StartIsKept
<1>4. sent.spaces
  BY <1>1, UnitIs, UnitFields
<1>5. TypeOK'
  <2>1. TypeOK
    BY DEF ProcessorInv
  <2>2. dit' \in Int /\ dit' >= 1 /\ line_buffer' \in BOOLEAN
    <3>1. dit' \in Int /\ dit' >= 1
      BY <1>2
    <3>2. line_buffer' \in BOOLEAN
      BY <1>1
    <3> QED
      BY <3>1, <3>2, Zenon
  <2> QED
    BY <1>1, <1>2, <2>1, <2>2 DEF TypeOK, start, processor
<1>6. BytesAreLeft' /\ Taken'
  BY <1>1 DEF BytesAreLeft, Taken, processor, ProcessorInv
<1>7. FailsOnlyIf'
  BY <1>1, <1>4 DEF FailsOnlyIf, Beyond, start
<1>8. Parsed'
  <2>1. ASSUME Fresh
        PROVE  body = <<>>
    BY <1>1, <2>1, InHeaders DEF Untouched
  <2> QED
    BY <1>1, <1>3, <2>1 DEF Parsed
<1> QED
  BY <1>2, <1>5, <1>6, <1>7, <1>8 DEF ProcessorInv

LEMMA ProcessHeadersContinueKeeps ==
  ASSUME ProcessorInv, ProcessHeadersContinue
  PROVE  ProcessorInv'
<1>1. /\ Line("HEADERS") /\ pc = "parse" /\ line_buffer' = FALSE
      /\ response_state = "HEADERS" /\ ~AtEnd
      /\ http_code = 100 /\ response_state' = "STATUSLINE"
      /\ UNCHANGED <<pc, http_code, chunked_response, chunk_bytes_left,
                     chunk_bytes_read, chunk_length, headers, body, received, count, start>>
  BY DEF ProcessHeadersContinue, Line
<1>2. /\ Received' /\ dit \in Nat /\ dit' \in Nat /\ dit' = dit + 1
      /\ dit' <= Len(received') + 1
  BY <1>1, LineIsKept DEF LineStates
<1>3. Fresh' <=> Fresh
  BY <1>1, StartIsKept
<1>4. TypeOK'
  <2>1. TypeOK
    BY DEF ProcessorInv
  <2>2. dit' \in Int /\ dit' >= 1 /\ line_buffer' \in BOOLEAN
    <3>1. dit' \in Int /\ dit' >= 1
      BY <1>2
    <3>2. line_buffer' \in BOOLEAN
      BY <1>1
    <3> QED
      BY <3>1, <3>2, Zenon
  <2>3. response_state' \in States
    BY <1>1 DEF States, LineStates
  <2> QED
    BY <1>1, <1>2, <2>1, <2>2, <2>3 DEF TypeOK, start
<1>5. BytesAreLeft' /\ Taken'
  BY <1>1 DEF BytesAreLeft, Taken
<1>6. FailsOnlyIf'
  BY <1>1 DEF FailsOnlyIf, Beyond
<1>7. ASSUME Fresh, sent.interim # 102
      PROVE  Understands'
  <2>1. Untouched /\ (AtInterim \/ AtHeaders)
    BY <1>1, <1>7, InHeaders
  <2>2. AtInterim
    <3>1. Code(sent) # 100
      BY DEF Code
    <3> QED
      BY <1>1, <2>1, <3>1 DEF AtHeaders
  <2>3. dit = 2 /\ sent.interim = 100 /\ headers = stale
    BY <2>2 DEF AtInterim
  <2>4. dit' = InterimEnd(sent) + 1
    BY <1>2, <2>3 DEF InterimEnd
  <2>5. Untouched'
    BY <1>1, <2>1 DEF Untouched
  <2>6. AtStatusLine'
    BY <1>1, <2>3, <2>4, <2>5 DEF AtStatusLine, start
  <2> QED
    BY <1>1, <2>6 DEF Understands
<1>8. ASSUME Fresh, sent.interim = 102
      PROVE  FALSE
  BY <1>1, <1>8, InHeaders
<1>9. Parsed'
  BY <1>1, <1>3, <1>7, <1>8 DEF Parsed, start
<1> QED
  BY <1>2, <1>4, <1>5, <1>6, <1>9 DEF ProcessorInv

-----------------------------------------------------------------------------
(* The end of the headers. *)
LEMMA BeginBodyTypes ==
  ASSUME TypeOK, BeginBody, dit' \in Int, dit' >= 1, dit' <= Len(received') + 1
  PROVE  TypeOK' /\ BytesAreLeft'
<1>1. /\ line_buffer' = FALSE
      /\ chunked_response' = (chunked_response \/ headers.chunked)
      /\ chunk_bytes_left' = IF headers.chunked THEN -1 ELSE chunk_bytes_left
      /\ chunk_length' =
           IF HasNoBody(http_code) THEN 0
           ELSE IF headers.length # -1 /\ ~chunked_response' THEN headers.length
           ELSE chunk_length
      /\ response_state' = IF chunked_response' THEN "CHUNK_LEN" ELSE "BODY"
      /\ UNCHANGED <<pc, http_code, chunk_bytes_read, headers, body, received, count, start>>
  BY DEF BeginBody, Line
<1>2. headers.chunked \in BOOLEAN /\ headers.length \in -1..MaxSize
  BY DEF TypeOK
<1>3. chunked_response' \in BOOLEAN
  <2>1. chunked_response \in BOOLEAN
    BY DEF TypeOK
  <2> QED
    BY <1>1, <1>2, <2>1, Zenon
<1>4. chunk_bytes_left' \in -1..(MaxSize + 12)
  BY <1>1, BoundsAssumption DEF TypeOK
<1>5. chunk_length' \in -1..MaxSize
  BY <1>1, <1>2, BoundsAssumption DEF TypeOK
<1>6. response_state' \in States
  BY <1>1 DEF States, LineStates
<1>7. line_buffer' \in BOOLEAN
  BY <1>1
<1>8. TypeOK'
  BY <1>1, <1>3, <1>4, <1>5, <1>6, <1>7 DEF TypeOK, start
<1>9. response_state' = "BODY" => ~chunked_response'
  BY <1>1, <1>3
<1> QED
  BY <1>8, <1>9 DEF BytesAreLeft

LEMMA BeginBodyKeeps ==
  ASSUME ProcessorInv, BeginBody
  PROVE  ProcessorInv'
<1>1. /\ Line("HEADERS") /\ pc = "parse" /\ line_buffer' = FALSE
      /\ response_state = "HEADERS" /\ ~AtEnd
      /\ Unit.kind = "empty" /\ http_code # 100
      /\ chunked_response' = (chunked_response \/ headers.chunked)
      /\ chunk_length' =
           IF HasNoBody(http_code) THEN 0
           ELSE IF headers.length # -1 /\ ~chunked_response' THEN headers.length
           ELSE chunk_length
      /\ response_state' = IF chunked_response' THEN "CHUNK_LEN" ELSE "BODY"
      /\ UNCHANGED <<pc, http_code, chunk_bytes_read, headers, body, received, count, start>>
  BY DEF BeginBody, Line
<1>2. /\ Received' /\ dit \in Nat /\ dit' \in Nat /\ dit' = dit + 1
      /\ dit' <= Len(received') + 1
  BY <1>1, LineIsKept DEF LineStates
<1>3. Fresh' <=> Fresh
  BY <1>1, StartIsKept
<1>4. sent \in Responses
  BY <1>1, UnitIs
<1>5. TypeOK
  BY DEF ProcessorInv
<1>6. TypeOK' /\ BytesAreLeft'
  <2>1. dit' \in Int /\ dit' >= 1
    BY <1>2
  <2> QED
    BY <1>2, <1>5, <2>1, BeginBodyTypes
<1>7. Taken' /\ FailsOnlyIf'
  BY <1>1 DEF Taken, FailsOnlyIf, Beyond
<1>8. Unit # SpacesHeader /\ Unit # TransferEncoding /\ Unit # ContentLength(sent.size)
  BY <1>1 DEF SpacesHeader, TransferEncoding, ContentLength
<1>9. headers.chunked \in BOOLEAN /\ stale.chunked \in BOOLEAN /\ chunked_response' \in BOOLEAN
  <2>1. headers.chunked \in BOOLEAN /\ stale.chunked \in BOOLEAN
    BY <1>5 DEF TypeOK
  <2>2. chunked_response' \in BOOLEAN
    BY <1>6 DEF TypeOK
  <2> QED
    BY <2>1, <2>2
<1>10. ASSUME Fresh, sent.interim # 102
       PROVE  Understands'
  <2>1. AtHeaders /\ Untouched /\ ~sent.spaces /\ dit = HeadEnd(sent)
    <3>1. ~AtInterim
      BY <1>1 DEF AtInterim
    <3> QED
      BY <1>1, <1>8, <1>10, <3>1, InHeaders
  <2>2. /\ HeadEnd(sent) \in Nat /\ InterimEnd(sent) \in Nat
        /\ HasLength(sent) => InterimEnd(sent) + 3 <= HeadEnd(sent)
    BY <1>4, LengthsAre
  <2>3. /\ http_code = Code(sent)
        /\ headers.chunked <=> stale.chunked \/ IsChunked(sent)
        /\ headers.length =
             IF stale.length # -1 THEN stale.length
             ELSE IF HasLength(sent) THEN sent.size ELSE -1
    <3>1. HasLength(sent) => dit > InterimEnd(sent) + 2
      BY <2>1, <2>2
    <3> QED
      BY <2>1, <3>1 DEF AtHeaders
  <2>4. /\ chunked_response = FALSE /\ chunk_bytes_read = 0 /\ body = <<>>
        /\ count = Len(received)
    BY <2>1 DEF Untouched
  <2>5. chunked_response' = headers.chunked
    BY <1>1, <1>9, <2>4, Zenon
  <2>6. dit' = HeadEnd(sent) + 1
    BY <1>2, <2>1
  <2>7. sent' = sent /\ stale' = stale
    BY <1>1 DEF start
  <2>8. /\ stale.chunked => IsChunked(sent) \/ sent.framing = "no content"
        /\ stale.length # -1 /\ sent.framing = "length" => stale.length = sent.size
    BY <1>10 DEF Fresh, Agree
  <2>9. CASE IsChunked(sent)
    <3>1. chunked_response' = TRUE /\ response_state' = "CHUNK_LEN"
      BY <1>1, <1>9, <2>3, <2>5, <2>9
    <3>2. 0 \in Bounds(sent)
      BY DEF Bounds
    <3>3. body' = Payload(1, 0)
      BY <1>1, <2>4, BeginningIs
    <3>4. count' = Len(received') - 0
      <4>1. Len(received) \in Nat
        BY <1>1, UnitIs
      <4> QED
        BY <1>1, <2>4, <4>1
    <3>5. dit' = HeadEnd(sent) + Offset(sent, 0) + 1
      BY <2>2, <2>6 DEF Offset
    <3>6. AtChunk(0)'
      BY <2>7, <3>1, <3>3, <3>4, <3>5 DEF AtChunk
    <3>7. AtChunks'
      BY <2>7, <2>9, <3>1, <3>2, <3>6 DEF AtChunks
    <3> QED
      BY <1>1, <2>1, <2>7, <3>7 DEF Understands
  <2>10. CASE ~IsChunked(sent) /\ stale.chunked
    <3>1. sent.framing = "no content"
      BY <2>8, <2>10
    <3>2. response_state' = "CHUNK_LEN"
      BY <1>1, <1>9, <2>3, <2>5, <2>10
    <3>3. AtNoContent'
      BY <1>1, <2>4, <2>6, <2>7, <3>1, <3>2 DEF AtNoContent
    <3> QED
      BY <1>1, <2>1, <2>7, <3>3 DEF Understands
  <2>11. CASE ~IsChunked(sent) /\ ~stale.chunked
    <3>1. ~chunked_response' /\ response_state' = "BODY"
      BY <1>1, <1>9, <2>3, <2>5, <2>11
    <3>2. ASSUME sent.framing = "length"
          PROVE  chunk_length' = sent.size
      <4>1. HasLength(sent) /\ ~HasNoBody(http_code)
        BY <2>3, <3>2 DEF HasLength, HasNoBody, IsInformational, Code
      <4>2. headers.length = sent.size
        BY <2>3, <2>8, <3>2, <4>1
      <4>3. sent.size # -1
        <5>1. sent.size \in Nat
          BY <1>4, ResponseFields
        <5> QED
          BY <5>1
      <4> QED
        BY <1>1, <3>1, <4>1, <4>2, <4>3
    <3>3. AtPlainBody'
      BY <1>1, <2>4, <2>6, <2>7, <2>11, <3>1, <3>2 DEF AtPlainBody
    <3> QED
      BY <1>1, <2>1, <2>7, <3>3 DEF Understands
  <2> QED
    BY <2>9, <2>10, <2>11
<1>11. ASSUME Fresh, sent.interim = 102
       PROVE  MisunderstandsInterim'
  <2>1. Untouched /\ dit = 2 /\ http_code = 102
    BY <1>1, <1>11, InHeaders
  <2>2. chunk_length' = 0 /\ chunk_bytes_read' = 0 /\ dit' = 3
    BY <1>1, <1>2, <2>1 DEF Untouched, HasNoBody, IsInformational
  <2>3. CASE chunked_response'
    BY <1>1, <2>2, <2>3 DEF MisunderstandsInterim
  <2>4. CASE ~chunked_response'
    BY <1>1, <2>2, <2>4 DEF MisunderstandsInterim
  <2> QED
    BY <2>3, <2>4
<1>12. Parsed'
  BY <1>1, <1>3, <1>10, <1>11 DEF Parsed, start
<1> QED
  BY <1>2, <1>6, <1>7, <1>12 DEF ProcessorInv

-----------------------------------------------------------------------------
(* The lines between chunks and after them. *)
LEMMA ProcessChunkLengthLineKeeps ==
  ASSUME ProcessorInv, ProcessChunkLengthLine
  PROVE  ProcessorInv'
<1>1. /\ Line("CHUNK_LEN") /\ pc = "parse" /\ line_buffer' = FALSE
      /\ response_state = "CHUNK_LEN" /\ ~AtEnd
      /\ chunk_bytes_left' = Hex(Unit)
      /\ response_state' = IF chunk_bytes_left' # 0 THEN "BODY" ELSE "FOOTERS"
      /\ UNCHANGED <<pc, http_code, chunked_response, chunk_bytes_read,
                     chunk_length, headers, body, received, count, start>>
  BY DEF ProcessChunkLengthLine, Line
<1>2. /\ Received' /\ dit \in Nat /\ dit' \in Nat /\ dit' = dit + 1
      /\ dit' <= Len(received') + 1
  BY <1>1, LineIsKept DEF LineStates
<1>3. Fresh' <=> Fresh
  BY <1>1, StartIsKept
<1>4. /\ sent \in Responses /\ Unit \in UnitsOf(sent) /\ dit <= Length(sent)
      /\ line_buffer = FALSE => Unit = Units(sent)[dit]
  BY <1>1, UnitIs
<1>5. chunk_bytes_left' \in Nat /\ chunk_bytes_left' \in -1..(MaxSize + 12)
  <2>1. CASE Unit.kind = "chunk length"
    <3>1. Unit.value \in Nat /\ Unit.value <= MaxSize
      BY <1>4, <2>1, UnitFields
    <3>2. chunk_bytes_left' = Unit.value
      BY <1>1, <2>1 DEF Hex
    <3> QED
      BY <3>1, <3>2, BoundsAssumption
  <2>2. CASE Unit.kind # "chunk length"
    <3>1. chunk_bytes_left' \in {0, 12}
      BY <1>1, <2>2 DEF Hex
    <3> QED
      BY <3>1, BoundsAssumption
  <2> QED
    BY <2>1, <2>2
<1>6. TypeOK'
  <2>1. TypeOK
    BY DEF ProcessorInv
  <2>2. dit' \in Int /\ dit' >= 1
    BY <1>2
  <2>3. line_buffer' \in BOOLEAN
    BY <1>1
  <2>4. response_state' \in States
    BY <1>1 DEF States, LineStates
  <2> QED
    BY <1>1, <1>2, <1>5, <2>1, <2>2, <2>3, <2>4 DEF TypeOK, start
<1>7. BytesAreLeft'
  BY <1>1, <1>5 DEF BytesAreLeft
<1>8. Taken' /\ FailsOnlyIf'
  BY <1>1 DEF Taken, FailsOnlyIf, Beyond
<1>9. ASSUME Fresh, sent.interim # 102
      PROVE  Understands'
  <2>1. Understands
    BY <1>1, <1>9 DEF ProcessorInv, Parsed
  <2>2. line_buffer = FALSE /\ ~sent.spaces /\ (AtNoContent \/ AtChunks)
    BY <1>1, <2>1 DEF Understands, AtStatusLine, AtInterim, AtHeaders, AtPlainBody,
                      AtFooters, AtComplete
  <2>3. ~AtNoContent
    <3> SUFFICES ASSUME AtNoContent
                 PROVE  FALSE
      OBVIOUS
    <3>1. sent.framing = "no content" /\ dit = HeadEnd(sent) + 1
      BY DEF AtNoContent
    <3>2. ~IsChunked(sent) /\ sent.size = 0
      BY <1>4, <3>1, ResponseFields DEF IsChunked
    <3>3. HeadEnd(sent) \in Nat /\ Length(sent) = HeadEnd(sent) + sent.size
      BY <1>4, <3>2, LengthsAre
    <3>4. Length(sent) = HeadEnd(sent) /\ HeadEnd(sent) \in Nat
      BY <3>2, <3>3
    <3>5. dit <= Length(sent) /\ dit = HeadEnd(sent) + 1
      BY <1>4, <3>1
    <3> QED
      BY <3>4, <3>5
  <2>4. IsChunked(sent) /\ chunked_response
    BY <2>2, <2>3 DEF AtChunks
  <2>5. PICK b \in Bounds(sent) : AtChunk(b)
    BY <2>2, <2>3 DEF AtChunks
  <2>6. /\ body = Payload(1, b) /\ count = Len(received) - b
        /\ dit = HeadEnd(sent) + Offset(sent, b) + 1
    BY <1>1, <2>5 DEF AtChunk
  <2>7. /\ b \in Nat /\ b <= sent.size /\ sent.size \in Nat /\ Offset(sent, b) \in Nat
        /\ b < sent.size => ChunkEnd(sent, b) > b /\ ChunkEnd(sent, b) \in Nat
        /\ HeadEnd(sent) \in Nat
    <3>1. /\ b \in Nat /\ b <= sent.size /\ Offset(sent, b) \in Nat
          /\ b < sent.size => ChunkEnd(sent, b) > b /\ ChunkEnd(sent, b) \in Bounds(sent)
      BY <1>4, <2>4, BoundsAre
    <3>2. \A c \in Bounds(sent) : c \in Nat
      BY <1>4, <2>4, BoundsAre
    <3>3. sent.size \in Nat /\ HeadEnd(sent) \in Nat
      BY <1>4, ResponseFields, LengthsAre
    <3> QED
      BY <3>1, <3>2, <3>3
  <2>8. Unit = Units(sent)[dit]
    BY <1>4, <2>2
  <2>9. CASE b < sent.size
    <3>1. Units(sent)[dit] = ChunkLength(ChunkEnd(sent, b) - b)
      BY <1>4, <2>4, <2>6, <2>9, ChunkUnits
    <3>2. chunk_bytes_left' = ChunkEnd(sent, b) - b
      <4>1. Unit = ChunkLength(ChunkEnd(sent, b) - b)
        BY <2>8, <3>1
      <4>2. Unit.kind = "chunk length" /\ Unit.value = ChunkEnd(sent, b) - b
        BY <4>1 DEF ChunkLength
      <4> QED
        BY <1>1, <4>2 DEF Hex
    <3>3. response_state' = "BODY"
      BY <1>1, <2>7, <2>9, <3>2
    <3>4. dit' = HeadEnd(sent) + Offset(sent, b) + 2
      BY <1>2, <2>6, <2>7
    <3>5. sent' = sent
      BY <1>1 DEF start
    <3>6. AtChunk(b)'
      BY <1>1, <2>6, <2>9, <3>2, <3>3, <3>4, <3>5 DEF AtChunk
    <3>7. AtChunks'
      BY <1>1, <2>4, <2>5, <3>5, <3>6 DEF AtChunks
    <3> QED
      BY <1>1, <2>2, <3>5, <3>7 DEF Understands
  <2>10. CASE b = sent.size
    <3>1. Units(sent)[dit] = ChunkLength(0)
      BY <1>4, <2>4, <2>6, <2>10, ChunkUnits
    <3>2. chunk_bytes_left' = 0
      <4>1. Unit = ChunkLength(0)
        BY <2>8, <3>1
      <4>2. Unit.kind = "chunk length" /\ Unit.value = 0
        BY <4>1 DEF ChunkLength
      <4> QED
        BY <1>1, <4>2 DEF Hex
    <3>3. AtFooters'
      BY <1>1, <2>6, <2>10, <3>2 DEF AtFooters, BodySent, start
    <3> QED
      BY <3>3 DEF Understands
  <2> QED
    BY <2>7, <2>9, <2>10
<1>10. ASSUME Fresh, sent.interim = 102
       PROVE  MisunderstandsInterim'
  <2>1. MisunderstandsInterim
    BY <1>1, <1>10 DEF ProcessorInv, Parsed
  <2>2. dit = 3 /\ line_buffer = FALSE
    BY <1>1, <2>1 DEF MisunderstandsInterim
  <2>3. InterimEnd(sent) = 2
    BY <1>4, <1>10, LengthsAre
  <2>4. Units(sent)[3] = Status(Code(sent))
    BY <1>4, <2>3, HeadUnits
  <2>5. Unit = Status(Code(sent))
    BY <1>4, <2>2, <2>4
  <2>6. response_state' = "FOOTERS"
    BY <1>1, <2>5 DEF Hex, Status
  <2> QED
    BY <2>6 DEF MisunderstandsInterim
<1>11. Parsed'
  BY <1>1, <1>3, <1>9, <1>10 DEF Parsed, start
<1> QED
  BY <1>2, <1>6, <1>7, <1>8, <1>11 DEF ProcessorInv

LEMMA ProcessChunkEndKeeps ==
  ASSUME ProcessorInv, ProcessChunkEnd
  PROVE  ProcessorInv'
<1>1. /\ Line("CHUNK_END") /\ pc = "parse" /\ line_buffer' = FALSE
      /\ response_state = "CHUNK_END" /\ ~AtEnd
      /\ response_state' = "CHUNK_LEN"
      /\ UNCHANGED <<pc, http_code, chunked_response, chunk_bytes_left, chunk_bytes_read,
                     chunk_length, headers, body, received, count, start>>
  BY DEF ProcessChunkEnd, Line
<1>2. /\ Received' /\ dit \in Nat /\ dit' \in Nat /\ dit' = dit + 1
      /\ dit' <= Len(received') + 1
  BY <1>1, LineIsKept DEF LineStates
<1>3. Fresh' <=> Fresh
  BY <1>1, StartIsKept
<1>4. sent \in Responses
  BY <1>1, UnitIs
<1>5. TypeOK'
  <2>1. TypeOK
    BY DEF ProcessorInv
  <2>2. dit' \in Int /\ dit' >= 1
    BY <1>2
  <2>3. line_buffer' \in BOOLEAN
    BY <1>1
  <2>4. response_state' \in States
    BY <1>1 DEF States, LineStates
  <2> QED
    BY <1>1, <1>2, <2>1, <2>2, <2>3, <2>4 DEF TypeOK, start
<1>6. BytesAreLeft' /\ Taken' /\ FailsOnlyIf'
  BY <1>1 DEF BytesAreLeft, Taken, FailsOnlyIf, Beyond
<1>7. ASSUME Fresh, sent.interim # 102
      PROVE  Understands'
  <2>1. Understands
    BY <1>1, <1>7 DEF ProcessorInv, Parsed
  <2>2. line_buffer = FALSE /\ ~sent.spaces /\ AtChunks
    BY <1>1, <2>1 DEF Understands, AtStatusLine, AtInterim, AtHeaders, AtPlainBody,
                      AtNoContent, AtFooters, AtComplete
  <2>3. IsChunked(sent) /\ chunked_response
    BY <2>2 DEF AtChunks
  <2>4. PICK b \in Bounds(sent) : AtChunk(b)
    BY <2>2 DEF AtChunks
  <2>5. /\ body = Payload(1, b) /\ count = Len(received) - b
        /\ dit = HeadEnd(sent) + Offset(sent, b)
    BY <1>1, <2>4 DEF AtChunk
  <2>6. dit' = HeadEnd(sent) + Offset(sent, b) + 1
    BY <1>2, <2>5
  <2>7. sent' = sent
    BY <1>1 DEF start
  <2>8. AtChunk(b)'
    BY <1>1, <2>5, <2>6, <2>7 DEF AtChunk
  <2>9. AtChunks'
    BY <1>1, <2>3, <2>4, <2>7, <2>8 DEF AtChunks
  <2> QED
    BY <1>1, <2>2, <2>7, <2>9 DEF Understands
<1>8. ASSUME Fresh, sent.interim = 102
      PROVE  FALSE
  BY <1>1, <1>8 DEF ProcessorInv, Parsed, MisunderstandsInterim
<1>9. Parsed'
  BY <1>1, <1>3, <1>7, <1>8 DEF Parsed, start
<1> QED
  BY <1>2, <1>5, <1>6, <1>9 DEF ProcessorInv

LEMMA ProcessFooterLineKeeps ==
  ASSUME ProcessorInv, ProcessFooterLine
  PROVE  ProcessorInv'
<1>1. /\ Line("FOOTERS") /\ pc = "parse" /\ line_buffer' = FALSE
      /\ response_state = "FOOTERS" /\ ~AtEnd
      /\ response_state' \in {"COMPLETE", "FOOTERS"}
      /\ UNCHANGED <<pc, http_code, chunked_response, chunk_bytes_left, chunk_bytes_read,
                     chunk_length, headers, body, received, count, start>>
  BY DEF ProcessFooterLine, Line
<1>2. /\ Received' /\ dit \in Nat /\ dit' \in Nat /\ dit' = dit + 1
      /\ dit' <= Len(received') + 1
  BY <1>1, LineIsKept DEF LineStates
<1>3. Fresh' <=> Fresh
  BY <1>1, StartIsKept
<1>4. sent \in Responses
  BY <1>1, UnitIs
<1>5. TypeOK'
  <2>1. TypeOK
    BY DEF ProcessorInv
  <2>2. dit' \in Int /\ dit' >= 1
    BY <1>2
  <2>3. line_buffer' \in BOOLEAN
    BY <1>1
  <2>4. response_state' \in States
    BY <1>1 DEF States, LineStates
  <2> QED
    BY <1>1, <1>2, <2>1, <2>2, <2>3, <2>4 DEF TypeOK, start
<1>6. BytesAreLeft' /\ Taken' /\ FailsOnlyIf'
  BY <1>1 DEF BytesAreLeft, Taken, FailsOnlyIf, Beyond
<1>7. ASSUME Fresh, sent.interim # 102
      PROVE  Understands'
  <2>1. Understands
    BY <1>1, <1>7 DEF ProcessorInv, Parsed
  <2>2. AtFooters
    BY <1>1, <2>1 DEF Understands, AtStatusLine, AtInterim, AtHeaders, AtPlainBody,
                      AtNoContent, AtChunks, AtChunk, AtComplete
  <2>3. body' = Payload(1, sent.size) /\ body' = BodySent' /\ sent' = sent
    BY <1>1, <2>2 DEF AtFooters, BodySent, start
  <2>4. CASE response_state' = "FOOTERS"
    BY <2>3, <2>4 DEF AtFooters, Understands
  <2>5. CASE response_state' = "COMPLETE"
    <3>1. sent.size \in 0..sent.size
      <4>1. sent.size \in Nat
        BY <1>4, ResponseFields
      <4> QED
        BY <4>1
    <3> QED
      BY <2>3, <2>5, <3>1 DEF AtComplete, Understands
  <2> QED
    BY <1>1, <2>4, <2>5
<1>8. MisunderstandsInterim'
  BY <1>1 DEF MisunderstandsInterim
<1>9. Parsed'
  BY <1>1, <1>3, <1>7, <1>8 DEF Parsed, start
<1> QED
  BY <1>2, <1>5, <1>6, <1>9 DEF ProcessorInv

-----------------------------------------------------------------------------
(* The payload. *)
LEMMA PassedOn ==
  ASSUME TypeOK, Received, NEW b \in Nat, NEW n \in Nat,
         body = Payload(1, b), dit >= 1, n <= Available,
         \A j \in 1..n : Units(sent)[dit + j - 1] = Byte(b + j)
  PROVE  body \o SubSeq(received, dit, dit + n - 1) = Payload(1, b + n)
<1> DEFINE S == UnitsOf(sent)
           part == SubSeq(received, dit, dit + n - 1)
<1>1. /\ sent \in Responses /\ received \in Seq(S) /\ Len(received) \in Nat
      /\ \A i \in 1..Len(received) : received[i] = Units(sent)[i]
  BY Here
<1>2. \A i \in Nat : Byte(i) \in S
  BY <1>1, KindsOfUnits
<1> HIDE DEF S
<1>3. dit \in Int /\ dit >= 1 /\ dit <= Len(received) + 1
  BY DEF TypeOK
<1>4. n <= Len(received) - dit + 1
  BY DEF Available
<1>5. dit \in 1..(Len(received) + 1) /\ dit + n - 1 \in (dit - 1)..Len(received)
  BY <1>1, <1>3, <1>4
<1>6. /\ part \in Seq(S) /\ Len(part) = (dit + n - 1) - dit + 1
      /\ \A i \in 1..((dit + n - 1) - dit + 1) : part[i] = received[dit + i - 1]
  BY <1>1, <1>5, SubSeqProperties
<1> HIDE DEF part
<1>7. (dit + n - 1) - dit + 1 = n
  BY <1>3
<1>8. part \in Seq(S) /\ Len(part) = n
  BY <1>6, <1>7
<1>9. ASSUME NEW i \in 1..n
      PROVE  part[i] = Byte(b + i)
  <2>1. part[i] = received[dit + i - 1]
    BY <1>6, <1>7
  <2>2. PICK k \in 1..Len(received) : k = dit + i - 1
    BY <1>1, <1>3, <1>4
  <2>3. received[k] = Units(sent)[k]
    BY <1>1
  <2> QED
    BY <2>1, <2>2, <2>3
<1> DEFINE t == Payload(1, b)
           u == Payload(1, b + n)
<1>10. 1 \in Nat \ {0} /\ b + n \in Nat /\ 1 <= b + 1 /\ 1 <= b + n + 1
  OBVIOUS
<1>11. t \in Seq(S)
  BY <1>2, <1>10, PayloadIs
<1>12. u \in Seq(S)
  BY <1>2, <1>10, PayloadIs
<1>13. Len(t) = b /\ \A i \in 1..b : t[i] = Byte(i)
  BY BeginningIs
<1>14. Len(u) = b + n /\ \A i \in 1..(b + n) : u[i] = Byte(i)
  BY <1>10, BeginningIs
<1> HIDE DEF t, u
<1> DEFINE tp == t \o part
<1>15. tp \in Seq(S) /\ Len(tp) = b + n
  BY <1>8, <1>11, <1>13, JoinedAt
<1>16. \A i \in 1..b : tp[i] = t[i]
  BY <1>8, <1>11, <1>13, JoinedAt
<1>17. \A j \in 1..n : tp[b + j] = part[j]
  BY <1>8, <1>11, <1>13, JoinedAt
<1> HIDE DEF tp
<1>18. ASSUME NEW i \in 1..(b + n)
       PROVE  tp[i] = u[i]
  <2>1. CASE i <= b
    BY <1>13, <1>14, <1>16, <2>1
  <2>2. CASE i > b
    <3>1. PICK j \in 1..n : j = i - b /\ i = b + j
      BY <2>2
    <3> QED
      BY <1>9, <1>14, <1>17, <3>1
  <2> QED
    BY <2>1, <2>2
<1>19. tp = u
  <2>1. Len(tp) = Len(u) /\ \A i \in 1..Len(tp) : tp[i] = u[i]
    BY <1>14, <1>15, <1>18
  <2> QED
    BY <1>12, <1>15, <2>1, SeqEqual
<1> QED
  BY <1>19 DEF tp, t, u, part

LEMMA ProcessDataChunkedKeeps ==
  ASSUME ProcessorInv, ProcessDataChunked
  PROVE  ProcessorInv'
<1>1. /\ pc = "parse" /\ ~AtEnd /\ response_state = "BODY" /\ chunked_response = TRUE
  BY DEF ProcessDataChunked, InBody
<1>2. PICK n : n = ChunkSize
  OBVIOUS
<1>3. /\ n <= Available
      /\ body' = body \o SubSeq(received, dit, dit + n - 1)
      /\ chunk_bytes_read' = chunk_bytes_read + n
      /\ dit' = dit + n /\ count' = count - n
      /\ chunk_bytes_left' = chunk_bytes_left - n
      /\ response_state' = IF chunk_bytes_left' = 0 THEN "CHUNK_END" ELSE "BODY"
      /\ UNCHANGED <<pc, http_code, chunked_response, chunk_length, headers,
                     received, line_buffer, start>>
  BY <1>2 DEF ProcessDataChunked, Write
<1>4. TypeOK /\ Received /\ BytesAreLeft
  BY DEF ProcessorInv
<1>5. /\ sent \in Responses /\ Len(received) \in Nat /\ dit \in Nat /\ 1 <= dit
      /\ dit <= Len(received)
  BY <1>1, UnitIs
<1>6. /\ count \in Nat /\ chunk_bytes_left \in Int /\ chunk_bytes_left > 0
      /\ chunk_bytes_left <= MaxSize + 12 /\ chunk_bytes_read \in Nat
  BY <1>1, <1>4, BoundsAssumption DEF TypeOK, BytesAreLeft
<1>7. /\ n \in Nat /\ n <= count /\ n <= chunk_bytes_left
      /\ n = count \/ n = chunk_bytes_left
  BY <1>2, <1>6 DEF ChunkSize, Least
<1>8. n <= Len(received) - dit + 1
  BY <1>3 DEF Available
<1>9. Received' /\ (Fresh' <=> Fresh)
  BY <1>3, <1>4, StartIsKept
<1>10. TypeOK'
  <2>1. dit' \in Int /\ dit' >= 1 /\ dit' <= Len(received) + 1
    BY <1>3, <1>5, <1>7, <1>8
  <2>2. chunk_bytes_left' \in -1..(MaxSize + 12)
    BY <1>3, <1>6, <1>7, BoundsAssumption
  <2>3. chunk_bytes_read' \in Nat /\ count' \in Nat
    BY <1>3, <1>6, <1>7
  <2>4. response_state' \in States
    BY <1>3 DEF States, LineStates
  <2> QED
    BY <1>3, <1>4, <2>1, <2>2, <2>3, <2>4 DEF TypeOK, start
<1>11. BytesAreLeft'
  BY <1>3, <1>6, <1>7 DEF BytesAreLeft
<1>12. Taken' /\ FailsOnlyIf'
  BY <1>1, <1>3 DEF Taken, FailsOnlyIf, Beyond
<1>13. ASSUME Fresh, sent.interim # 102
       PROVE  Understands'
  <2>1. Understands
    BY <1>1, <1>13 DEF ProcessorInv, Parsed
  <2>2. line_buffer = FALSE /\ ~sent.spaces /\ AtChunks
    BY <1>1, <2>1 DEF Understands, AtStatusLine, AtInterim, AtHeaders, AtPlainBody,
                      AtNoContent, AtFooters, AtComplete
  <2>3. IsChunked(sent) /\ chunked_response
    BY <2>2 DEF AtChunks
  <2>4. PICK b \in Bounds(sent) : AtChunk(b)
    BY <2>2 DEF AtChunks
  <2>5. /\ body = Payload(1, b) /\ count = Len(received) - b
        /\ dit = HeadEnd(sent) + Offset(sent, b) + 2
        /\ b < sent.size /\ chunk_bytes_left = ChunkEnd(sent, b) - b
    BY <1>1, <2>4 DEF AtChunk
  <2>6. /\ b \in Nat /\ Offset(sent, b) \in Nat
        /\ ChunkEnd(sent, b) \in Bounds(sent) /\ b < ChunkEnd(sent, b)
        /\ Offset(sent, ChunkEnd(sent, b)) = Offset(sent, b) + (ChunkEnd(sent, b) - b) + 2
    BY <1>5, <2>3, <2>5, BoundsAre
  <2>7. PICK c, o, h : c = ChunkEnd(sent, b) /\ o = Offset(sent, b) /\ h = HeadEnd(sent)
    OBVIOUS
  <2>8. c \in Nat /\ h \in Nat /\ b <= o
    <3>1. c \in Nat
      BY <1>5, <2>3, <2>6, <2>7, BoundsAre
    <3>2. h \in Nat
      BY <1>5, <2>7, LengthsAre
    <3>3. b <= o
      BY <2>6, <2>7 DEF Offset
    <3> QED
      BY <3>1, <3>2, <3>3
  <2>9. o \in Nat /\ dit = h + o + 2 /\ chunk_bytes_left = c - b /\ b < c
    BY <2>5, <2>6, <2>7
  <2>10. n = c - b
    <3>1. n # count
      BY <1>5, <1>8, <2>5, <2>6, <2>8, <2>9
    <3> QED
      BY <1>7, <2>9, <3>1
  <2>11. Offset(sent, c) = o + n + 2 /\ c = b + n
    <3>1. Offset(sent, c) = o + (c - b) + 2
      BY <2>6, <2>7
    <3> QED
      BY <2>6, <2>8, <2>9, <2>10, <3>1
  <2>12. body' = Payload(1, c)
    <3>1. \A j \in 1..n : Units(sent)[dit + j - 1] = Byte(b + j)
      <4>1. \A j \in 1..n : Units(sent)[h + o + 1 + j] = Byte(b + j)
        <5>1. \A j \in 1..(ChunkEnd(sent, b) - b) :
                Units(sent)[HeadEnd(sent) + Offset(sent, b) + 1 + j] = Byte(b + j)
          BY <1>5, <2>3, <2>5, ChunkUnits
        <5> QED
          BY <2>7, <2>10, <5>1
      <4>2. \A j \in 1..n : h + o + 1 + j = dit + j - 1
        BY <2>8, <2>9
      <4> QED
        BY <4>1, <4>2
    <3>2. body \o SubSeq(received, dit, dit + n - 1) = Payload(1, b + n)
      BY <1>3, <1>4, <1>5, <1>7, <2>5, <2>6, <3>1, PassedOn
    <3> QED
      BY <1>3, <2>11, <3>2
  <2>13. response_state' = "CHUNK_END"
    BY <1>3, <2>8, <2>9, <2>10, <2>6
  <2>14. count' = Len(received') - c
    <3>1. count' = Len(received) - b - n /\ received' = received
      BY <1>3, <2>5
    <3> QED
      BY <1>5, <1>7, <2>6, <2>11, <3>1
  <2>15. dit' = HeadEnd(sent) + Offset(sent, c)
    <3>1. dit' = h + o + 2 + n
      BY <1>3, <2>9
    <3>2. h + o + 2 + n = h + (o + n + 2)
      BY <1>7, <2>8, <2>9
    <3> QED
      BY <2>7, <2>11, <3>1, <3>2
  <2>16. c \in Bounds(sent) /\ c > 0 /\ sent' = sent
    BY <1>3, <2>6, <2>7, <2>8 DEF start
  <2>17. AtChunk(c)'
    BY <2>12, <2>13, <2>14, <2>15, <2>16 DEF AtChunk
  <2>18. AtChunks'
    BY <1>3, <2>3, <2>16, <2>17 DEF AtChunks
  <2> QED
    BY <1>3, <2>2, <2>16, <2>18 DEF Understands
<1>14. ASSUME Fresh, sent.interim = 102
       PROVE  FALSE
  BY <1>1, <1>14 DEF ProcessorInv, Parsed, MisunderstandsInterim
<1>15. Parsed'
  BY <1>1, <1>3, <1>9, <1>13, <1>14 DEF Parsed, start
<1> QED
  BY <1>9, <1>10, <1>11, <1>12, <1>15 DEF ProcessorInv

(* How much there is of a body that is not chunked. *)
LEMMA PlainSizeIs ==
  ASSUME ProcessorInv, InBody(FALSE), NEW n, n = PlainSize
  PROVE  /\ n \in Int /\ n <= count
         /\ n = count \/ (chunk_length # -1 /\ n = chunk_length - chunk_bytes_read)
         /\ chunk_length = -1 => n = count
         /\ chunk_length # -1 /\ n = count => n <= chunk_length - chunk_bytes_read
<1>1. /\ count \in Nat /\ chunk_bytes_read \in Nat
      /\ chunk_length \in Int
  BY BoundsAssumption DEF ProcessorInv, TypeOK
<1> QED
  BY <1>1 DEF PlainSize, Least

LEMMA ProcessDataNonChunkedKeeps ==
  ASSUME ProcessorInv, ProcessDataNonChunked
  PROVE  ProcessorInv'
<1>1. /\ InBody(FALSE) /\ pc = "parse" /\ ~AtEnd
      /\ response_state = "BODY" /\ chunked_response = FALSE
  BY DEF ProcessDataNonChunked, InBody
<1>2. PICK n : n = PlainSize
  OBVIOUS
<1>3. /\ n <= Available
      /\ body' = body \o SubSeq(received, dit, dit + n - 1)
      /\ chunk_bytes_read' = chunk_bytes_read + n
      /\ dit' = dit + n /\ count' = count - n
      /\ chunk_bytes_left' = chunk_bytes_left
      /\ response_state' =
           IF chunk_length # -1 /\ chunk_bytes_read' = chunk_length
           THEN "COMPLETE" ELSE "BODY"
      /\ UNCHANGED <<pc, http_code, chunked_response, chunk_length, headers,
                     received, line_buffer, start>>
  BY <1>2 DEF ProcessDataNonChunked, Write
<1>4. TypeOK /\ Received /\ Parsed
  BY DEF ProcessorInv
<1>5. /\ sent \in Responses /\ Len(received) \in Nat /\ dit \in Nat /\ 1 <= dit
      /\ dit <= Len(received) /\ Len(received) <= Length(sent)
  BY <1>1, <1>4, UnitIs, Here
<1>6. count \in Nat /\ chunk_bytes_read \in Nat /\ chunk_length \in Int /\ chunk_length >= -1
  BY <1>4, BoundsAssumption DEF TypeOK
<1>7. /\ n \in Int /\ n <= count
      /\ n = count \/ (chunk_length # -1 /\ n = chunk_length - chunk_bytes_read)
      /\ chunk_length = -1 => n = count
      /\ chunk_length # -1 /\ n = count => n <= chunk_length - chunk_bytes_read
  BY <1>1, <1>2, PlainSizeIs
<1>8. n <= Len(received) - dit + 1
  BY <1>3 DEF Available
<1>9. Received' /\ (Fresh' <=> Fresh)
  BY <1>3, <1>4, StartIsKept
<1>10. TypeOK'
  <2>1. dit' \in Int /\ dit' <= Len(received) + 1
    BY <1>3, <1>5, <1>7, <1>8
  <2>2. chunk_bytes_read' \in Nat /\ count' \in Nat
    BY <1>3, <1>6, <1>7
  <2>3. response_state' # "COMPLETE" => dit' >= 1
    <3>1. CASE n = count
      BY <1>3, <1>5, <1>6, <3>1
    <3>2. CASE chunk_length # -1 /\ n = chunk_length - chunk_bytes_read
      <4>1. chunk_bytes_read' = chunk_length
        BY <1>3, <1>6, <3>2
      <4> QED
        BY <1>3, <3>2, <4>1
    <3> QED
      BY <1>7, <3>1, <3>2
  <2>4. response_state' \in States
    BY <1>3 DEF States, LineStates
  <2> QED
    BY <1>3, <1>4, <2>1, <2>2, <2>3, <2>4 DEF TypeOK, start
<1>11. BytesAreLeft' /\ Taken' /\ FailsOnlyIf'
  BY <1>1, <1>3 DEF BytesAreLeft, Taken, FailsOnlyIf, Beyond
<1>12. ASSUME Fresh, sent.interim # 102
       PROVE  Understands'
  <2>1. Understands
    BY <1>1, <1>4, <1>12 DEF Parsed
  <2>2. AtPlainBody
    BY <1>1, <2>1 DEF Understands, AtStatusLine, AtInterim, AtHeaders, AtChunks,
                      AtNoContent, AtFooters, AtComplete
  <2>3. /\ ~IsChunked(sent) /\ dit = HeadEnd(sent) + 1 /\ chunk_bytes_read = 0
        /\ body = <<>> /\ count = Len(received)
        /\ sent.framing = "length" => chunk_length = sent.size
    BY <2>2 DEF AtPlainBody
  <2>4. PICK h, size : h = HeadEnd(sent) /\ size = sent.size
    OBVIOUS
  <2>5. /\ h \in Nat /\ h >= 2 /\ size \in Nat /\ Len(received) <= h + size
    <3>1. /\ InterimEnd(sent) \in {0, 2} /\ InterimEnd(sent) + 2 <= HeadEnd(sent)
          /\ HeadEnd(sent) \in Nat
          /\ Length(sent) = HeadEnd(sent) + sent.size
      BY <1>5, <2>3, LengthsAre
    <3>2. size \in Nat
      BY <1>5, <2>4, ResponseFields
    <3>3. Len(received) <= h + size
      BY <1>5, <2>4, <3>1
    <3>4. h \in Nat /\ h >= 2
      BY <2>4, <3>1
    <3> QED
      BY <3>2, <3>3, <3>4
  <2>6. n # count
    <3>1. dit = h + 1 /\ count = Len(received)
      BY <2>3, <2>4
    <3> QED
      BY <1>5, <1>8, <2>5, <3>1
  <2>7. n = chunk_length /\ n \in Nat /\ chunk_length # -1
    BY <1>6, <1>7, <2>3, <2>6
  <2>8. n <= size
    <3>1. dit = h + 1
      BY <2>3, <2>4
    <3> QED
      BY <1>5, <1>8, <2>5, <2>7, <3>1
  <2>9. response_state' = "COMPLETE"
    BY <1>3, <2>3, <2>7
  <2>10. body' = Payload(1, n)
    <3>1. 0 \in Nat /\ body = Payload(1, 0) /\ 0 + n = n
      <4>1. Payload(1, 0) = <<>>
        BY BeginningIs
      <4>2. 0 + n = n
        BY <2>7
      <4> QED
        BY <2>3, <4>1, <4>2
    <3>2. \A j \in 1..n : Units(sent)[dit + j - 1] = Byte(0 + j)
      <4>1. \A j \in 1..size : Units(sent)[h + j] = Byte(j)
        BY <1>5, <2>3, <2>4, PlainUnits
      <4>2. dit = h + 1
        BY <2>3, <2>4
      <4>3. \A j \in 1..n : j \in 1..size /\ dit + j - 1 = h + j /\ 0 + j = j
        BY <2>5, <2>7, <2>8, <4>2
      <4> QED
        BY <4>1, <4>3
    <3>3. body \o SubSeq(received, dit, dit + n - 1) = Payload(1, 0 + n)
      BY <1>3, <1>4, <1>5, <2>7, <3>1, <3>2, PassedOn
    <3> QED
      BY <1>3, <3>1, <3>3
  <2>11. Framed => n = size
    <3>1. sent.framing \in Framings
      BY <1>5, ResponseFields
    <3>2. sent.framing = "no content" => size = 0
      BY <1>5, <2>4, ResponseFields
    <3>3. Framed => sent.framing = "length" \/ sent.framing = "no content"
      BY <2>3, <3>1 DEF Framed, Framings, IsChunked
    <3>4. sent.framing = "length" => n = size
      BY <2>3, <2>4, <2>7
    <3>5. size = 0 => n = size
      BY <2>7, <2>8
    <3> QED
      BY <3>2, <3>3, <3>4, <3>5
  <2>12. n \in 0..size
    BY <2>5, <2>7, <2>8
  <2>13. sent' = sent /\ (Framed' <=> Framed)
    BY <1>3 DEF start, Framed
  <2>14. AtComplete'
    BY <2>4, <2>9, <2>10, <2>11, <2>12, <2>13 DEF AtComplete
  <2> QED
    BY <2>14 DEF Understands
<1>13. ASSUME Fresh, sent.interim = 102
       PROVE  MisunderstandsInterim'
  <2>1. MisunderstandsInterim
    BY <1>1, <1>4, <1>13 DEF Parsed
  <2>2. chunk_length = 0 /\ chunk_bytes_read = 0
    BY <1>1, <2>1 DEF MisunderstandsInterim
  <2>3. n = 0
    BY <1>6, <1>7, <2>2
  <2>4. response_state' = "COMPLETE"
    BY <1>3, <2>2, <2>3
  <2> QED
    BY <2>4 DEF MisunderstandsInterim
<1>14. Parsed'
  BY <1>1, <1>3, <1>9, <1>12, <1>13 DEF Parsed, start
<1> QED
  BY <1>9, <1>10, <1>11, <1>14 DEF ProcessorInv

-----------------------------------------------------------------------------
(* Beyond the end, only when the body is not all there. *)
LEMMA ReadBeyondKeeps ==
  ASSUME ProcessorInv, ReadBeyond
  PROVE  ProcessorInv'
<1>1. /\ pc = "parse" /\ ~AtEnd /\ response_state = "BODY" /\ pc' \in Beyond
      /\ UNCHANGED <<processor, headers, body, received, dit, count, line_buffer, start>>
  BY DEF ReadBeyond, InBody, Beyond
<1>2. TypeOK /\ Received /\ Parsed /\ BytesAreLeft
  BY DEF ProcessorInv
<1>3. /\ sent \in Responses /\ Len(received) \in Nat /\ dit \in Nat /\ 1 <= dit
      /\ dit <= Len(received)
      /\ Whole => Len(received) = Length(sent)
  BY <1>1, <1>2, UnitIs, Here
<1>4. /\ Received' /\ (Fresh' <=> Fresh) /\ (Whole' <=> Whole) /\ (Framed' <=> Framed)
  BY <1>1, <1>2, StartIsKept
<1>5. TypeOK'
  BY <1>1, <1>2 DEF TypeOK, processor, start
<1>6. BytesAreLeft' /\ Taken' /\ Parsed'
  BY <1>1, <1>2 DEF BytesAreLeft, Taken, Parsed, processor, Beyond
<1>7. Available = Len(received) - dit + 1
  BY DEF Available
<1>8. ASSUME Fresh, Whole, Framed, sent.interim # 102
      PROVE  FALSE
  <2>1. Understands
    BY <1>1, <1>2, <1>8 DEF Parsed
  <2>2. ~sent.spaces /\ (AtPlainBody \/ AtChunks)
    BY <1>1, <2>1 DEF Understands, AtStatusLine, AtInterim, AtHeaders,
                      AtNoContent, AtFooters, AtComplete
  <2>3. PICK h, size : h = HeadEnd(sent) /\ size = sent.size
    OBVIOUS
  <2>4. h \in Nat /\ size \in Nat
    BY <1>3, <2>3, LengthsAre, ResponseFields
  <2>5. CASE AtPlainBody
    <3>1. /\ ~chunked_response /\ ~IsChunked(sent) /\ dit = h + 1
          /\ chunk_bytes_read = 0
          /\ sent.framing = "length" => chunk_length = size
      BY <2>3, <2>5 DEF AtPlainBody
    <3>2. Len(received) = h + size
      BY <1>3, <1>8, <2>3, <3>1, LengthsAre
    <3>3. size >= 1
      BY <1>3, <2>4, <3>1, <3>2
    <3>4. sent.framing = "length"
      <4>1. sent.framing \in Framings
        BY <1>3, ResponseFields
      <4>2. sent.framing = "no content" => size = 0
        BY <1>3, <2>3, ResponseFields
      <4>3. sent.framing # "no content"
        <5>1. size # 0
          BY <2>4, <3>3
        <5> QED
          BY <4>2, <5>1, Zenon
      <4>4. sent.framing # "close" /\ ~IsChunked(sent)
        BY <1>8, <3>1 DEF Framed
      <4> QED
        BY <4>1, <4>3, <4>4 DEF Framings, IsChunked
    <3>5. InBody(FALSE) /\ PlainSize > Available
      BY <3>1 DEF ReadBeyond, InBody
    <3>6. PICK n : n = PlainSize
      OBVIOUS
    <3>7. /\ n \in Int
          /\ n = count \/ (chunk_length # -1 /\ n = chunk_length - chunk_bytes_read)
          /\ chunk_length # -1 /\ n = count => n <= chunk_length - chunk_bytes_read
      BY <3>5, <3>6, PlainSizeIs
    <3>8. n <= size
      <4>1. chunk_length = size /\ chunk_bytes_read = 0
        BY <3>1, <3>4
      <4> QED
        BY <2>4, <3>7, <4>1
    <3>9. Available = size
      BY <1>7, <2>4, <3>1, <3>2
    <3>10. n > size
      BY <3>5, <3>6, <3>9
    <3> QED
      BY <2>4, <3>7, <3>8, <3>10
  <2>6. CASE AtChunks
    <3>1. IsChunked(sent) /\ chunked_response
      BY <2>6 DEF AtChunks
    <3>2. PICK b \in Bounds(sent) : AtChunk(b)
      BY <2>6 DEF AtChunks
    <3>3. PICK o, c, p, end : /\ o = Offset(sent, b) /\ c = ChunkEnd(sent, b)
                              /\ p = Offset(sent, c) /\ end = Offset(sent, size)
      OBVIOUS
    <3>4. dit = h + o + 2 /\ b < size /\ chunk_bytes_left = c - b
      BY <1>1, <2>3, <3>2, <3>3 DEF AtChunk
    <3>5. /\ b \in Nat /\ o \in Nat /\ c \in Bounds(sent)
          /\ p = o + (c - b) + 2
      BY <1>3, <2>3, <3>1, <3>3, <3>4, BoundsAre
    <3>6. c \in Nat /\ p <= end /\ p \in Nat
      BY <1>3, <2>3, <3>1, <3>3, <3>5, BoundsAre
    <3>7. end \in Nat
      <4>1. size \in Bounds(sent)
        BY <2>3 DEF Bounds
      <4> QED
        BY <1>3, <3>1, <3>3, <4>1, BoundsAre
    <3>8. Len(received) >= h + end + 2
      <4>1. /\ Length(sent) = HeadEnd(sent) + Offset(sent, sent.size) + 2 + One(sent.trailer)
            /\ One(sent.trailer) \in {0, 1}
        BY <1>3, <3>1, LengthsAre
      <4>2. PICK t \in {0, 1} : t = One(sent.trailer)
        BY <4>1
      <4>3. Len(received) = h + end + 2 + t
        BY <1>3, <1>8, <2>3, <3>3, <4>1, <4>2
      <4> QED
        BY <2>4, <3>7, <4>2, <4>3
    <3>9. ChunkSize > Available
      BY <3>1 DEF ReadBeyond, InBody
    <3>10. ChunkSize <= c - b
      <4>1. count \in Nat
        BY <1>2 DEF TypeOK
      <4> QED
        BY <3>4, <3>5, <3>6, <4>1 DEF ChunkSize, Least
    <3>11. ChunkSize \in Int
      <4>1. count \in Nat /\ chunk_bytes_left \in Int
        BY <1>2, <3>4, <3>5, <3>6 DEF TypeOK
      <4> QED
        BY <4>1 DEF ChunkSize, Least
    <3>12. Available >= c - b /\ Available \in Int
      BY <1>3, <1>7, <2>4, <3>4, <3>5, <3>6, <3>7, <3>8
    <3> QED
      BY <3>5, <3>6, <3>9, <3>10, <3>11, <3>12
  <2> QED
    BY <2>2, <2>5, <2>6
<1>9. ASSUME Fresh, sent.interim = 102
      PROVE  FALSE
  <2>1. MisunderstandsInterim
    BY <1>1, <1>2, <1>9 DEF Parsed
  <2>2. ~chunked_response /\ chunk_length = 0 /\ chunk_bytes_read = 0
    BY <1>1, <2>1 DEF MisunderstandsInterim
  <2>3. InBody(FALSE) /\ PlainSize > Available
    BY <2>2 DEF ReadBeyond, InBody
  <2>4. PICK n : n = PlainSize
    OBVIOUS
  <2>5. /\ n \in Int
        /\ n = count \/ (chunk_length # -1 /\ n = chunk_length - chunk_bytes_read)
        /\ chunk_length # -1 /\ n = count => n <= chunk_length - chunk_bytes_read
    BY <2>3, <2>4, PlainSizeIs
  <2>6. n <= 0
    BY <2>2, <2>5
  <2> QED
    BY <1>3, <1>7, <2>3, <2>4, <2>5, <2>6
<1>10. FailsOnlyIf'
  BY <1>1, <1>4, <1>8, <1>9 DEF FailsOnlyIf, Beyond
<1> QED
  BY <1>4, <1>5, <1>6, <1>10 DEF ProcessorInv

(* What is passed on where parsing may end. *)
LEMMA PassedSoFar ==
  ASSUME TypeOK, Received, Understands
  PROVE  \E b \in 0..sent.size :
           /\ Passed(b)
           /\ (AtEnd \/ response_state = "COMPLETE") /\ Whole /\ Framed => b = sent.size
<1>1. /\ sent \in Responses /\ Len(received) \in Nat /\ dit \in Int
      /\ Whole => Len(received) = Length(sent)
  BY Here DEF TypeOK
<1>2. PICK h, i, l, size : /\ h = HeadEnd(sent) /\ i = InterimEnd(sent)
                           /\ l = Length(sent) /\ size = sent.size
  OBVIOUS
<1>3. h \in Nat /\ i \in Nat /\ l \in Nat /\ size \in Nat /\ i + 2 <= h /\ h <= l
  <2>1. /\ InterimEnd(sent) \in {0, 2} /\ HeadEnd(sent) \in Nat
        /\ InterimEnd(sent) + 2 <= HeadEnd(sent)
        /\ Length(sent) \in Nat /\ HeadEnd(sent) <= Length(sent)
    BY <1>1, LengthsAre
  <2>2. sent.size \in Nat
    BY <1>1, ResponseFields
  <2> QED
    BY <1>2, <2>1, <2>2
<1>4. AtEnd <=> dit > Len(received)
  BY DEF AtEnd
<1>5. Payload(1, 0) = <<>> /\ 0 \in 0..size /\ size \in 0..size
  <2>1. Payload(1, 0) = <<>>
    BY BeginningIs
  <2>2. 0 \in 0..size /\ size \in 0..size
    BY <1>3
  <2> QED
    BY <2>1, <2>2
<1>6. CASE AtComplete
  BY <1>6, Zenon DEF AtComplete, Passed
<1>7. CASE AtFooters
  <2>1. Passed(size)
    BY <1>2, <1>7 DEF AtFooters, BodySent, Passed
  <2> QED
    BY <1>2, <1>5, <2>1
<1>8. CASE AtStatusLine \/ AtInterim \/ AtHeaders
  <2>1. body = <<>> /\ response_state # "COMPLETE"
    BY <1>8 DEF AtStatusLine, AtInterim, AtHeaders, Untouched
  <2>2. dit <= h
    <3>1. CASE AtStatusLine
      BY <1>2, <1>3, <3>1 DEF AtStatusLine
    <3>2. CASE AtInterim
      BY <1>2, <1>3, <3>2 DEF AtInterim
    <3>3. CASE AtHeaders
      BY <1>2, <3>3 DEF AtHeaders
    <3> QED
      BY <1>8, <3>1, <3>2, <3>3
  <2>3. ~(AtEnd /\ Whole)
    <3>1. Whole => Len(received) = l
      BY <1>1, <1>2
    <3> QED
      BY <1>1, <1>3, <1>4, <2>2, <3>1
  <2>4. Passed(0)
    BY <1>5, <2>1 DEF Passed
  <2> QED
    BY <1>2, <1>5, <2>1, <2>3, <2>4
<1>9. CASE AtPlainBody
  <2>1. body = <<>> /\ response_state # "COMPLETE" /\ dit = h + 1 /\ ~IsChunked(sent)
    BY <1>2, <1>9 DEF AtPlainBody
  <2>2. l = h + size
    BY <1>1, <1>2, <2>1, LengthsAre
  <2>3. AtEnd /\ Whole => size = 0
    <3>1. Whole => Len(received) = l
      BY <1>1, <1>2
    <3> QED
      BY <1>1, <1>3, <1>4, <2>1, <2>2, <3>1
  <2>4. Passed(0)
    BY <1>5, <2>1 DEF Passed
  <2> QED
    BY <1>2, <1>5, <2>1, <2>3, <2>4
<1>10. CASE AtNoContent
  <2>1. body = <<>> /\ sent.framing = "no content"
    BY <1>10 DEF AtNoContent
  <2>2. size = 0
    BY <1>1, <1>2, <2>1, ResponseFields
  <2>3. Passed(0)
    BY <1>5, <2>1 DEF Passed
  <2> QED
    BY <1>2, <1>5, <2>2, <2>3
<1>11. CASE AtChunks
  <2>1. IsChunked(sent)
    BY <1>11 DEF AtChunks
  <2>2. PICK b \in Bounds(sent) : AtChunk(b)
    BY <1>11 DEF AtChunks
  <2>3. PICK o, p, end : /\ o = Offset(sent, b) /\ end = Offset(sent, size)
                         /\ p = Offset(sent, ChunkEnd(sent, b))
    OBVIOUS
  <2>4. /\ b \in Nat /\ b <= size /\ o \in Nat /\ o <= end
        /\ b < size => /\ ChunkEnd(sent, b) \in Bounds(sent)
                       /\ b < ChunkEnd(sent, b)
                       /\ p = o + (ChunkEnd(sent, b) - b) + 2
    BY <1>1, <1>2, <2>1, <2>3, BoundsAre
  <2>5. end \in Nat
    <3>1. size \in Bounds(sent)
      BY <1>2 DEF Bounds
    <3> QED
      BY <1>1, <2>1, <2>3, <3>1, BoundsAre
  <2>6. Whole => Len(received) >= h + end + 2
    <3>1. /\ Length(sent) = HeadEnd(sent) + Offset(sent, sent.size) + 2 + One(sent.trailer)
          /\ One(sent.trailer) \in {0, 1}
      BY <1>1, <2>1, LengthsAre
    <3>2. PICK t \in {0, 1} : t = One(sent.trailer)
      BY <3>1
    <3>3. Whole => Len(received) = h + end + 2 + t
      BY <1>1, <1>2, <2>3, <3>1, <3>2
    <3> QED
      BY <1>3, <2>5, <3>2, <3>3
  <2>7. /\ Passed(b) /\ response_state # "COMPLETE"
        /\ dit = h + o + 1 \/ dit = h + o + 2 \/ dit = h + o
    BY <1>2, <2>2, <2>3 DEF AtChunk, Passed
  <2>8. dit <= h + end + 2
    BY <1>3, <2>4, <2>5, <2>7
  <2>9. ~(AtEnd /\ Whole)
    BY <1>1, <1>3, <1>4, <2>5, <2>6, <2>8
  <2>10. b \in 0..size
    BY <1>3, <2>4
  <2> QED
    BY <1>2, <2>7, <2>9, <2>10
<1> QED
  BY <1>6, <1>7, <1>8, <1>9, <1>10, <1>11 DEF Understands

LEMMA ReturnKeeps ==
  ASSUME ProcessorInv, Return
  PROVE  ProcessorInv'
<1>1. /\ pc = "parse" /\ pc' = "done" /\ (AtEnd \/ response_state = "COMPLETE")
      /\ UNCHANGED <<processor, headers, body, received, dit, count, line_buffer, start>>
  BY DEF Return
<1>2. TypeOK /\ Received /\ Parsed /\ BytesAreLeft
  BY DEF ProcessorInv
<1>3. /\ Received' /\ (Fresh' <=> Fresh) /\ (Whole' <=> Whole) /\ (Framed' <=> Framed)
  BY <1>1, <1>2, StartIsKept
<1>4. TypeOK'
  BY <1>1, <1>2 DEF TypeOK, processor, start
<1>5. BytesAreLeft' /\ Taken' /\ FailsOnlyIf'
  BY <1>1, <1>2 DEF BytesAreLeft, Taken, FailsOnlyIf, Beyond, processor
<1>6. ASSUME Fresh, sent.interim # 102
      PROVE  \E b \in 0..sent.size : Passed(b) /\ (Whole /\ Framed => b = sent.size)
  <2>1. Understands
    BY <1>1, <1>2, <1>6 DEF Parsed
  <2> QED
    BY <1>1, <1>2, <2>1, PassedSoFar
<1>7. Parsed'
  BY <1>1, <1>3, <1>6 DEF Parsed, Passed, start
<1> QED
  BY <1>3, <1>4, <1>5, <1>7 DEF ProcessorInv

-----------------------------------------------------------------------------
(* From one request to the next. *)
LEMMA NoResponseIsOne ==
  /\ NoResponse \in Responses
  /\ 0 \in 0..Len(Units(NoResponse)) /\ <<>> = SubSeq(Units(NoResponse), 1, 0)
<1>1. NoResponse \in Responses
  <2>1. 0 \in 0..MaxSize
    BY BoundsAssumption
  <2>2. NoResponse \in [interim : Interims, framing : Framings, spaces : BOOLEAN,
                        size : 0..MaxSize, split : 0..MaxSize, trailer : BOOLEAN]
    BY <2>1 DEF NoResponse, Interims, Framings
  <2>3. /\ NoResponse.split <= NoResponse.size
        /\ IsChunked(NoResponse) /\ NoResponse.size > 0 => NoResponse.split > 0
        /\ ~IsChunked(NoResponse) => NoResponse.split = 0 /\ ~NoResponse.trailer
        /\ NoResponse.framing = "no content" => NoResponse.size = 0
    BY DEF NoResponse
  <2> QED
    BY <2>2, <2>3, Zenon DEF Responses
<1> DEFINE units == Units(NoResponse)
           S == UnitsOf(NoResponse)
<1>2. units \in Seq(S)
  BY <1>1, PartsAre
<1> HIDE DEF units, S
<1>3. Len(units) \in Nat
  BY <1>2
<1>4. 1 \in 1..(Len(units) + 1) /\ 0 \in (1 - 1)..Len(units) /\ 0 \in 0..Len(units)
  BY <1>3
<1>5. SubSeq(units, 1, 0) \in Seq(S) /\ Len(SubSeq(units, 1, 0)) = 0 - 1 + 1
  BY <1>2, <1>4, SubSeqProperties
<1>6. SubSeq(units, 1, 0) = <<>>
  BY <1>5
<1> QED
  BY <1>1, <1>4, <1>6 DEF units

LEMMA LeaveKeeps ==
  ASSUME ProcessorInv, Leave
  PROVE  ProcessorInv'
<1>1. /\ pc' \in {"idle", "lost"}
      /\ received' = <<>> /\ dit' = 1 /\ count' = 0 /\ line_buffer' = FALSE
      /\ body' = <<>> /\ sent' = NoResponse
      /\ fresh' = TRUE /\ stale' = NoHeaders
      /\ UNCHANGED <<processor, headers, requests>>
  BY DEF Leave
<1>2. TypeOK /\ BytesAreLeft
  BY DEF ProcessorInv
<1>3. NoHeaders \in [chunked : BOOLEAN, length : -1..MaxSize]
  <2>1. -1 \in -1..MaxSize
    BY BoundsAssumption
  <2> QED
    BY <2>1 DEF NoHeaders
<1>4. TypeOK'
  <2>1. pc' \in {"idle", "lost", "parse", "done", "threw"} \cup Beyond
    BY <1>1
  <2>2. line_buffer' \in BOOLEAN /\ fresh' \in BOOLEAN
    BY <1>1
  <2>3. dit' \in Int /\ dit' >= 1 /\ count' \in Nat /\ dit' <= Len(received') + 1
    BY <1>1
  <2>4. sent' \in Responses
    BY <1>1, NoResponseIsOne
  <2> QED
    BY <1>1, <1>2, <1>3, <2>1, <2>2, <2>3, <2>4 DEF TypeOK, processor
<1>5. Received'
  <2>1. received' = SubSeq(Units(sent'), 1, 0) /\ 0 \in 0..Len(Units(sent'))
    BY <1>1, NoResponseIsOne
  <2> QED
    BY <2>1 DEF Received
<1>6. BytesAreLeft'
  BY <1>1, <1>2 DEF BytesAreLeft, processor
<1>7. Taken' /\ Parsed' /\ FailsOnlyIf'
  BY <1>1 DEF Taken, Parsed, FailsOnlyIf, Beyond
<1> QED
  BY <1>4, <1>5, <1>6, <1>7 DEF ProcessorInv

LEMMA PerformRequestKeeps ==
  ASSUME ProcessorInv, PerformRequest, UsedProcessor \/ NewProcessor,
         headers' \in [chunked : BOOLEAN, length : -1..MaxSize]
  PROVE  ProcessorInv'
<1>1. /\ requests' = requests + 1
      /\ dit' = 1 /\ count' = Len(received') /\ line_buffer' = FALSE
      /\ http_code' = 0 /\ body' = <<>> /\ stale' = headers' /\ pc' = "parse"
  BY DEF PerformRequest
<1>2. PICK arrival \in Arrivals : sent' = arrival.sent /\ received' = arrival.received
  BY DEF PerformRequest
<1>3. PICK r \in Responses :
        arrival \in {[sent |-> r, received |-> SubSeq(Units(r), 1, n)] : n \in 0..Len(Units(r))}
  BY Zenon DEF Arrivals
<1>4. PICK n \in 0..Len(Units(r)) :
        arrival = [sent |-> r, received |-> SubSeq(Units(r), 1, n)]
  BY <1>3
<1>5. sent' = r /\ received' = SubSeq(Units(r), 1, n)
  BY <1>2, <1>4
<1>6. Received'
  BY <1>5 DEF Received
<1>7. Len(received') \in Nat
  <2> DEFINE units == Units(r)
             S == UnitsOf(r)
  <2>1. units \in Seq(S)
    BY PartsAre
  <2>2. n \in 0..Len(units) /\ received' = SubSeq(units, 1, n)
    BY <1>5
  <2> HIDE DEF units, S
  <2>3. Len(units) \in Nat
    BY <2>1
  <2>4. 1 \in 1..(Len(units) + 1) /\ n \in (1 - 1)..Len(units)
    BY <2>2, <2>3
  <2>5. received' \in Seq(S)
    BY <2>1, <2>2, <2>4, SubSeqProperties
  <2> QED
    BY <2>5
<1>8. TypeOK /\ BytesAreLeft
  BY DEF ProcessorInv
<1>9. \/ /\ fresh' = FALSE
         /\ UNCHANGED <<response_state, chunked_response, chunk_bytes_left,
                        chunk_bytes_read, chunk_length>>
      \/ /\ fresh' = TRUE /\ response_state' = "STATUSLINE"
         /\ chunked_response' = FALSE /\ chunk_bytes_left' = 0
         /\ chunk_bytes_read' = 0 /\ chunk_length' = -1
  BY DEF UsedProcessor, NewProcessor
<1>10. TypeOK'
  <2>1. pc' \in {"idle", "lost", "parse", "done", "threw"} \cup Beyond
        /\ http_code' \in {0, 100, 102, 200, 204}
    BY <1>1
  <2>2. line_buffer' \in BOOLEAN
    BY <1>1
  <2>3. fresh' \in BOOLEAN
    BY <1>9
  <2>4. requests' \in Nat
    BY <1>1, <1>8 DEF TypeOK
  <2>5. dit' \in Int /\ dit' >= 1 /\ count' \in Nat /\ dit' <= Len(received') + 1
    BY <1>1, <1>7
  <2>6. response_state' \in States
    BY <1>8, <1>9 DEF TypeOK, States, LineStates
  <2>7. chunked_response' \in BOOLEAN
    BY <1>8, <1>9 DEF TypeOK
  <2>8. /\ chunk_bytes_left' \in -1..(MaxSize + 12) /\ chunk_bytes_read' \in Nat
        /\ chunk_length' \in -1..MaxSize
    BY <1>8, <1>9, BoundsAssumption DEF TypeOK
  <2>9. sent' \in Responses /\ stale' \in [chunked : BOOLEAN, length : -1..MaxSize]
    BY <1>1, <1>5
  <2> QED
    BY <2>1, <2>2, <2>3, <2>4, <2>5, <2>6, <2>7, <2>8, <2>9 DEF TypeOK
<1>11. BytesAreLeft'
  BY <1>8, <1>9 DEF BytesAreLeft
<1>12. Taken' /\ FailsOnlyIf'
  BY <1>1 DEF Taken, FailsOnlyIf, Beyond
<1>13. ASSUME Fresh'
       PROVE  Untouched' /\ response_state' = "STATUSLINE"
  BY <1>1, <1>9, <1>13 DEF Fresh, Untouched
<1>14. ASSUME Fresh'
       PROVE  AtStatusLine'
  BY <1>1, <1>13, <1>14 DEF AtStatusLine
<1>15. Parsed'
  BY <1>1, <1>13, <1>14 DEF Parsed, Understands, MisunderstandsInterim
<1> QED
  BY <1>6, <1>10, <1>11, <1>12, <1>15 DEF ProcessorInv

LEMMA ExecuteKeeps ==
  ASSUME ProcessorInv, Execute \/ ExecuteAgain
  PROVE  ProcessorInv'
<1>1. PerformRequest /\ (UsedProcessor \/ NewProcessor)
  BY DEF Execute, ExecuteAgain
<1>2. headers' = NoHeaders \/ headers' = headers
  BY DEF Execute, ExecuteAgain
<1>3. headers' \in [chunked : BOOLEAN, length : -1..MaxSize]
  <2>1. -1 \in -1..MaxSize
    BY BoundsAssumption
  <2>2. NoHeaders \in [chunked : BOOLEAN, length : -1..MaxSize]
    BY <2>1 DEF NoHeaders
  <2>3. headers \in [chunked : BOOLEAN, length : -1..MaxSize]
    BY DEF ProcessorInv, TypeOK
  <2> QED
    BY <1>2, <2>2, <2>3
<1> QED
  BY <1>1, <1>3, PerformRequestKeeps

LEMMA InitIsIt ==
  ASSUME Init
  PROVE  ProcessorInv
<1>1. /\ pc = "idle" /\ response_state = "STATUSLINE" /\ http_code = 0
      /\ chunked_response = FALSE /\ chunk_bytes_left = 0 /\ chunk_bytes_read = 0
      /\ chunk_length = -1 /\ headers = NoHeaders /\ body = <<>> /\ received = <<>>
      /\ dit = 1 /\ count = 0 /\ line_buffer = FALSE /\ sent = NoResponse
      /\ requests = 0 /\ fresh = TRUE /\ stale = NoHeaders
  BY DEF Init
<1>2. NoHeaders \in [chunked : BOOLEAN, length : -1..MaxSize]
  <2>1. -1 \in -1..MaxSize
    BY BoundsAssumption
  <2> QED
    BY <2>1 DEF NoHeaders
<1>3. TypeOK
  <2>1. chunked_response \in BOOLEAN /\ line_buffer \in BOOLEAN /\ fresh \in BOOLEAN
    BY <1>1
  <2>2. /\ chunk_bytes_left \in -1..(MaxSize + 12) /\ chunk_bytes_read \in Nat
        /\ chunk_length \in -1..MaxSize /\ count \in Nat /\ requests \in Nat
        /\ dit \in Int /\ dit >= 1
    BY <1>1, BoundsAssumption
  <2>3. dit <= Len(received) + 1
    BY <1>1
  <2>4. sent \in Responses
    BY <1>1, NoResponseIsOne
  <2>5. response_state \in States
    BY <1>1 DEF States, LineStates
  <2> QED
    BY <1>1, <1>2, <2>1, <2>2, <2>3, <2>4, <2>5 DEF TypeOK
<1>4. Received
  <2>1. received = SubSeq(Units(sent), 1, 0) /\ 0 \in 0..Len(Units(sent))
    BY <1>1, NoResponseIsOne
  <2> QED
    BY <2>1 DEF Received
<1>5. BytesAreLeft /\ Taken /\ Parsed /\ FailsOnlyIf
  BY <1>1 DEF BytesAreLeft, Taken, Parsed, FailsOnlyIf, Beyond
<1> QED
  BY <1>3, <1>4, <1>5 DEF ProcessorInv

LEMMA StepKeeps ==
  ASSUME ProcessorInv, [Next]_vars
  PROVE  ProcessorInv'
<1>1. CASE UNCHANGED vars
  <2>1. /\ UNCHANGED <<pc, processor, headers, body, received, dit, count, line_buffer, start>>
    BY <1>1 DEF vars, start
  <2>2. /\ Received' /\ (Fresh' <=> Fresh) /\ (Whole' <=> Whole) /\ (Framed' <=> Framed)
    BY <2>1, StartIsKept DEF ProcessorInv
  <2>3. TypeOK' /\ BytesAreLeft' /\ Taken' /\ FailsOnlyIf'
    BY <2>1, <2>2 DEF ProcessorInv, TypeOK, BytesAreLeft, Taken, FailsOnlyIf, Beyond, processor, start
  <2>4. ASSUME Understands
        PROVE  Understands'
    <3>1. Untouched => Untouched'
      BY <2>1 DEF Untouched, processor
    <3>2. /\ AtStatusLine => AtStatusLine'
          /\ AtInterim => AtInterim'
          /\ AtHeaders => AtHeaders'
      BY <2>1, <3>1 DEF AtStatusLine, AtInterim, AtHeaders, processor, start
    <3>3. /\ AtPlainBody => AtPlainBody'
          /\ AtNoContent => AtNoContent'
          /\ AtFooters => AtFooters'
      BY <2>1 DEF AtPlainBody, AtNoContent, AtFooters, BodySent, processor, start
    <3>4. AtChunks => AtChunks'
      BY <2>1 DEF AtChunks, AtChunk, processor, start
    <3>5. AtComplete => AtComplete'
      BY <2>1, <2>2 DEF AtComplete, processor, start
    <3> QED
      BY <2>1, <2>4, <3>2, <3>3, <3>4, <3>5 DEF Understands, start
  <2>5. MisunderstandsInterim => MisunderstandsInterim'
    BY <2>1 DEF MisunderstandsInterim, Untouched, processor
  <2>6. Parsed'
    BY <2>1, <2>2, <2>4, <2>5 DEF ProcessorInv, Parsed, Passed, start
  <2> QED
    BY <2>2, <2>3, <2>6 DEF ProcessorInv
<1>2. CASE Execute \/ ExecuteAgain
  BY <1>2, ExecuteKeeps
<1>3. CASE Process
  <2>1. CASE AccumulateLine
    BY <2>1, AccumulateLineKeeps
  <2>2. CASE ProcessStatusLine
    BY <2>2, ProcessStatusLineKeeps
  <2>3. CASE ProcessHeaderLine
    BY <2>3, ProcessHeaderLineKeeps
  <2>4. CASE ProcessHeaderThrows
    BY <2>4, ProcessHeaderThrowsKeeps
  <2>5. CASE ProcessHeadersContinue
    BY <2>5, ProcessHeadersContinueKeeps
  <2>6. CASE BeginBody
    BY <2>6, BeginBodyKeeps
  <2>7. CASE ProcessChunkLengthLine
    BY <2>7, ProcessChunkLengthLineKeeps
  <2>8. CASE ProcessChunkEnd
    BY <2>8, ProcessChunkEndKeeps
  <2>9. CASE ProcessFooterLine
    BY <2>9, ProcessFooterLineKeeps
  <2>10. CASE ProcessDataChunked
    BY <2>10, ProcessDataChunkedKeeps
  <2>11. CASE ProcessDataNonChunked
    BY <2>11, ProcessDataNonChunkedKeeps
  <2>12. CASE ReadBeyond
    BY <2>12, ReadBeyondKeeps
  <2>13. CASE Return
    BY <2>13, ReturnKeeps
  <2> QED
    BY <1>3, <2>1, <2>2, <2>3, <2>4, <2>5, <2>6, <2>7, <2>8, <2>9, <2>10, <2>11,
       <2>12, <2>13 DEF Process
<1>4. CASE Leave
  BY <1>4, LeaveKeeps
<1> QED
  BY <1>1, <1>2, <1>3, <1>4 DEF Next

-----------------------------------------------------------------------------
(* The places the parser may be at, of a new processor's request, and what  *)
(* it has passed on there, are right for responses of any size, wherever    *)
(* recv() cut them, and for any number of requests.                         *)
THEOREM ProcessorInvariant == Spec => []ProcessorInv
<1>1. Init => ProcessorInv
  BY InitIsIt
<1>2. ProcessorInv /\ [Next]_vars => ProcessorInv'
  BY StepKeeps
<1> QED
  BY <1>1, <1>2, PTL DEF Spec

(* A new processor passes on nothing but a beginning of the body, and all   *)
(* of it when a whole, framed response has been parsed.                     *)
THEOREM BodiesAreExact == Spec => []BodyExact
<1>1. ProcessorInv => BodyExact
  <2> SUFFICES ASSUME ProcessorInv, pc \notin Beyond, Fresh, sent.interim # 102
               PROVE  /\ Len(body) <= sent.size
                      /\ body = Payload(1, Len(body))
                      /\ pc = "done" /\ Whole /\ Framed => body = BodySent
    BY DEF BodyExact
  <2>1. TypeOK /\ Received /\ Taken /\ Parsed
    BY DEF ProcessorInv
  <2>2. sent \in Responses
    BY <2>1 DEF TypeOK
  <2>3. sent.size \in Nat
    BY <2>2, ResponseFields
  <2>4. Payload(1, 0) = <<>> /\ 0 \in 0..sent.size
    <3>1. Payload(1, 0) = <<>>
      BY BeginningIs
    <3>2. 0 \in 0..sent.size
      BY <2>3
    <3> QED
      BY <3>1, <3>2
  <2>5. \E b \in 0..sent.size :
          Passed(b) /\ (pc = "done" /\ Whole /\ Framed => b = sent.size)
    <3>1. pc \in {"idle", "lost", "parse", "done", "threw"}
      BY <2>1 DEF TypeOK
    <3>2. CASE pc = "parse"
      <4>1. Understands
        BY <2>1, <3>2 DEF Parsed
      <4> QED
        BY <2>1, <3>2, <4>1, PassedSoFar
    <3>3. CASE pc = "done"
      BY <2>1, <3>3 DEF Parsed
    <3>4. CASE pc \in {"idle", "lost", "threw"}
      <4>1. Passed(0)
        BY <2>1, <2>4, <3>4 DEF Taken, Parsed, Passed
      <4> QED
        BY <2>4, <3>4, <4>1
    <3> QED
      BY <3>1, <3>2, <3>3, <3>4
  <2>6. PICK b \in 0..sent.size :
          Passed(b) /\ (pc = "done" /\ Whole /\ Framed => b = sent.size)
    BY <2>5
  <2>7. b \in Nat /\ b <= sent.size /\ body = Payload(1, b)
    BY <2>3, <2>6 DEF Passed
  <2>8. Len(Payload(1, b)) = b
    BY <2>7, BeginningIs
  <2> QED
    BY <2>6, <2>7, <2>8 DEF BodySent
<1> QED
  BY <1>1, ProcessorInvariant, PTL

(* A new processor reads beyond the end only of a response that was cut or  *)
(* has no framing, and parsing throws only for a header of spaces.          *)
THEOREM FailuresHaveAReason == Spec => []FailsOnlyIf
<1>1. ProcessorInv => FailsOnlyIf
  BY DEF ProcessorInv
<1> QED
  BY <1>1, ProcessorInvariant, PTL
=============================================================================
