--------------------------- MODULE HttpProcessor ---------------------------
(***************************************************************************)
(* SimpleHttpProcessor::parseResponse (src/kwctoolkit/transport/           *)
(* simple_http_transaction.cc): the state machine that turns what recv()   *)
(* returned into headers and a body, request after request: on the same    *)
(* processor or on a new one, of a new HttpRequest or of the last one,     *)
(* which execute() was called on again.                                    *)
(*                                                                         *)
(* What is received is a sequence of units: a line, which the code reads   *)
(* up to its '\n', or one byte of payload.  The peer's response is well    *)
(* formed, but recv() may return any beginning of it (see HttpSocket).     *)
(*                                                                         *)
(* Once the parser hands the body writer bytes from beyond the end of the  *)
(* string, one of three things has happened (Beyond): the process is       *)
(* killed, the loop goes on for ever, or foreign bytes are taken for the   *)
(* response.                                                               *)
(***************************************************************************)
EXTENDS Integers, Sequences

CONSTANTS
  MaxSize,              \* payload bytes of a response, at most
  MaxRequests           \* bound: requests performed

ASSUME BoundsAssumption == MaxSize \in Nat /\ MaxRequests \in Nat

VARIABLES
  pc,
  response_state,       \* response_state_
  http_code,            \* http_code_
  chunked_response,     \* chunked_response_
  chunk_bytes_left,     \* chunk_bytes_left_
  chunk_bytes_read,     \* chunk_bytes_read_
  chunk_length,         \* chunk_length_; -1 as long as it is not known
  headers,              \* the response's headers that matter here
  body,                 \* what the body writer was given by this request
  received, dit, count, \* parseResponse's locals; dit counts from 1
  line_buffer,          \* has it read a line's beginning: payload taken so?
  sent,                 \* the response the peer meant to send
  requests,             \* requests started
  fresh,                \* this request's processor was new
  stale                 \* what its response's headers were at its start

processor == <<response_state, http_code, chunked_response, chunk_bytes_left,
               chunk_bytes_read, chunk_length>>
vars == <<pc, processor, headers, body, received, dit, count,
          line_buffer, sent, requests, fresh, stale>>
start == <<sent, requests, fresh, stale>>

-----------------------------------------------------------------------------
(* Units and responses. *)
Status(code) == [kind |-> "status", value |-> code]
ContentLength(n) == [kind |-> "content-length", value |-> n]
TransferEncoding == [kind |-> "transfer-encoding", value |-> 0]
OtherHeader == [kind |-> "header", value |-> 0]
SpacesHeader == [kind |-> "spaces", value |-> 0]  \* a value of spaces only
ChunkLength(n) == [kind |-> "chunk length", value |-> n]
EmptyLine == [kind |-> "empty", value |-> 0]
Byte(i) == [kind |-> "byte", value |-> i]

Payload(from, to) == [i \in 1..(to - from + 1) |-> Byte(from + i - 1)]

Interims == {0, 100, 102}            \* an interim response, or 0 for none
Framings == {"length", "chunked", "length and chunked", "close", "no content"}

IsChunked(r) == r.framing \in {"chunked", "length and chunked"}

(* A response of size bytes.  A chunked one has two chunks (one, if split   *)
(* is size) and perhaps a trailer.                                          *)
Responses ==
  {r \in [interim : Interims, framing : Framings, spaces : BOOLEAN,
          size : 0..MaxSize, split : 0..MaxSize, trailer : BOOLEAN] :
     /\ r.split <= r.size
     /\ IsChunked(r) /\ r.size > 0 => r.split > 0
     /\ ~IsChunked(r) => r.split = 0 /\ ~r.trailer
     /\ r.framing = "no content" => r.size = 0}

Lines(b, line) == IF b THEN <<line>> ELSE <<>>
Chunk(from, to) ==
  IF from > to THEN <<>>
  ELSE <<ChunkLength(to - from + 1)>> \o Payload(from, to) \o <<EmptyLine>>

Units(r) ==
  LET interim == <<Status(r.interim), EmptyLine>>
      head ==
        <<Status(IF r.framing = "no content" THEN 204 ELSE 200)>>
        \o Lines(r.spaces, SpacesHeader)
        \o Lines(r.framing \in {"length", "length and chunked"},
                 ContentLength(r.size))
        \o Lines(IsChunked(r), TransferEncoding)
        \o <<EmptyLine>>
      chunks ==
        Chunk(1, r.split) \o Chunk(r.split + 1, r.size) \o <<ChunkLength(0)>>
        \o Lines(r.trailer, OtherHeader) \o <<EmptyLine>>
  IN (IF r.interim = 0 THEN <<>> ELSE interim) \o head
     \o (IF IsChunked(r) THEN chunks ELSE Payload(1, r.size))

(* What may arrive of a response: any beginning of it. *)
Arrivals ==
  UNION {{[sent |-> r, received |-> SubSeq(Units(r), 1, n)] : n \in 0..Len(Units(r))} :
           r \in Responses}

NoResponse == [interim |-> 0, framing |-> "close", spaces |-> FALSE,
               size |-> 0, split |-> 0, trailer |-> FALSE]

-----------------------------------------------------------------------------
NoHeaders == [chunked |-> FALSE, length |-> -1]

Init ==
  /\ pc = "idle"
  /\ response_state = "STATUSLINE"
  /\ http_code = 0
  /\ chunked_response = FALSE
  /\ chunk_bytes_left = 0
  /\ chunk_bytes_read = 0
  /\ chunk_length = -1
  /\ headers = NoHeaders
  /\ body = <<>>
  /\ received = <<>>
  /\ dit = 1
  /\ count = 0
  /\ line_buffer = FALSE
  /\ sent = NoResponse
  /\ requests = 0
  /\ fresh = TRUE
  /\ stale = NoHeaders

(* performRequest, up to the loop of parseResponse.                         *)
PerformRequest ==
  /\ requests < MaxRequests
  /\ requests' = requests + 1
  /\ \E arrival \in Arrivals :
       /\ sent' = arrival.sent
       /\ received' = arrival.received
  /\ dit' = 1
  /\ count' = Len(received')
  /\ line_buffer' = FALSE
  /\ http_code' = 0
  /\ body' = <<>>
  /\ stale' = headers'
  /\ pc' = "parse"

(* The processor comes from the pool: of its own state only http_code_ is   *)
(* set anew.                                                                *)
UsedProcessor ==
  /\ pc = "idle" /\ requests > 0
  /\ fresh' = FALSE
  /\ UNCHANGED <<response_state, chunked_response, chunk_bytes_left,
                 chunk_bytes_read, chunk_length>>

(* The pool is empty: others are at work, or the last processor was lost    *)
(* when parsing threw.                                                      *)
NewProcessor ==
  /\ pc \in {"idle", "lost"}
  /\ fresh' = TRUE
  /\ response_state' = "STATUSLINE"
  /\ chunked_response' = FALSE
  /\ chunk_bytes_left' = 0
  /\ chunk_bytes_read' = 0
  /\ chunk_length' = -1

(* HttpRequest::execute, of a new request, or again of the same one: the    *)
(* checks let that pass, as nobody ever assigns the state they look at, and *)
(* nobody clears the headers of its response.                               *)
Execute ==
  /\ headers' = NoHeaders
  /\ PerformRequest
  /\ UsedProcessor \/ NewProcessor
ExecuteAgain ==
  /\ requests > 0
  /\ UNCHANGED headers
  /\ PerformRequest
  /\ UsedProcessor \/ NewProcessor

AtEnd == dit > Len(received)
LineStates == {"STATUSLINE", "HEADERS", "CHUNK_LEN", "CHUNK_END", "FOOTERS"}

(* Payload that is met where a line is expected begins that line.  It is    *)
(* text without a colon and without a number.                               *)
AccumulateLine ==
  /\ pc = "parse"
  /\ ~AtEnd
  /\ response_state \in LineStates
  /\ received[dit].kind = "byte"
  /\ dit' = dit + 1
  /\ line_buffer' = TRUE
  /\ UNCHANGED <<pc, processor, headers, body, received, count, start>>

Unit == IF line_buffer THEN OtherHeader ELSE received[dit]

(* A line has been accumulated in state s.  count is left as it is. *)
Line(s) ==
  /\ pc = "parse"
  /\ ~AtEnd
  /\ response_state = s
  /\ received[dit].kind # "byte"
  /\ dit' = dit + 1
  /\ line_buffer' = FALSE
  /\ UNCHANGED <<received, count, start>>

(* A line that is no status line has no number where the code is. *)
ProcessStatusLine ==
  /\ Line("STATUSLINE")
  /\ http_code' = IF Unit.kind = "status" THEN Unit.value ELSE 0
  /\ response_state' = "HEADERS"
  /\ UNCHANGED <<pc, chunked_response, chunk_bytes_left, chunk_bytes_read,
                 chunk_length, headers, body>>

(* addHeader: std::map::insert, so that the first value of a name stays. *)
ProcessHeaderLine ==
  /\ Line("HEADERS")
  /\ Unit.kind \notin {"empty", "spaces"}
  /\ headers' =
       CASE Unit.kind = "transfer-encoding" -> [headers EXCEPT !.chunked = TRUE]
         [] Unit.kind = "content-length" /\ headers.length = -1 ->
              [headers EXCEPT !.length = Unit.value]
         [] OTHER -> headers
  /\ UNCHANGED <<pc, processor, body>>

(* TrimString(" ") throws std::out_of_range, out of performRequest. *)
ProcessHeaderThrows ==
  /\ Line("HEADERS")
  /\ Unit.kind = "spaces"
  /\ pc' = "threw"
  /\ UNCHANGED <<processor, headers, body>>

ProcessHeadersContinue ==
  /\ Line("HEADERS")
  /\ Unit.kind = "empty"
  /\ http_code = 100
  /\ response_state' = "STATUSLINE"
  /\ UNCHANGED <<pc, http_code, chunked_response, chunk_bytes_left,
                 chunk_bytes_read, chunk_length, headers, body>>

IsInformational(code) == 100 <= code /\ code < 200
HasNoBody(code) == code \in {204, 304} \/ IsInformational(code)

(* Faulty variant, for the mutation runs: chunks are not noticed. *)
BeginBodyByLength ==
  /\ Line("HEADERS")
  /\ Unit.kind = "empty"
  /\ http_code # 100
  /\ chunk_length' = IF headers.length # -1 THEN headers.length ELSE chunk_length
  /\ response_state' = "BODY"
  /\ UNCHANGED <<pc, http_code, chunked_response, chunk_bytes_left,
                 chunk_bytes_read, headers, body>>

(* The empty line after the headers: beginBody. *)
BeginBody ==
  /\ Line("HEADERS")
  /\ Unit.kind = "empty"
  /\ http_code # 100
  /\ chunked_response' = (chunked_response \/ headers.chunked)
  /\ chunk_bytes_left' = IF headers.chunked THEN -1 ELSE chunk_bytes_left
  /\ chunk_length' =
       IF HasNoBody(http_code) THEN 0
       ELSE IF headers.length # -1 /\ ~chunked_response' THEN headers.length
       ELSE chunk_length
  /\ response_state' = IF chunked_response' THEN "CHUNK_LEN" ELSE "BODY"
  /\ UNCHANGED <<pc, http_code, chunk_bytes_read, headers, body>>

(* strtol(line, 16): a header that begins with "C" reads as 12, any other   *)
(* line that is no chunk length as 0.                                       *)
Hex(unit) ==
  CASE unit.kind = "chunk length" -> unit.value
    [] unit.kind = "content-length" -> 12
    [] OTHER -> 0

ProcessChunkLengthLine ==
  /\ Line("CHUNK_LEN")
  /\ chunk_bytes_left' = Hex(Unit)
  /\ response_state' = IF chunk_bytes_left' # 0 THEN "BODY" ELSE "FOOTERS"
  /\ UNCHANGED <<pc, http_code, chunked_response, chunk_bytes_read,
                 chunk_length, headers, body>>

(* The line after a chunk, taken to be empty. *)
ProcessChunkEnd ==
  /\ Line("CHUNK_END")
  /\ response_state' = "CHUNK_LEN"
  /\ UNCHANGED <<pc, http_code, chunked_response, chunk_bytes_left,
                 chunk_bytes_read, chunk_length, headers, body>>

ProcessFooterLine ==
  /\ Line("FOOTERS")
  /\ response_state' = IF Unit.kind = "empty" THEN "COMPLETE" ELSE "FOOTERS"
  /\ UNCHANGED <<pc, http_code, chunked_response, chunk_bytes_left,
                 chunk_bytes_read, chunk_length, headers, body>>

-----------------------------------------------------------------------------
Least(a, b) == IF a < b THEN a ELSE b
Available == Len(received) - dit + 1

(* writeData(n, &*dit), and what follows in either processData function.    *)
Write(n) ==
  /\ n <= Available
  /\ body' = body \o SubSeq(received, dit, dit + n - 1)
  /\ chunk_bytes_read' = chunk_bytes_read + n
  /\ dit' = dit + n
  /\ count' = count - n
  /\ UNCHANGED <<pc, http_code, chunked_response, chunk_length, headers,
                 received, line_buffer, start>>

InBody(chunked) ==
  /\ pc = "parse"
  /\ ~AtEnd
  /\ response_state = "BODY"
  /\ chunked_response = chunked

ChunkSize == Least(count, chunk_bytes_left)

(* Faulty variant: the end of a chunk is not noticed. *)
ProcessDataChunkedNoEnd ==
  /\ InBody(TRUE)
  /\ Write(ChunkSize)
  /\ chunk_bytes_left' = chunk_bytes_left - ChunkSize
  /\ UNCHANGED response_state

ProcessDataChunked ==
  /\ InBody(TRUE)
  /\ Write(ChunkSize)
  /\ chunk_bytes_left' = chunk_bytes_left - ChunkSize
  /\ response_state' = IF chunk_bytes_left' = 0 THEN "CHUNK_END" ELSE "BODY"

(* Faulty variant: the length is not looked at. *)
PlainSizeUnlimited == count

PlainSize ==
  IF chunk_length = -1 THEN count
  ELSE Least(count, chunk_length - chunk_bytes_read)

ProcessDataNonChunked ==
  /\ InBody(FALSE)
  /\ Write(PlainSize)
  /\ response_state' =
       IF chunk_length # -1 /\ chunk_bytes_read' = chunk_length
       THEN "COMPLETE" ELSE "BODY"
  /\ UNCHANGED chunk_bytes_left

(* count still includes the lines already read: when the body is shorter    *)
(* than its length or has none, n exceeds what is left of the string.       *)
(* Either there is no memory behind it, or dit passes the end and never     *)
(* meets it again.  Where all of count was used up and more is expected,    *)
(* the loop then takes nothing at every turn, and is never left; where the  *)
(* body or the chunk counts as complete, the bytes behind the string were   *)
(* passed on, and after a chunk lines are read from there as well.          *)
Beyond == {"killed", "spins", "overrun"}
UsedUp(wanted) == wanted > count

ReadBeyond ==
  /\ \/ /\ InBody(TRUE) /\ ChunkSize > Available
        /\ pc' \in {"killed", IF UsedUp(chunk_bytes_left) THEN "spins" ELSE "overrun"}
     \/ /\ InBody(FALSE) /\ PlainSize > Available
        /\ pc' \in {"killed",
                   IF chunk_length = -1 \/ UsedUp(chunk_length - chunk_bytes_read)
                   THEN "spins" ELSE "overrun"}
  /\ UNCHANGED <<processor, headers, body, received, dit, count, line_buffer,
                 start>>

(* parseResponse returns. *)
Return ==
  /\ pc = "parse"
  /\ AtEnd \/ response_state = "COMPLETE"
  /\ pc' = "done"
  /\ UNCHANGED <<processor, headers, body, received, dit, count, line_buffer,
                 start>>

(* performRequest is over: its locals are gone, the client has taken the    *)
(* body, and the processor is back in the pool or lost.                     *)
Leave ==
  /\ pc \in {"done", "threw"}
  /\ pc' = IF pc = "done" THEN "idle" ELSE "lost"
  /\ received' = <<>> /\ dit' = 1 /\ count' = 0 /\ line_buffer' = FALSE
  /\ body' = <<>> /\ sent' = NoResponse
  /\ fresh' = TRUE /\ stale' = NoHeaders
  /\ UNCHANGED <<processor, headers, requests>>

Process ==
  \/ AccumulateLine \/ ProcessStatusLine
  \/ ProcessHeaderLine \/ ProcessHeaderThrows
  \/ ProcessHeadersContinue \/ BeginBody
  \/ ProcessChunkLengthLine \/ ProcessChunkEnd \/ ProcessFooterLine
  \/ ProcessDataChunked \/ ProcessDataNonChunked \/ ReadBeyond
  \/ Return
Next == Execute \/ ExecuteAgain \/ Process \/ Leave

Spec == Init /\ [][Next]_vars

(* The loop runs on. *)
FairSpec == Spec /\ WF_vars(Process)

-----------------------------------------------------------------------------
States == LineStates \cup {"BODY", "COMPLETE"}

(* Headers of an earlier response do no harm: they say nothing else than    *)
(* those of this one.                                                       *)
Agree ==
  /\ stale.chunked => IsChunked(sent) \/ sent.framing = "no content"
  /\ stale.length # -1 /\ sent.framing = "length" => stale.length = sent.size
Fresh == requests > 0 /\ fresh /\ Agree
Whole == received = Units(sent)
Framed == sent.framing # "close"
BodySent == Payload(1, sent.size)

(* The types of all variables; wherever a unit is looked at, dit has not   *)
(* been moved back over the beginning.                                     *)
TypeOK ==
  /\ pc \in {"idle", "lost", "parse", "done", "threw"} \cup Beyond
  /\ response_state \in States
  /\ http_code \in {0, 100, 102, 200, 204}
  /\ chunked_response \in BOOLEAN
  /\ chunk_bytes_left \in -1..(MaxSize + 12)
  /\ chunk_bytes_read \in Nat
  /\ chunk_length \in -1..MaxSize
  /\ headers \in [chunked : BOOLEAN, length : -1..MaxSize]
  /\ line_buffer \in BOOLEAN
  /\ sent \in Responses
  /\ dit \in Int /\ dit <= Len(received) + 1
  /\ response_state # "COMPLETE" => dit >= 1
  /\ count \in Nat
  /\ requests \in Nat
  /\ fresh \in BOOLEAN /\ stale \in [chunked : BOOLEAN, length : -1..MaxSize]

(* Wherever a response is cut, and before it is read to its end, nothing   *)
(* but a beginning of its body is passed on: no line of its head, no chunk *)
(* length, and no byte twice.  Of a whole, framed response it is all of    *)
(* the body: however it is chunked, after a 100 (Continue), with both      *)
(* framings given or with a trailer.  A 102 (Processing) is not among what *)
(* is understood.  It takes a processor that is new; that the request has  *)
(* been executed before does not matter, unless its old headers contradict *)
(* the new ones.                                                           *)
BodyExact ==
  pc \notin Beyond /\ Fresh /\ sent.interim # 102 =>
    /\ Len(body) <= sent.size
    /\ body = Payload(1, Len(body))
    /\ pc = "done" /\ Whole /\ Framed => body = BodySent

(* A new processor reads beyond a response's end only if that was cut      *)
(* short, comes without framing, or meets the headers of another one; and  *)
(* parsing throws only for a header of spaces.                             *)
FailsOnlyIf ==
  /\ Fresh /\ pc \in Beyond => ~Whole \/ ~Framed
  /\ pc = "threw" => sent.spaces

(* Parsing ends: the loop takes something at every turn, however the        *)
(* response is cut and whatever state the processor is in.  The exception   *)
(* is the code's: behind the end of a response that is cut, has no framing  *)
(* or meets what another one has left, it may turn for ever ("spins") or    *)
(* read on through memory ("overrun").                                      *)
ParsingEnds ==
  pc = "parse" ~>
    \/ pc \in {"done", "threw", "killed"}
    \/ pc \in {"spins", "overrun"} /\ ~(Fresh /\ Whole /\ Framed)

(* "The |SimpleHttpProcessor| ... may be reused across requests but can    *)
(* process only one at a time": a later response is understood like the    *)
(* first one.                                                              *)
ReusedBodyExact ==
  pc = "done" /\ stale = NoHeaders /\ Whole /\ Framed /\ sent.interim # 102 =>
    body = BodySent
=============================================================================
