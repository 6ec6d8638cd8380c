---------------------------- MODULE HttpResponse ----------------------------
(***************************************************************************)
(* transport::HttpResponse (src/kwctoolkit/transport/http_response.h,      *)
(* http_response.cc) between the writer that a response is written to and  *)
(* the reader that its body is read from:                                  *)
(*   - the body writer is a DataWriter: the parser of responses writes to  *)
(*     it, the client may copy a reader into it, clear it, and so on;      *)
(*   - the client makes a reader of what has been written the body reader, *)
(*     or any other reader, and the writer is gone;                        *)
(*   - the client uses the reader itself, and calls getBody, which seeks,  *)
(*     reads, and seeks again.                                             *)
(* The reader is the state of DataReader; the writer is an instance of     *)
(* DataWriter.                                                             *)
(***************************************************************************)
EXTENDS DataReader

CONSTANTS
  MaxWritten,           \* bound: bytes of a reader that is copied
  MaxStored,            \* bound: bytes that the writer stores
  ChunkSize             \* default_chunk_size of DataWriter

(* A response is never too long for its reader, which has no bound in the   *)
(* code: Unlimited is more than all the bytes there may be.                 *)
ASSUME WriterAssumption ==
  /\ MaxWritten \in Nat /\ MaxStored \in 1..MaxData
  /\ ChunkSize \in Nat \ {0}

VARIABLES
  failing, writer, source, copy,        \* body_writer_, as in DataWriter
  body                                  \* the call of getBody, if there is one

Writer == INSTANCE DataWriter WITH
  MaxData <- MaxWritten, reader <- source, call <- copy

writing == <<failing, writer, source, copy>>
all == <<vars, writing, body>>

NoBody == [phase |-> "none", stuck |-> FALSE, ok |-> TRUE, bytes |-> <<>>]
GettingBody == body.phase \in {"rewound", "reading"}

(* No reader has been set yet: body_reader_ is a null pointer. *)
NoReader ==
  /\ kind = "none" /\ data = <<>> /\ total = -1
  /\ status = "ok" /\ done = TRUE
  /\ offset = 0 /\ position = 0
  /\ call = NoCall

HasReader == kind # "none"

(* What is left when the writer has been deleted. *)
NoWriter == [storage |-> <<>>, size |-> 0, begun |-> FALSE, ok |-> FALSE]
WriterGone ==
  /\ failing' = FALSE
  /\ writer' = NoWriter
  /\ source' = Writer!InvalidReader
  /\ copy' = Writer!NoCopy

-----------------------------------------------------------------------------
(* A response that is being written, or one that was given a reader.        *)
ResponseInit ==
  /\ \/ NoReader /\ Writer!Init
     \/ /\ Init
        /\ failing = FALSE /\ writer = NoWriter
        /\ source = Writer!InvalidReader /\ copy = Writer!NoCopy
  /\ body = NoBody

(* setBodyWriter has been called before: the parser, and the client, write. *)
WriteBody ==
  /\ ~HasReader
  /\ Writer!Next
  /\ UNCHANGED <<vars, body>>

(* setBodyReader(createManagedDataReader()): the reader has a copy of what  *)
(* the writer has stored, or refuses everything.                            *)
SetBodyReader ==
  /\ ~HasReader
  /\ Writer!Idle
  /\ kind' = IF writer.ok THEN "memory" ELSE "invalid"
  /\ data' = IF writer.ok THEN writer.storage ELSE <<>>
  /\ total' = IF writer.ok THEN Len(writer.storage) ELSE -1
  /\ status' = IF writer.ok THEN "ok" ELSE "error"
  /\ done' = (writer.ok => total' = 0)
  /\ WriterGone
  /\ UNCHANGED <<offset, position, call, body>>

(* The client uses the reader itself. *)
UseReader ==
  /\ HasReader /\ ~GettingBody
  /\ Begin \/ Step
  /\ body' = NoBody
  /\ UNCHANGED writing

-----------------------------------------------------------------------------
(* getBody.  A reader that is done where it starts has been left so by a    *)
(* read that failed there.                                                  *)
Stuck == done /\ offset = 0 /\ data # <<>>

GetBody ==
  /\ HasReader /\ ~GettingBody
  /\ offset = 0
  /\ BeginRead("string", Unlimited)
  /\ body' = [NoBody EXCEPT !.phase = "reading", !.stuck = Stuck]
  /\ UNCHANGED writing

GetBodyResets ==
  /\ HasReader /\ ~GettingBody
  /\ offset # 0
  /\ SetOffset(0)
  /\ body' = IF offset' = 0 THEN [NoBody EXCEPT !.phase = "rewound"]
             ELSE [NoBody EXCEPT !.phase = "returned", !.ok = (status' = "ok")]
  /\ UNCHANGED writing

GetBodyReads ==
  /\ body.phase = "rewound"
  /\ BeginRead("string", Unlimited)
  /\ body' = [body EXCEPT !.phase = "reading", !.stuck = Stuck]
  /\ UNCHANGED writing

(* Faulty variant: the status is asked for after the reset. *)
GetBodyReturnsLate ==
  /\ body.phase = "reading"
  /\ SetOffset(0)
  /\ body' = [body EXCEPT !.phase = "returned", !.bytes = call.bytes,
                          !.ok = (status' = "ok")]
  /\ UNCHANGED writing

(* What was read, and the status of the reader; the last reset clears it.   *)
GetBodyReturns ==
  /\ body.phase = "reading"
  /\ SetOffset(0)
  /\ body' = [body EXCEPT !.phase = "returned", !.bytes = call.bytes,
                          !.ok = (status = "ok")]
  /\ UNCHANGED writing

GetBodySteps ==
  \/ GettingBody /\ Step /\ UNCHANGED <<writing, body>>
  \/ GetBodyReads \/ GetBodyReturns

-----------------------------------------------------------------------------
ResponseNext ==
  \/ WriteBody \/ SetBodyReader \/ UseReader
  \/ GetBody \/ GetBodyResets \/ GetBodySteps

(* The calls run on; nobody is obliged to make one. *)
ResponseSteps ==
  \/ ~HasReader /\ Writer!Step /\ UNCHANGED <<vars, body>>
  \/ HasReader /\ ~GettingBody /\ Step /\ body' = NoBody /\ UNCHANGED writing
  \/ GetBodySteps
ResponseSpec ==
  ResponseInit /\ [][ResponseNext]_all /\ WF_all(ResponseSteps)

-----------------------------------------------------------------------------
(* getSize() of the body writer is what the string holds, whatever was      *)
(* begun, cleared, ended, written and copied, and whatever the string held  *)
(* at first.                                                                *)
SizeIsStored == Writer!SizeIsStored

(* A copy into the body writer that reports no error has stored all that    *)
(* the reader had, or max_bytes of it, and nothing else; one that stops on  *)
(* an error has stored the beginning, and lost a chunk at most.             *)
CopyStored == Writer!CopyStored

(* What getBody hands out without an error is the whole body, wherever the  *)
(* client had left the reader: readers that cannot seek, or that a failed   *)
(* seek or read has stopped, answer with an error.  The one exception is a  *)
(* reader that failed on its first byte: reset() clears the error and       *)
(* leaves the reader done, and the next getBody hands out nothing and says  *)
(* that this is the body.                                                   *)
BodyWhole ==
  body.phase = "returned" /\ body.ok =>
    body.bytes = IF body.stuck THEN <<>> ELSE data

(* Every call comes back, of the reader, of getBody and of the writer: no   *)
(* loop waits for bytes that will not come.                                 *)
Busy == call.active \/ GettingBody \/ copy.active
CallsEnd == Busy ~> ~Busy
=============================================================================
