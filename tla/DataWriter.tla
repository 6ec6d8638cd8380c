----------------------------- MODULE DataWriter -----------------------------
(***************************************************************************)
(* serialization::DataWriter (src/kwctoolkit/serialization/data_writer.h,  *)
(* data_writer.cc), as StringDataWriter (string_data_writer.cc) or a       *)
(* writer whose operations may fail implements it, and the copying of what *)
(* a DataReader gives.  Of the reader there is what readIntoBuffer         *)
(* promises; DataReader.tla shows that the readers keep it.  HttpResponse  *)
(* instantiates this module and states what it assumes of the constants.   *)
(***************************************************************************)
EXTENDS Integers, Sequences

CONSTANTS
  MaxData,              \* bound: bytes that a reader has to give
  MaxStored,            \* bound: bytes in the storage
  ChunkSize             \* default_chunk_size

VARIABLES
  failing,              \* may the operations of the writer fail?
  writer,               \* storage, size_, has_begun_, and status_.ok()
  reader,               \* the reader that is, or was, copied from
  call                  \* the copy in progress, or the one that has ended

vars == <<failing, writer, reader, call>>

(* The writer does not look at the bytes: those of a reader are told apart  *)
(* by their place, and those that are written directly are 0.               *)
Data(n) == {[i \in 1..k |-> i] : k \in 0..n}
Zeros(n) == {[i \in 1..k |-> 0] : k \in 0..n}
Least(a, b) == IF a < b THEN a ELSE b

Reader(data, total) ==
  [data |-> data, total |-> total, offset |-> 0, done |-> total = 0, error |-> FALSE]
Readers ==
  {Reader(data, -1) : data \in Data(MaxData)}
  \cup {Reader(data, Len(data)) : data \in Data(MaxData)}
InvalidReader == [Reader(<<>>, -1) EXCEPT !.done = TRUE, !.error = TRUE]

NoCopy == [op |-> "none", active |-> FALSE, max |-> 0, remaining |-> 0, ok |-> TRUE,
           stored |-> <<>>, begun |-> FALSE, from |-> 0]

(* stored and begun: the writer when the copy began; from: where the reader *)
(* was.                                                                     *)
Copy(max) ==
  [NoCopy EXCEPT !.op = "copy", !.max = max, !.stored = writer.storage,
                 !.begun = writer.begun, !.from = reader.offset]
Idle == ~call.active

-----------------------------------------------------------------------------
(* The operations, as the sets of writers that they may leave behind. *)
Outcomes == IF failing THEN BOOLEAN ELSE {TRUE}

Cleared(w) ==
  {[w EXCEPT !.size = 0, !.ok = ok, !.storage = IF ok THEN <<>> ELSE @] :
     ok \in Outcomes}

(* Faulty variant: the storage of a writer that begins is kept. *)
BegunKeeps(w) == {[w EXCEPT !.size = 0, !.ok = ok, !.begun = ok] : ok \in Outcomes}

Begun(w) == {[c EXCEPT !.begun = c.ok] : c \in Cleared(w)}

Ended(w) == {[w EXCEPT !.ok = ok] : ok \in Outcomes}

(* A write that fails may have stored a part. *)
Appended(w, bytes) ==
  {[w EXCEPT !.storage = @ \o bytes, !.size = @ + Len(bytes)]}
  \cup IF failing
       THEN {[w EXCEPT !.storage = @ \o SubSeq(bytes, 1, k), !.ok = FALSE] :
               k \in 0..Len(bytes)}
       ELSE {}

(* writeData: the first write begins; a bad writer writes nothing. *)
Opened(w) == IF w.begun THEN {w} ELSE Begun(w)
Written(w, bytes) ==
  UNION {IF o.ok THEN Appended(o, bytes) ELSE {o} : o \in Opened(w)}

-----------------------------------------------------------------------------
Init ==
  /\ failing \in BOOLEAN
  /\ \E stored \in Zeros(1) :
       writer = [storage |-> stored, size |-> 0, begun |-> FALSE, ok |-> TRUE]
  /\ reader \in Readers
  /\ call = NoCopy

Clear ==
  /\ Idle
  /\ writer' \in Cleared(writer)
  /\ call' = NoCopy
  /\ UNCHANGED <<failing, reader>>

Begin ==
  /\ Idle
  /\ writer' \in Begun(writer)
  /\ call' = NoCopy
  /\ UNCHANGED <<failing, reader>>

End ==
  /\ Idle
  /\ writer' \in Ended(writer)
  /\ call' = NoCopy
  /\ UNCHANGED <<failing, reader>>

WriteData(bytes) ==
  /\ Idle
  /\ Len(writer.storage) + Len(bytes) <= MaxStored
  /\ writer' \in Written(writer, bytes)
  /\ call' = NoCopy
  /\ UNCHANGED <<failing, reader>>

(* A negative number of bytes: the error is returned, and not remembered. *)
WriteNegative ==
  /\ Idle
  /\ writer' \in Opened(writer)
  /\ call' = NoCopy
  /\ UNCHANGED <<failing, reader>>

(* createManagedDataReader: a reader of what has been stored so far. *)
CreateReader ==
  /\ Idle
  /\ Len(writer.storage) <= MaxData
  /\ reader' = IF writer.ok THEN Reader(writer.storage, Len(writer.storage))
               ELSE InvalidReader
  /\ call' = NoCopy
  /\ UNCHANGED <<failing, writer>>

(* The caller comes with another reader. *)
OtherReader ==
  /\ Idle
  /\ reader' \in Readers
  /\ call' = NoCopy
  /\ UNCHANGED <<failing, writer>>

-----------------------------------------------------------------------------
(* writeData(reader, max_bytes); max_bytes < 0 stands for no limit. *)
Unlimited == MaxData + 1
Limit(max) ==
  LET rest == reader.total - reader.offset
      most == IF max < 0 THEN Unlimited ELSE max
  IN IF rest < 0 THEN most ELSE Least(rest, most)

BeginCopy(max) ==
  /\ Idle
  /\ Len(writer.storage) + Len(reader.data) <= MaxStored
  /\ writer.ok
  /\ call' = [Copy(max) EXCEPT
                !.active = TRUE,
                !.remaining = IF reader.done THEN 0 ELSE Limit(max)]
  /\ UNCHANGED <<failing, writer, reader>>

BadWriter(max) ==
  /\ Idle
  /\ ~writer.ok
  /\ call' = [Copy(max) EXCEPT !.ok = FALSE]
  /\ UNCHANGED <<failing, writer, reader>>

(* readIntoBuffer: as much as is asked for, unless the reader is at its end *)
(* or fails on the way; after an internal error it says 0 were read.  A     *)
(* reader that gave all it has may know it, or find out at the next call.   *)
ReadIntoBuffer(n) ==
  LET rest == Len(reader.data) - reader.offset
      all == Least(n, rest)
      After(k, done, error) ==
        [reader EXCEPT !.offset = @ + k, !.done = done, !.error = error]
  IN {[read |-> all, reader |-> After(all, done, FALSE)] :
        done \in {d \in BOOLEAN : (n > rest => d) /\ (d => n >= rest)}}
     \cup {[read |-> k, reader |-> After(k, TRUE, TRUE)] : k \in 0..all}
     \cup {[read |-> 0, reader |-> After(k, TRUE, TRUE)] : k \in 0..all}

ChunkOf(n) == Least(n, ChunkSize)
Copying == call.active /\ call.remaining # 0 /\ ~reader.done /\ writer.ok

CopyChunk ==
  /\ Copying
  /\ \E in \in ReadIntoBuffer(ChunkOf(call.remaining)) :
       /\ reader' = in.reader
       /\ writer' \in Written(writer, SubSeq(reader.data, reader.offset + 1,
                                             reader.offset + in.read))
       /\ call' = [call EXCEPT !.remaining = @ - in.read]
  /\ UNCHANGED failing

(* Faulty variant: the error of the reader is forgotten. *)
CopyReturnsForgets ==
  /\ call.active
  /\ ~Copying
  /\ call' = [call EXCEPT !.active = FALSE, !.ok = writer.ok]
  /\ UNCHANGED <<failing, writer, reader>>

(* An error of the reader becomes one of the writer. *)
CopyReturns ==
  /\ call.active
  /\ ~Copying
  /\ writer' = [writer EXCEPT !.ok = @ /\ ~reader.error]
  /\ call' = [call EXCEPT !.active = FALSE, !.ok = writer'.ok]
  /\ UNCHANGED <<failing, reader>>

-----------------------------------------------------------------------------
Step == CopyChunk \/ CopyReturns
Next ==
  \/ Clear \/ Begin \/ End \/ WriteNegative \/ CreateReader \/ OtherReader
  \/ \E bytes \in Zeros(2) : WriteData(bytes)
  \/ \E max \in -1..MaxData : BeginCopy(max) \/ BadWriter(max)
  \/ Step

(* A copy runs on; nobody is obliged to make one. *)
Spec == Init /\ [][Next]_vars /\ WF_vars(Step)
-----------------------------------------------------------------------------
(* getSize() is what the string holds, whatever was begun, cleared, ended, *)
(* written and copied, and whatever the string held at first.              *)
SizeIsStored ==
  ~failing /\ writer.begun => writer.size = Len(writer.storage)

(* What the copy in progress, or the last one, appends to: the first write *)
(* clears what was there.                                                  *)
CopiedTo == IF call.begun THEN {call.stored}
            ELSE {call.stored, <<>>}
CopiedIs(k) ==
  \E base \in CopiedTo :
    writer.storage = base \o SubSeq(reader.data, call.from + 1, call.from + k)

(* A copy that reports no error has stored all that the reader had from    *)
(* where it was, or max_bytes of it, and nothing else: no chunk is left    *)
(* out, cut or repeated, and no error, of the reader or of the writer, is  *)
(* passed over.  A copy that stops on an error has stored the beginning,   *)
(* and of what it took from the reader at most one chunk is lost.          *)
CopyStored ==
  call.op = "copy" =>
    LET rest == Len(reader.data) - call.from
    IN /\ ~call.active /\ call.ok =>
            CopiedIs(IF call.max < 0 THEN rest ELSE Least(rest, call.max))
       /\ ~call.ok =>
            \E k \in 0..(reader.offset - call.from) :
              CopiedIs(k) /\ reader.offset - call.from - k <= ChunkSize
=============================================================================
