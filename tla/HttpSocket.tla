----------------------------- MODULE HttpSocket -----------------------------
(***************************************************************************)
(* The socket side of SimpleHttpProcessor::performRequest (src/kwctoolkit/ *)
(* transport/simple_http_transaction.cc): connect, send the request, recv  *)
(* the whole response, close.  One processor performs request after        *)
(* request.  The kernel and the peer are the environment: the host may not *)
(* be found or not answer, ::send takes a part or fails, as often as it    *)
(* likes; bytes of the response arrive in segments, and the peer may close *)
(* or reset the connection at any time, or fall silent.  KWC_CHECK only    *)
(* writes to the log: the code goes on behind each of them.                *)
(*                                                                         *)
(* A byte is its position: the message is 1..MessageLen, the response      *)
(* 1..ResponseLen.  terminators are the positions at which the response so *)
(* read ends with "0\r\n\r\n": decided when they are read.  Parsing what   *)
(* recv returns is HttpProcessor.                                         *)
(***************************************************************************)
EXTENDS Integers, Sequences

CONSTANTS
  MessageLen,           \* bytes in a request
  ResponseLen,          \* bytes the peer may send for one request
  Capacity,             \* bytes ::recv returns at most (char data[1 << 12])
  MaxRequests,          \* bound: requests performed
  MaxBack,              \* bound: places before the message told apart
  MaxWire               \* bound: bytes the kernel takes for one request

ASSUME SizesAssumption ==
  /\ MessageLen \in Nat \ {0}
  /\ ResponseLen \in Nat
  /\ Capacity \in Nat \ {0}
  /\ MaxRequests \in Nat
  /\ MaxBack \in Nat \ {0}
  /\ MaxWire \in Nat

VARIABLES
  pc,                   \* where performRequest is
  socket,               \* socket_: the descriptor, or -1
  open,                 \* the descriptors the process has open
  offset,               \* bytes of the message send() believes are sent
  wire,                 \* positions of the bytes handed to the kernel
  terminators,
  arrived,              \* bytes of the response in the kernel or read
  consumed,             \* bytes ::recv has returned
  peer,                 \* "up"; "closed" or "reset" by the peer; "broken"
  buffer,               \* recv's buffer
  timedOut,             \* has select() waited its four seconds in vain?
  requests              \* requests started

vars == <<pc, socket, open, offset, wire, terminators, arrived, consumed, peer,
          buffer, timedOut, requests>>
kernel == <<terminators, arrived, consumed, peer>>

Nowhere == {"idle", "threw", "killed"}

Positions(from, n) == [i \in 1..n |-> from + i]
Least(a, b) == IF a < b THEN a ELSE b

(* Calls of ::send that failed: each took one off offset, down to the bound. *)
Failures == Len(wire) - offset

-----------------------------------------------------------------------------
Init ==
  /\ pc = "idle"
  /\ socket = -1
  /\ open = {}
  /\ offset = 0
  /\ wire = <<>>
  /\ terminators = {}
  /\ arrived = 0
  /\ consumed = 0
  /\ peer = "up"
  /\ buffer = <<>>
  /\ timedOut = FALSE
  /\ requests = 0

(* connect(), whose failures are only logged.  Where the host is not found, *)
(* the pointer to its address is null and is read all the same; without a  *)
(* descriptor, ::connect and fcntl fail as well; and a connection that is   *)
(* not made leaves a socket that cannot be written to.                      *)
Connecting(fresh, next) ==
  \/ /\ pc' = "killed"
     /\ UNCHANGED <<socket, open, peer>>
  \/ /\ socket' = -1
     /\ pc' = next
     /\ UNCHANGED <<open, peer>>
  \/ /\ socket' = fresh
     /\ open' = open \cup {fresh}
     /\ peer' \in {"up", "broken"}
     /\ pc' = "send"

(* performRequest calls connect() ... *)
Connect ==
  /\ pc = "idle"
  /\ requests < MaxRequests
  /\ requests' = requests + 1
  /\ Connecting(requests', "retry")
  /\ UNCHANGED <<offset, wire, terminators, arrived, consumed, buffer, timedOut>>

(* ... and send() does so again if there is no descriptor, and asks no more. *)
ConnectAgain ==
  /\ pc = "retry"
  /\ Connecting(requests, "send")
  /\ UNCHANGED <<offset, wire, terminators, arrived, consumed, buffer, timedOut,
                 requests>>

-----------------------------------------------------------------------------
(* One turn of send()'s loop: the kernel takes n bytes from where buffer    *)
(* points to ...                                                            *)
Sending == pc = "send" /\ offset < MessageLen

SendSome ==
  /\ Sending
  /\ socket >= 0
  /\ peer \in {"up", "closed"}
  /\ \E n \in 1..(MessageLen - offset) :
       /\ Len(wire) + n <= MaxWire
       /\ wire' = wire \o Positions(offset, n)
       /\ offset' = offset + n
  /\ UNCHANGED <<pc, socket, open, kernel, buffer, timedOut, requests>>

(* ... or raises SIGPIPE: the connection is known to be gone, or was never  *)
(* made ...                                                                 *)
SendKills ==
  /\ Sending
  /\ socket >= 0
  /\ peer = "broken"
  /\ pc' = "killed"
  /\ UNCHANGED <<socket, open, offset, wire, kernel, buffer, timedOut, requests>>

(* ... or returns -1: EAGAIN, EINTR, or ECONNRESET, after which the         *)
(* connection is known to be gone; and EBADF, for ever, where there is no   *)
(* descriptor.                                                              *)
SendFails ==
  /\ Sending
  /\ socket >= 0 => peer # "broken"
  /\ pc' = "failed"
  /\ peer' = IF peer = "reset" THEN "broken" ELSE peer
  /\ UNCHANGED <<socket, open, offset, wire, terminators, arrived, consumed,
                 buffer, timedOut, requests>>

(* n is a size_t, so that n >= 0 holds of (size_t)-1: num_bytes grows by    *)
(* one and buffer moves back by one, before the first byte even, and the    *)
(* loop goes on.                                                            *)
SendMovesBack ==
  /\ pc = "failed"
  /\ offset' = IF offset > -MaxBack THEN offset - 1 ELSE offset
  /\ pc' = "send"
  /\ UNCHANGED <<socket, open, wire, kernel, buffer, timedOut, requests>>

(* Faulty variant: the last byte is not sent.                               *)
SendDoneEarly ==
  /\ pc = "send"
  /\ offset >= MessageLen - 1
  /\ pc' = "await"
  /\ UNCHANGED <<socket, open, offset, wire, kernel, buffer, timedOut, requests>>

SendDone ==
  /\ pc = "send"
  /\ offset >= MessageLen
  /\ pc' = "await"
  /\ UNCHANGED <<socket, open, offset, wire, kernel, buffer, timedOut, requests>>

-----------------------------------------------------------------------------
(* DataAwaiting: select() returns when the socket is readable, when four    *)
(* seconds have passed, or with EINTR: the set is then left as it was, and  *)
(* FD_ISSET says TRUE.                                                      *)
Readable == arrived > consumed \/ peer # "up"
Awaits(answer) == answer \/ ~Readable

(* recv() asks DataAwaiting first, and returns "" if it says FALSE. *)
FirstWait ==
  /\ pc = "await"
  /\ \E answer \in BOOLEAN :
       /\ Awaits(answer)
       /\ pc' = IF answer THEN "recv" ELSE "parse"
       /\ timedOut' = ~answer
  /\ UNCHANGED <<socket, open, offset, wire, kernel, buffer, requests>>

EndsWithTerminator(b) == b # <<>> /\ b[Len(b)] \in terminators

(* The bytes that have just been read may be the end of a terminator. *)
LastChunk == terminators' \in {terminators, terminators \cup {consumed'}}

(* Faulty variants: a short read is taken for the last; the end of the     *)
(* stream is not noticed.                                                  *)
ReceiveOnce ==
  /\ pc = "recv"
  /\ arrived > consumed
  /\ LET n == Least(Capacity, arrived - consumed) IN
       /\ buffer' = buffer \o Positions(consumed, n)
       /\ consumed' = consumed + n
       /\ LastChunk
       /\ pc' = IF n < Capacity THEN "parse" ELSE "recv"
  /\ UNCHANGED <<socket, open, offset, wire, arrived, peer, timedOut, requests>>


(* ::recv returns what has arrived, up to the size of data[]. *)
Receive ==
  /\ pc = "recv"
  /\ arrived > consumed
  /\ LET n == Least(Capacity, arrived - consumed) IN
       /\ buffer' = buffer \o Positions(consumed, n)
       /\ consumed' = consumed + n
       /\ LastChunk
       /\ pc' = IF EndsWithTerminator(buffer)' THEN "parse" ELSE "recv"
  /\ UNCHANGED <<socket, open, offset, wire, arrived, peer, timedOut, requests>>

(* ::recv returns 0: the peer has closed the connection. *)
ReceiveEnd ==
  /\ pc = "recv"
  /\ arrived = consumed
  /\ peer \in {"closed", "broken"}
  /\ pc' = "parse"
  /\ UNCHANGED <<socket, open, offset, wire, kernel, buffer, timedOut, requests>>

(* ::recv returns -1 with EAGAIN: DataAwaiting decides. *)
ReceiveAgain ==
  /\ pc = "recv"
  /\ arrived = consumed
  /\ peer = "up"
  /\ pc' = "again"
  /\ UNCHANGED <<socket, open, offset, wire, kernel, buffer, timedOut, requests>>

(* Nothing for four seconds: what was read so far is the response. *)
AgainTimeout ==
  /\ pc = "again"
  /\ Awaits(FALSE)
  /\ timedOut' = TRUE
  /\ pc' = "parse"
  /\ UNCHANGED <<socket, open, offset, wire, kernel, buffer, requests>>

(* Data or the end came within the four seconds: ret is still (size_t)-1,   *)
(* and inserting the range from &data[0] to &data[ret], of length -1,       *)
(* throws std::length_error out of performRequest.                          *)
AgainThrows ==
  /\ pc = "again"
  /\ Awaits(TRUE)
  /\ pc' = "threw"
  /\ UNCHANGED <<socket, open, offset, wire, kernel, buffer, timedOut, requests>>

(* ::recv returns -1 with another error: the same range is inserted. *)
ReceiveError ==
  /\ pc = "recv"
  /\ arrived = consumed
  /\ peer = "reset"
  /\ pc' = "threw"
  /\ UNCHANGED <<socket, open, offset, wire, kernel, buffer, timedOut, requests>>

(* Faulty variant: the descriptor is not forgotten. *)
CloseKeepsSocket ==
  /\ pc = "parse"
  /\ open' = open \ {socket}
  /\ pc' = "idle"
  /\ offset' = 0 /\ wire' = <<>> /\ buffer' = <<>>
  /\ arrived' = 0 /\ consumed' = 0 /\ peer' = "up" /\ terminators' = {}
  /\ timedOut' = FALSE
  /\ UNCHANGED <<socket, requests>>

(* close(), and performRequest returns.  What the next request does not see *)
(* is reset.                                                                *)
Close ==
  /\ pc = "parse"
  /\ open' = IF socket >= 0 THEN open \ {socket} ELSE open
  /\ socket' = -1
  /\ pc' = "idle"
  /\ offset' = 0 /\ wire' = <<>> /\ buffer' = <<>>
  /\ arrived' = 0 /\ consumed' = 0 /\ peer' = "up" /\ terminators' = {}
  /\ timedOut' = FALSE
  /\ UNCHANGED requests

-----------------------------------------------------------------------------
(* The peer, which may answer before it has read the request. *)
Connected == pc \in {"send", "failed", "await", "recv", "again"} /\ socket >= 0

Arrive ==
  /\ Connected
  /\ peer = "up"
  /\ \E n \in 1..(ResponseLen - arrived) : arrived' = arrived + n
  /\ UNCHANGED <<pc, socket, open, offset, wire, terminators, consumed, peer,
                 buffer, timedOut, requests>>

(* The peer closes or resets; what is sent to a peer that has closed may be *)
(* answered by a reset: the next ::send raises SIGPIPE, ::recv returns 0.   *)
PeerCloses ==
  /\ Connected
  /\ \/ peer = "up" /\ peer' \in {"closed", "reset"}
     \/ peer = "closed" /\ wire # <<>> /\ peer' = "broken"
  /\ UNCHANGED <<pc, socket, open, offset, wire, terminators, arrived, consumed,
                 buffer, timedOut, requests>>

SendStep == SendSome \/ SendKills \/ SendFails \/ SendMovesBack \/ SendDone
ReceiveStep ==
  FirstWait \/ Receive \/ ReceiveEnd \/ ReceiveAgain \/ AgainTimeout
ReceiveThrows == AgainThrows \/ ReceiveError
RequestStep ==
  ConnectAgain \/ SendStep \/ ReceiveStep \/ ReceiveThrows \/ Close
Next == Connect \/ RequestStep \/ Arrive \/ PeerCloses

Spec == Init /\ [][Next]_vars

(* The processor's thread runs on: each of its calls returns, select() after *)
(* four seconds at the latest.  Nothing is assumed of the peer, nor of what  *)
(* ::send answers.                                                           *)
FairSpec == Spec /\ WF_vars(RequestStep)

-----------------------------------------------------------------------------
(* By the time send() returns the peer has been handed the message, each   *)
(* byte once and in order, however the kernel splits it; if ::send has     *)
(* failed, bytes may be doubled, but none is left out.                     *)
SentIsMessage ==
  pc \in {"await", "recv", "again", "parse"} =>
    /\ Failures = 0 => wire = Positions(0, MessageLen)
    /\ 1..MessageLen \subseteq {wire[i] : i \in DOMAIN wire}

(* recv() returns for a reason: the peer has closed and everything it sent *)
(* was read; or the last chunk's terminator was just read; or four seconds *)
(* have passed in silence.  What it returns is then exactly what was       *)
(* read, and nothing that had arrived is left behind but for the bytes     *)
(* after a terminator, or those that came after the silence.               *)
ReceivedForAReason ==
  pc = "parse" =>
    /\ buffer = Positions(0, consumed)
    /\ \/ timedOut
       \/ EndsWithTerminator(buffer)
       \/ peer \in {"closed", "broken"} /\ consumed = arrived

(* The process has no descriptor open but socket_: no request that ended   *)
(* normally leaks one, and none is closed twice or used once closed.       *)
DescriptorsAccounted == open = IF socket = -1 THEN {} ELSE {socket}


(* KWC_CHECK(n >= 0) << "send() call failed": a call of ::send never takes *)
(* anything back.                                                          *)
SendNeverMovesBack ==
  [][(pc \in {"send", "failed"}) => offset' >= offset]_vars
=============================================================================
