------------------------------- MODULE Address -------------------------------
(***************************************************************************)
(* net::Address (src/kwctoolkit/net/address.h) with AddressIPv4 and        *)
(* AddressIPv6: an address of either version, made from text by trying     *)
(* both.  Each attempt returns a Result, whose error must be received, so  *)
(* that fromString is a program of the operations of Result, variant       *)
(* "fallback", that ends with the destructors of its variables.            *)
(*                                                                         *)
(* Two addresses are compared by operators of their own, which are the     *)
(* last part of this module.                                               *)
(***************************************************************************)
EXTENDS Result

CONSTANTS from_v4, from_v6, returned    \* the variables of type Result

ASSUME AddressAssumption ==
  /\ {from_v4, from_v6, returned} \subseteq Slots
  /\ from_v4 # from_v6 /\ returned \notin {from_v4, from_v6}

VARIABLES
  text,                 \* which version the text is an address of
  at                    \* how far fromString is

Texts == {"IPv4", "IPv6", "neither"}
program == <<text, at>>

AddressInit ==
  /\ Init /\ variant = "fallback"
  /\ text \in Texts
  /\ at = "tries IPv4"

-----------------------------------------------------------------------------
GoesTo(next) == at' = next /\ UNCHANGED text

(* AddressIPv4::fromString and AddressIPv6::fromString: inet_pton. *)
Parse(version, s) ==
  \E o \in Objects :
    IF text = version THEN MakeSuccess(s, o) ELSE MakeError(s, o)

ParseIPv4 ==
  /\ at = "tries IPv4"
  /\ Parse("IPv4", from_v4)
  /\ GoesTo(IF text = "IPv4" THEN "has IPv4" ELSE "tries IPv6")

ParseIPv6 ==
  /\ at = "tries IPv6"
  /\ Parse("IPv6", from_v6)
  /\ GoesTo(IF text = "IPv6" THEN "has IPv6" ELSE "has none")

TakeIPv4 ==
  /\ at = "has IPv4"
  /\ GetSuccess(from_v4)
  /\ GoesTo("returns address")

TakeIPv6 ==
  /\ at = "has IPv6"
  /\ GetSuccess(from_v6)
  /\ GoesTo("drops error")

(* Faulty variant: the error is not received. *)
DropErrorNot ==
  /\ at = "drops error"
  /\ GoesTo("returns address")
  /\ UNCHANGED vars

(* auto _ = from_v4.getError() *)
DropError ==
  /\ at = "drops error"
  /\ GetError(from_v4)
  /\ GoesTo("returns address")

TakeError ==
  /\ at = "has none"
  /\ GetError(from_v6)
  /\ GoesTo("returns error")

(* The result is made of the address, or of the error that was received.    *)
Return ==
  /\ \/ at = "returns address" /\ \E o \in Objects : MakeSuccess(returned, o)
     \/ at = "returns error" /\ \E o \in Objects : MakeError(returned, o)
  /\ GoesTo("leaves IPv6")

(* The destructors, in the reverse order of the declarations: an attempt    *)
(* that was not made has no variable.                                       *)
LeaveScope(s, from, to) ==
  /\ at = from
  /\ IF Live(s) THEN Destroy(s) \/ AssertionFails(MayDestroy(s)) ELSE UNCHANGED vars
  /\ GoesTo(to)

AddressNext ==
  \/ ParseIPv4 \/ TakeIPv4
  \/ ParseIPv6 \/ TakeIPv6 \/ DropError \/ TakeError
  \/ Return
  \/ ~failed /\ LeaveScope(from_v6, "leaves IPv6", "leaves IPv4")
  \/ ~failed /\ LeaveScope(from_v4, "leaves IPv4", "has returned")

-----------------------------------------------------------------------------
(* fromString returns an address exactly for the text of one, and leaves    *)
(* nothing behind: no address and no error is lost on the way.  A text that *)
(* is neither gives no error to the caller where assertions are compiled    *)
(* in: the one of the first attempt was not received, and its destructor    *)
(* aborts the program.                                                      *)
FromStringAnswers ==
  at = "has returned" =>
    IF text = "neither" THEN failed /\ slot[returned].tag = "error"
    ELSE /\ ~failed
         /\ slot[returned].tag = "success"
         /\ \A s \in Slots \ {returned} : ~Live(s)
         /\ NothingDiscarded

-----------------------------------------------------------------------------
(* An address has a part of each version, and only that of its own type is  *)
(* ever set: the constructors, the assignments and fromString leave the     *)
(* other one as its default constructor made it, which is the address 0.    *)
Default == 0
AddressOf(type, n) ==
  [type |-> type,
   address_ipv4 |-> IF type = "IPv4" THEN n ELSE Default,
   address_ipv6 |-> IF type = "IPv6" THEN n ELSE Default]

(* operator== compares the parts of version 4 of two addresses of either    *)
(* version, and operator!= those of their version.                          *)
Equal(a1, a2) == a1.type = a2.type /\ a1.address_ipv4 = a2.address_ipv4

NotEqual(a1, a2) ==
  \/ a1.type # a2.type
  \/ a1.type = "IPv4" /\ a1.address_ipv4 # a2.address_ipv4
  \/ a1.type = "IPv6" /\ a1.address_ipv6 # a2.address_ipv6

(* Of any two addresses operator!= tells whether they differ, and so does   *)
(* operator== unless both are of version 6: then it holds, and where they   *)
(* differ both do.                                                          *)
ComparedExactly(numbers) ==
  LET Addresses == {AddressOf(type, n) : type \in {"IPv4", "IPv6"}, n \in numbers}
  IN \A a1, a2 \in Addresses :
       /\ NotEqual(a1, a2) <=> a1 # a2
       /\ IF {a1.type, a2.type} = {"IPv6"} THEN Equal(a1, a2)
          ELSE Equal(a1, a2) <=> a1 = a2
=============================================================================
