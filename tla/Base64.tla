------------------------------- MODULE Base64 -------------------------------
(***************************************************************************)
(* utils::Base64Encode and Base64Decode (src/kwctoolkit/utils/base64.cc).  *)
(* A character of the alphabet is its place in kBase64Chars, 0..63; Pad is *)
(* '=' and Other any character that is neither.  Both functions go through *)
(* their input in groups, 3 bytes to 4 characters and back, and finish the *)
(* last group separately; a byte or a character is given here by the group *)
(* that it belongs to.                                                     *)
(***************************************************************************)
EXTENDS Integers, Sequences

Bytes == 0..255
Pad == 64
Other == 65

IsBase64(c) == c < Pad

(* kBase64Chars.find('\0') is npos, which a byte cuts to 255. *)
NotFound == 255

-----------------------------------------------------------------------------
(* char_array_4 of the group of bytes a, b, c. *)
EncodedGroup(a, b, c) ==
  <<a \div 4, (a % 4) * 16 + (b \div 16), (b % 16) * 4 + (c \div 64), c % 64>>

(* How many characters a group of i bytes becomes; '=' fills up to four. *)
CharsOf(i) == IF i = 3 THEN 4 ELSE i + 1

Base64Encode(bytes) ==
  LET n == Len(bytes)
      groups == (n + 2) \div 3
      Byte(i) == IF i <= n THEN bytes[i] ELSE 0
      InGroup(g) == IF 3 * g + 3 <= n THEN 3 ELSE n - 3 * g
      Group(g) == EncodedGroup(Byte(3 * g + 1), Byte(3 * g + 2), Byte(3 * g + 3))
  IN [k \in 1..(4 * groups) |->
        LET g == (k - 1) \div 4
            j == (k - 1) % 4
        IN IF j < CharsOf(InGroup(g)) THEN Group(g)[j + 1] ELSE Pad]

-----------------------------------------------------------------------------
(* char_array_3 of the group of characters a, b, c, d, each an unsigned     *)
(* char: what is shifted beyond it is lost.                                 *)
DecodedGroup(a, b, c, d) ==
  <<(((a * 4) % 256) + ((b % 64) \div 16)) % 256,
    ((b % 16) * 16 + ((c % 64) \div 4)) % 256,
    ((c % 4) * 64 + d) % 256>>

(* The characters before the first one that does not belong. *)
Significant(chars) ==
  CHOOSE n \in 0..Len(chars) :
    /\ \A i \in 1..n : IsBase64(chars[i])
    /\ n = Len(chars) \/ ~IsBase64(chars[n + 1])

(* How many bytes come of a group of i characters. *)
BytesOf(i) == IF i = 0 THEN 0 ELSE i - 1

Base64Decode(chars) ==
  LET n == Significant(chars)
      Char(i) == IF i <= n THEN chars[i] ELSE NotFound
      Group(g) == DecodedGroup(Char(4 * g + 1), Char(4 * g + 2),
                               Char(4 * g + 3), Char(4 * g + 4))
  IN [k \in 1..(3 * (n \div 4) + BytesOf(n % 4)) |->
        Group((k - 1) \div 3)[((k - 1) % 3) + 1]]

-----------------------------------------------------------------------------
(* The reference: the bits of the bytes in a row, cut into sixes.           *)
Bit(bytes, i) ==
  IF i \div 8 < Len(bytes) THEN (bytes[(i \div 8) + 1] \div 2^(7 - (i % 8))) % 2 ELSE 0
Sextet(bytes, k) ==
  LET B(j) == Bit(bytes, 6 * k + j)
  IN 32 * B(0) + 16 * B(1) + 8 * B(2) + 4 * B(3) + 2 * B(4) + B(5)

EncodesBits(bytes) ==
  LET chars == Base64Encode(bytes)
      significant == (8 * Len(bytes) + 5) \div 6
  IN \A k \in 1..Len(chars) :
       chars[k] = IF k <= significant THEN Sextet(bytes, k - 1) ELSE Pad

RoundTrips(bytes) == Base64Decode(Base64Encode(bytes)) = bytes
=============================================================================
