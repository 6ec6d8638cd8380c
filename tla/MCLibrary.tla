----------------------------- MODULE MCLibrary -----------------------------
(* Small instances of Library for TLC. *)
EXTENDS Library, TLC

(* The variables of type Result have roles in fromString, and so only the   *)
(* objects are interchangeable.                                             *)
Symmetry == Permutations(Objects)

(* Pictures of one pixel, of several rows, of several columns, and one of   *)
(* more bytes than a number of 4 bits counts.                               *)
MCPictures ==
  {[width |-> w, height |-> h, alpha |-> a, passes |-> p] :
     w \in 1..2, h \in 1..3, a \in BOOLEAN, p \in 1..2}
MCWord == 16

MCQuestions ==
  {"strings", "processes", "memory", "wide", "UTF-8",
   "bytes", "distance", "integers", "addresses"}

MCLetters ==
  [q \in MCQuestions |->
     CASE q = "strings" -> {32, 44, 65, 97}
       [] q = "processes" -> {32, 40, 41, 97}
       [] q = "memory" -> {32, 49, 79, 84}
       [] q = "wide" -> {-1, 65, 127, 128, 2047, 2048, 55295, 55296, 65535, 65536,
                         1114111, 1114112}
       [] q = "UTF-8" -> {65, 128, 159, 160, 191, 192, 194, 224, 237, 240, 244, 245}
       [] q = "bytes" -> {0, 1, 85, 170, 255}
       [] q = "distance" -> {1, 2, 3}
       [] q = "integers" -> -4..7
       [] q = "addresses" -> 0..2]

MCMaxOne ==
  [q \in MCQuestions |->
     CASE q = "bytes" -> 5
       [] q \in {"strings", "processes", "UTF-8"} -> 4
       [] q \in {"memory", "wide", "distance"} -> 3
       [] q = "integers" -> 1
       [] q = "addresses" -> 0]

MCMaxTwo ==
  [q \in MCQuestions |->
     CASE q \in {"memory", "distance"} -> 3
       [] q = "strings" -> 2
       [] q = "integers" -> 1
       [] OTHER -> 0]
=============================================================================
