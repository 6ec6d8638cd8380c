-------------------------------- MODULE Image --------------------------------
(***************************************************************************)
(* image::ReadPNG and WritePNG (src/kwctoolkit/image/png_decoder.cc): the  *)
(* order in which they make, use and release what they get from libpng and *)
(* from malloc.  libpng, which is external, reports an error by calling    *)
(* ErrorFunc, which jumps (longjmp) to the beginning of the function: the  *)
(* destructors of what was declared since then do not run.                 *)
(***************************************************************************)
EXTENDS Integers

CONSTANTS
  Pictures,             \* what is read or written: [width, height, alpha, passes]
  Word,                 \* 2^32: sizes of pictures are numbers of 32 bits
  MaxStride             \* the greatest int

ASSUME ImageAssumption ==
  /\ \A p \in Pictures : {p.width, p.height, p.passes} \subseteq Nat \ {0} /\ p.alpha \in BOOLEAN
  /\ Word \in Nat \ {0}

VARIABLES
  call,                 \* "ReadPNG" or "WritePNG"
  keep_alpha,           \* the mode asked for has alpha
  picture,
  step,                   \* how far the call is
  heap,                 \* what has been made and not been released
  lines,                \* how many lines were read, in all passes, or written
  rows,                 \* rows[y]: how often row y of the buffer was filled
  result,               \* what the call has returned
  pixels,               \* the buffer of the Image returned
  trapped               \* the call was left by the jump

imageVars == <<call, keep_alpha, picture, step, heap, lines, rows, result, pixels, trapped>>
input == <<call, keep_alpha, picture>>

Structures == {"png", "info", "end_info"}
NoPixels == <<>>

ImageInit ==
  /\ call \in {"ReadPNG", "WritePNG"}
  /\ keep_alpha \in BOOLEAN
  /\ picture \in Pictures
  /\ step = "starts"
  /\ heap = {}
  /\ lines = 0
  /\ rows = [y \in 0..(picture.height - 1) |-> 0]
  /\ result = "none"
  /\ pixels = NoPixels
  /\ trapped = FALSE

-----------------------------------------------------------------------------
Continue(from, to, made) ==
  /\ step = from
  /\ step' = to
  /\ heap' = heap \cup made
  /\ UNCHANGED <<input, lines, rows, result, pixels, trapped>>

(* A return that runs the destructors of what is in scope. *)
Leave(value, released) ==
  /\ step' = "returned"
  /\ result' = value
  /\ heap' = heap \ released
  /\ UNCHANGED <<input, lines, rows, pixels, trapped>>

-----------------------------------------------------------------------------
(* ReadPNG.  No return but the last releases the structures of libpng; the *)
(* copy of the data and the rows have destructors.                         *)
InScope == {"data", "rgb"}
ReturnError == Leave("error", InScope)

(* Any function of libpng fails, and jumps. *)
ReadTrap ==
  /\ call = "ReadPNG"
  /\ step \in {"reads info", "reads rows", "reads end"}
  /\ step' = "returned" /\ result' = "error" /\ trapped' = TRUE
  /\ UNCHANGED <<input, heap, lines, rows, pixels>>

CreateRead ==
  /\ call = "ReadPNG"
  /\ \/ Continue("starts", "creates info", {"png"})
     \/ Continue("creates info", "creates end info", {"info"})
     \/ Continue("creates end info", "reads info", {"end_info", "data"})
     \/ step \in {"starts", "creates info", "creates end info"} /\ ReturnError

has_alpha == keep_alpha /\ picture.alpha
channels == IF has_alpha THEN 4 ELSE 3
stride == channels * picture.width

(* png_get_IHDR, the transformations, and the allocation of the rows. *)
ReadInfo ==
  /\ call = "ReadPNG" /\ step = "reads info"
  /\ \/ stride <= MaxStride /\ Continue("reads info", "reads rows", {"rgb"})
     \/ ReturnError

RowOf(n) == n % picture.height

ReadRow ==
  /\ call = "ReadPNG" /\ step = "reads rows"
  /\ rows' = [rows EXCEPT ![RowOf(lines)] = @ + 1]
  /\ lines' = lines + 1
  /\ step' = IF lines' = picture.passes * picture.height THEN "reads end" ELSE step
  /\ UNCHANGED <<input, heap, result, pixels, trapped>>

(* The byte at place k of the rows: a channel of a pixel. *)
ByteAt(k) ==
  [y |-> k \div stride, x |-> (k % stride) \div channels, channel |-> k % channels]

(* An Image has three channels, whatever the rows have. *)
Copied == 3

ReadEnd ==
  /\ call = "ReadPNG" /\ step = "reads end"
  /\ step' = "returned" /\ result' = "image"
  /\ pixels' = [k \in 0..(((Copied * picture.width * picture.height) % Word) - 1) |-> ByteAt(k)]
  /\ heap' = heap \ (InScope \cup Structures)
  /\ UNCHANGED <<input, lines, rows, trapped>>

-----------------------------------------------------------------------------
(* WritePNG releases what it has made before it returns. *)
CreateWrite ==
  /\ call = "WritePNG"
  /\ \/ Continue("starts", "creates info", {"png"})
     \/ Continue("creates info", "writes header", {"info"})
     \/ step \in {"starts", "creates info"} /\ Leave("false", heap)

(* Faulty variant: only one of the two is destroyed. *)
WriteHeaderKeepsInfo ==
  /\ call = "WritePNG" /\ step = "writes header"
  /\ \/ Continue("writes header", "writes rows", {})
     \/ Leave("false", {"png"})

(* An Image with a number of channels that PNG has not is refused. *)
WriteHeader ==
  /\ call = "WritePNG" /\ step = "writes header"
  /\ \/ Continue("writes header", "writes rows", {})
     \/ Leave("false", {"png", "info"})

WriteRow ==
  /\ call = "WritePNG" /\ step = "writes rows"
  /\ lines' = lines + 1
  /\ step' = IF lines' = picture.height THEN "writes end" ELSE step
  /\ UNCHANGED <<input, heap, rows, result, pixels, trapped>>

(* What became of file::WriteFile is not looked at. *)
WriteEnd ==
  /\ call = "WritePNG" /\ step = "writes end"
  /\ Leave("true", {"png", "info"})

(* info_ptr was assigned after setjmp and is not volatile: after the jump   *)
(* it may be the null pointer that it was before, and then is not released. *)
WriteTrap ==
  /\ call = "WritePNG"
  /\ step \in {"writes header", "writes rows", "writes end"}
  /\ step' = "returned" /\ result' = "false" /\ trapped' = TRUE
  /\ heap' \in {heap \ {"png", "info"}, heap \ {"png"}}
  /\ UNCHANGED <<input, lines, rows, pixels>>

ImageNext ==
  \/ CreateRead \/ ReadInfo \/ ReadRow \/ ReadEnd \/ ReadTrap
  \/ CreateWrite \/ WriteHeader \/ WriteRow \/ WriteEnd \/ WriteTrap

-----------------------------------------------------------------------------
(* Every row of the buffer was filled in every pass, and what was copied of *)
(* it is the picture.                                                       *)
IsPicture ==
  LET line == 3 * picture.width
  IN /\ \A y \in DOMAIN rows : rows[y] = picture.passes
     /\ pixels = [k \in 0..(line * picture.height - 1) |->
                    [y |-> k \div line, x |-> (k % line) \div 3, channel |-> k % 3]]

(* ReadPNG leaves nothing behind only when it succeeds: an error leaves the *)
(* structures made so far, and, where it jumped, the data and the rows too. *)
(* The Image is the picture, but for one with alpha that was asked for with *)
(* alpha, and for one of more bytes than 32 bits count.  WritePNG leaves    *)
(* nothing behind but, after a jump, the structure it may have forgotten,   *)
(* and succeeds only when every row was written.                            *)
ImageAnswers ==
  /\ result = "image" =>
       /\ heap = {}
       /\ IsPicture <=> /\ ~has_alpha \/ picture.width * picture.height = 1
                        /\ 3 * picture.width * picture.height < Word
  /\ result = "error" /\ ~trapped => heap \in {{}, {"png"}, {"png", "info"}, Structures}
  /\ result = "error" /\ trapped =>
       heap \in {Structures \cup {"data"}, Structures \cup {"data", "rgb"}}
  /\ result \in {"true", "false"} =>
       /\ heap \subseteq {"info"}
       /\ heap # {} => trapped
       /\ result = "true" => lines = picture.height
=============================================================================
