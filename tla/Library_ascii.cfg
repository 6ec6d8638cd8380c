SPECIFICATION LibrarySpec
CONSTANTS
  Slots = {s1, s2, s3}
  from_v4 = s1
  from_v6 = s2
  returned = s3
  Objects = {o1, o2, o3, o4}
  NoObject = NoObject
  Variants = {"pointer", "copied", "void", "fallback"}
  Pictures <- MCPictures
  Word <- MCWord
  MaxStride = 7
  Questions <- MCQuestions
  Letters <- MCLetters
  MaxOne <- MCMaxOne
  MaxTwo <- MCMaxTwo
CHECK_DEADLOCK FALSE
SYMMETRY Symmetry
INVARIANTS
  AsciiMeansAscii
