SPECIFICATION FairSpec
CONSTANTS
  MaxSize = 2
  MaxRequests = 2
CHECK_DEADLOCK FALSE
INVARIANTS
  BodyExact
  FailsOnlyIf
PROPERTIES
  ParsingEnds
