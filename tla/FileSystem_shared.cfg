SPECIFICATION Spec
CONSTANTS
  Processes = {p, q}
  Observers = {p}
  p = p
  q = q
  Tokens <- MCTokens
  Nodes <- MCNodes
  LinkTarget <- MCLinkTarget
  Trees <- MCTrees
  FirstBytes <- MCFirstBytes
  ReadPaths <- MCReadPaths
  Limits <- MCLimits
  WritePaths <- MCWritePaths
  Data <- MCData
  DirPaths <- MCDirPaths
  Enumerations <- MCEnumerations
  InitialAlloc = 2
  MaxInt = 3
  MaxCalls = 2
  MaxRemoves = 1
INVARIANTS FilesExact CreatorsAgree ListingFaithful
PROPERTY CallsReturn
CHECK_DEADLOCK FALSE
