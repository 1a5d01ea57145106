CONSTANTS
  NumPages <- MCNumPages
  PageUnits <- MCPageUnits
  NumBlocks = 3
  PmdPages = 2
  MaxWrites <- MCMaxWrites
  MaxLog <- MCMaxLog
  Width <- MCWidth
  ShortCopy = FALSE
  RacyBuffer = FALSE
  AppendMayFail = FALSE
INIT MInit
NEXT MNext
INVARIANT FreeDisjointMapped
