CONSTANTS
  NumPages <- MCNumPages
  PageUnits <- MCPageUnits
  NumBlocks = 3
  MaxWrites <- MCMaxWrites
  MaxLog <- MCMaxLog
  Width <- MCWidth
  ShortCopy = FALSE
  RacyBuffer = FALSE
  AppendMayFail = TRUE
INIT Init
NEXT Next
INVARIANT NoLeakedBlocks
