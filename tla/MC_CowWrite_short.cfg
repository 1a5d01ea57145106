CONSTANTS
  NumPages <- MCNumPages
  PageUnits <- MCPageUnits
  NumBlocks = 3
  MaxWrites <- MCMaxWrites
  MaxLog <- MCMaxLog
  Width <- MCWidth
  ShortCopy = TRUE
  RacyBuffer = FALSE
  AppendMayFail = TRUE
INIT Init
NEXT Next
PROPERTY AbsSpec
