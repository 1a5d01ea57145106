CONSTANTS
  NumPages <- MCNumPages
  PageUnits <- MCPageUnits
  NumBlocks = 3
  MaxWrites <- MCMaxWrites
  MaxLog <- MCMaxLog
  Width <- MCWidth
  ShortCopy = FALSE
  RacyBuffer = FALSE
  AppendMayFail = FALSE
  CsumBase = TRUE
  MaxReads = 1
INIT RInit
NEXT RNext
INVARIANT ReadNotTorn
