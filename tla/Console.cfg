SPECIFICATION FairSpec
CONSTANTS
  x = x
  y = y
  CR = CR
  LF = LF
  Char <- TwoChars
  Lines <- ShortLines
  LineEnds <- AllEnds
  BufSize = 4
  MaxLines = 3
  MaxOpens = 2
INVARIANTS NoOverrun NoneWaiting
PROPERTIES LinesKept EveryLineRuns
CHECK_DEADLOCK FALSE
