SPECIFICATION FairSpec
CONSTANTS
  k = k
  u = u
  x = x
  Space = Space
  Equals = Equals
  Hash = Hash
  CR = CR
  LF = LF
  Nul = Nul
  Stale = Stale
  Letter <- Letters
  Keys <- KnownKeys
  Default <- Empty
  Lines <- AllLines
  LineEnds <- BothEnds
  BufLen = 7
  ValueLen = 3
  MaxLines = 2
INVARIANTS OptionsFollowLines ErrorsNameTheirLines StringEnds
PROPERTY ConfigEnds
CHECK_DEADLOCK FALSE
