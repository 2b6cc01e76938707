SPECIFICATION Spec
CONSTANTS
  NSec = 5
  SectionSize = 8
  LargeSize = 4
  PageSize = 2
  TinySize = 1
  Coarse <- CoarseTable
  Fine <- FineTable
  Level2 <- Pages
  Tables <- AllTables
  DumpEnd = 4
INVARIANTS TranslationsAgree RoundTrip DumpExact
CHECK_DEADLOCK FALSE
