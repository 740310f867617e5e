SPECIFICATION DownloadSpec
CONSTANTS
  Names <- MCNames
  Listed <- MCListed
  Digits <- MCDigits
  Filters <- MCFilters
  Rows <- MCRows
  Specs <- MCSpecs
  NamesAsked <- MCNamesAsked
  End = 4
  ChunkDays = 3
  MaxQueue = 2
  MaxCalls = 1
INVARIANTS
  DownloadTypeOK
  AskedIsAccounted
  RowsAccounted
  WrittenAsCounted
  MisspeltIsNoticed
  FiledUnderOwnName
  DeliversAskedBars
