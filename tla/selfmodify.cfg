SPECIFICATION FairSpec
CONSTANTS
  good = good
  better = better
  untested = untested
  Revs <- MCRevs
  Passes <- MCPasses
  Shipped = Shipped
  Torn = Torn
  NoFile = NoFile
  MaxBackups = 2
  MaxCalls = 4
INVARIANTS
  TypeOK
  OnlyPassingInstalled
  InstalledIsWhole
PROPERTIES
  ReplacedIsKept
  SwapTakesEffect
