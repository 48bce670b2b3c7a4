SPECIFICATION Spec
CONSTANTS
  good = good
  better = better
  untested = untested
  Revs <- MCRevs
  Passes <- MCPasses
  Shipped = Shipped
  Torn = Torn
  NoFile = NoFile
  MaxBackups = 2
  MaxCalls = 1
INVARIANT AppliedPassesCi
