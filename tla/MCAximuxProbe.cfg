\* Every small tree, every allocation failure.
SPECIFICATION ProbeSpec
CONSTANTS
  Names <- MCNames
  Absent = Absent
  AllocMayFail = TRUE
  PinName <- MCPinName
  Controllers <- MCControllers
INVARIANTS ProbeTypeOK TablesMatchTree TablesUsable StaleNeverUsed ArraysAccounted
PROPERTY ProbeEnds
