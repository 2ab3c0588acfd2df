\* The binding's example, against the claim that the driver probes it.
SPECIFICATION ProbeSpec
CONSTANTS
  Names <- MCNames
  Absent = Absent
  AllocMayFail = FALSE
  PinName <- MCPinName
  Controllers <- MCControllers
INVARIANT ExampleProbes
