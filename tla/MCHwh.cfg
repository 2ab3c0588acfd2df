\* Every design in which a peripheral keeps to one mux, and a constant too,
\* and the driver probed with what comes out.
SPECIFICATION HwhProbeSpec
CONSTANTS
  Names <- MCNames
  PinName <- MCPinName
  Controllers <- MCControllers
  HwPins = {1, 2}
  AllocMayFail = FALSE
  Noise <- MCNoise
  SlotOf <- MCSlotOf
  BaseName <- MCBaseName
  DevName <- MCDevName
  SigName <- MCSigName
  CleanName <- MCCleanName
  Rank <- MCRank
  Absent = Absent
  NoProperty = Absent
  None = None
  Designs <- MCDesigns
  Namings <- MCNamings
  Options <- MCOptions
INVARIANTS ToolTypeOK OutputsInOrder WiringResolves ConsumersWired LegacyFilesAgree EmittedProbes NamesSelectAlternates ConsumerGetsItsNets
