\* A UART with its input on one mux and its output on the other.
SPECIFICATION HwhProbeSpec
CONSTANTS
  Names <- MCNames
  PinName <- MCPinName
  Controllers <- MCControllers
  HwPins = {1, 2}
  AllocMayFail = FALSE
  Noise <- MCNoise
  SlotOf <- MCSlotOf
  BaseName <- MCBaseName
  DevName <- MCDevName
  SigName <- MCSigName
  CleanName <- MCCleanName
  Rank <- MCRank
  Absent = Absent
  NoProperty = Absent
  None = None
  Designs <- MCSplitDesigns
  Namings <- MCPlainNaming
  Options <- MCPinctrl2
INVARIANT WiringResolves
