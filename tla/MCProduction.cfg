SPECIFICATION PinctrlFairSpec
CONSTANTS
  Consumers = {"a", "b"}
  Shells = {}
  Threads = {"a", "b"}
  Pins = {0, 1}
  NAlts = 2
  SrcValues = 4
  Groups = {"g0", "g1", "bundle"}
  Functions = {"alt0", "alt1", "alt2", "uart", "toofar"}
  States = {"a_uart", "a_pin", "a_bad", "b_pin", "b_bias"}
  None = None
  GroupPins <- MCGroupPins
  MuxVals <- MCMuxVals
  ConfigLists <- MCConfigLists
  StatesOf <- MCStatesOf
  MuxSettings <- MCMuxSettings
  ConfigSettings <- MCConfigSettings
INVARIANTS PinctrlTypeOK SettledOwns MuxOnOwned SettledApplied ReadFresh OneAlternate PadsSettled
PROPERTIES SelectReturns RegsAtomic
