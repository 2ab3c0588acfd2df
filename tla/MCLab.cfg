\* A shell beside two consumers that do not contend.
SPECIFICATION PinctrlFairSpec
CONSTANTS
  Consumers = {"a", "b"}
  Shells = {"sh"}
  Threads = {"a", "b", "sh"}
  Pins = {0, 1}
  NAlts = 1
  Groups = {"g0", "g1", "bundle"}
  Functions = {"alt1", "toofar"}
  States = {"a_pin", "a_bias", "b_pin", "b_far"}
  None = None
  GroupPins <- MCGroupPins
  MuxVals <- MCMuxVals
  ConfigLists <- MCConfigLists
  StatesOf <- MCStatesOf
  MuxSettings <- MCMuxSettings
  ConfigSettings <- MCConfigSettings
INVARIANTS FallbackHolds
