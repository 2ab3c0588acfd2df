SPECIFICATION ReadoutSpec
CONSTANTS
  Consumers = {"a", "b"}
  Shells = {}
  Threads = {"a", "b"}
  Pins = {0, 1}
  NAlts = 2
  Groups = {"bundle", "g1"}
  Functions = {"uart", "pwm", "far"}
  States = {"a_uart", "b_pwm", "b_far"}
  None = None
  PinOrder <- MCPinOrder
  GroupPins <- MCGroupPins
  MuxVals <- MCMuxVals
  ConfigLists <- MCConfigLists
  StatesOf <- MCStatesOf
  MuxSettings <- MCMuxSettings
  ConfigSettings <- MCConfigSettings
INVARIANTS RenewedApplied DumpShowsSettled GetTellsSettled
