\* Any two threads, any calls, any interleaving of their register accesses.
SPECIFICATION FairSpec
CONSTANTS
  Threads = {t1, t2}
  Pins = {0, 1}
  NAlts = 1
  Groups = {"g0", "g1", "bundle"}
  Functions = {"alt0", "alt1", "bundle"}
  GroupPins <- MCGroupPins
  MuxVals <- MCMuxVals
  ConfigLists <- MCConfigLists
INVARIANTS TypeOK SrcLegal
PROPERTY CallsReturn
