\* Every pair of arguments around the limits.
SPECIFICATION GenSpec
CONSTANTS
  Arguments <- MCArguments
  Clog2 <- MCClog2
INVARIANTS NetlistClosed AddressesDistinct ComputesDatapath
