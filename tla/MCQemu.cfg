\* The driver, entered by any two threads, on the QEMU device.
SPECIFICATION QemuSpec
CONSTANTS
  Threads = {t1, t2}
  npins = 2
  nalts = 2
  Groups = {"bundle"}
  Functions = {"uart", "toofar"}
  GroupPins <- MCGroupPins
  MuxVals <- MCMuxVals
  ConfigLists <- MCConfigLists
INVARIANTS QemuTypeOK LikeHardware
PROPERTY DriverOnQemu
