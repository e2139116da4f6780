CONSTANTS
  Threads = {t1, t2, t3}
  Counts = {1, 68}
SPECIFICATION PlatformSpec
INVARIANTS
  PlatformTypeOK
  KernelSafe
  OnePlatform
  NoCircularWait
PROPERTY CallsReturn
