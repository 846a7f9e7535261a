CONSTANTS
  Threads = {t1, t2, t3}
  Addresses = {1, 2}
  MaxSize = 2
SPECIFICATION Spec
INVARIANTS MapIsShared TransferIsWhole
SYMMETRY ThreadSymmetry
