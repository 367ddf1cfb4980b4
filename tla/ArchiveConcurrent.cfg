\* Two overlapping stores of one bundle.
SPECIFICATION Spec
CONSTANTS
  w1 = w1
  w2 = w2
  i1 = i1
  i2 = i2
  i3 = i3
  i4 = i4
  i5 = i5
  NoFile = NoFile
  Writer <- MCWriter
  Inode <- MCInode
  BlockCount = 2
  MaxCrashes = 0
  MaxPowerLosses = 0
  MaxIoErrors = 0
INVARIANT NeverHalfWritten
CHECK_DEADLOCK FALSE
