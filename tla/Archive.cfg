\* Two stores of one bundle, apart or overlapping, through crashes, I/O errors
\* and power losses.
SPECIFICATION FairSpec
CONSTANTS
  w1 = w1
  w2 = w2
  i1 = i1
  i2 = i2
  i3 = i3
  i4 = i4
  i5 = i5
  NoFile = NoFile
  Writer <- MCWriter
  Inode <- MCInode
  BlockCount = 2
  MaxCrashes = 2
  MaxPowerLosses = 2
  MaxIoErrors = 1
INVARIANTS TypeOK WholeUnlessOverlapped AckedIsReadable
PROPERTY EventuallyStored
CHECK_DEADLOCK FALSE
