SPECIFICATION SessionSpec
CONSTANTS
  main = main
  NoName = NoName
  Script = main
  Bits = {1}
  Names <- MCNames
  LongNames <- MCEmpty
  Sizes <- MCEmpty
  Sums <- MCEmpty
  Blocks <- MCEmpty
  File <- MCFile
  BlockLen = 3
  BufSize = 6
  MaxBytes = 0
  StorageFaults = FALSE
  MaxLostFrames = 3
  MaxLostAcks = 0
INVARIANTS SuccessMeansStored NotifiedMeansStored
PROPERTY UploadCompletes
