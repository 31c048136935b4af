SPECIFICATION Spec
CONSTANTS
  main = main
  song = song
  NoName = NoName
  Bits = {1}
  Names <- MCNames
  LongNames <- MCLong
  Sizes <- MCSizes
  Sums <- MCSums
  Blocks <- MCBlocks
  BufSize = 6
  MaxBytes = 9
  StorageFaults = TRUE
INVARIANTS TypeOK WriteIndexAtEnd RunningCheckSum BufferBounded EmptyBufferEmptyFile
PROPERTY ImplementsFileTransfer
