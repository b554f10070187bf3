CONSTANTS
  MaxWidthInCTUs = 12
  MaxHeightInCTUs = 8
  TileArgs = {0, 1, 2, 3, 4, 6, 9, 24, 25}
  GridArgs <- MCGridArgs
  WordSize = 4096
SPECIFICATION Spec
INVARIANTS
  TypeOK
  EveryCTUOnce
  BufferForEveryCTU
  NoThinTile
CHECK_DEADLOCK FALSE
