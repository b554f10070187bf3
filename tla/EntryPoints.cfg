SPECIFICATION EntrySpec
CONSTANTS
  TileCounts = {2, 3, 9, 10, 11, 24}
  SliceNums = {0, 1, 128}
  QPs = {1, 26, 51}
  TileBytes = {1, 2, 3, 4, 255, 256, 257, 1023, 1024, 4096, 16384, 32768, 65535, 65536, 71999}
CHECK_DEADLOCK FALSE
INVARIANTS
  EntryPointsReadBack
  TenTilesFit
