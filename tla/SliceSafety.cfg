CONSTANTS
  Workers = {w1, w2}
  Main = Main
  NoItem = NoItem
  Items = {0, 1}
  iSize = 2
  NumTiles = 3
  CtusPerTile = 1
  NumFrames = 2
SPECIFICATION SliceFairSpec
INVARIANTS
  SliceTypeOK
  SpaceForEveryTile
  TileExclusive
  OutputSequential
PROPERTIES
  ImplementsWorkQueue
  EncodeTerminates
