CONSTANTS
  Workers = {}
  Main = Main
  NoItem = NoItem
  Items = {0}
  iSize = 1
  NumTiles = 2
  CtusPerTile = 1
  NumFrames = 1
SPECIFICATION SliceFairSpec
PROPERTIES
  EncodeTerminates
