CONSTANTS
  Workers = {w1}
  Main = Main
  NoItem = NoItem
  Items = {0}
  iSize = 1
  NumTiles = 2
  CtusPerTile = 1
  NumFrames = 1
SPECIFICATION SliceSpec
INVARIANTS
  ThreadsFinished
