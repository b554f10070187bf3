SPECIFICATION Spec
CONSTANTS
  TileWidth = 3
  TileHeight = 2
  LastTileOfSlice = FALSE
  MaxTrials = 3
CHECK_DEADLOCK FALSE
INVARIANTS
  CTUTypeOK
  LumaReferencesAreDecoders
  ChromaReferencesAreDecoders
  SyntaxIsStandard
  FrameIsDecoders
