SPECIFICATION StreamSpec
CONSTANTS
  Width = 416
  Height = 224
  MaxTiles = 3
  MaxUnits = 3
  MaxBytes = 3
  ByteValues = {0, 1, 3}
  LastCodes <- MCLastCodes
  QPs = {1, 51}
CHECK_DEADLOCK FALSE
INVARIANTS
  StreamTypeOK
  FileReadsBack
  TilesDecodableAlone
  AssertionsHold
  NoZeroTermination
  TileBytesBounded
