SPECIFICATION BlockSpec
CONSTANTS
  Blocks <- MCBlocks
CHECK_DEADLOCK FALSE
INVARIANTS
  DecoderReconstructs
  CoefficientsReadBack
  ModeReadBack
  SourceIsKept
