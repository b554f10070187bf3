SPECIFICATION BlockSpec
CONSTANTS
  Blocks <- MCHighQPs
CHECK_DEADLOCK FALSE
INVARIANTS
  DecoderReconstructs
