SPECIFICATION BlockSpec
CONSTANTS
  Blocks <- MCEdges
CHECK_DEADLOCK FALSE
INVARIANTS
  DecoderReconstructs
