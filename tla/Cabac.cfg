SPECIFICATION CabacSpec
CONSTANTS
  LPSRows <- MCLPSRows
  BypassBins <- MCBypassBins
  Remainders <- MCRemainders
  MaxCalls = 4
INVARIANTS
  CabacTypeOK
  DecoderReadsBins
  CodesFit
  CarryHasRoom
