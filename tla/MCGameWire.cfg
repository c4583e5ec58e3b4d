SPECIFICATION Spec
CONSTANTS
  Body <- Lengths
  MaxPackets = 6
INVARIANTS TypeOK InStepUnlessMerged MergedShutsOut OneByteAheadPerReply
