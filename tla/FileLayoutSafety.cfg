SPECIFICATION Spec
CONSTANTS
    IntLimit = 16
    SegmentSize = 3
INVARIANTS
    TypeOK
    OffsetsInFile
    LengthFits
    CompletedIsCovered
CHECK_DEADLOCK FALSE
