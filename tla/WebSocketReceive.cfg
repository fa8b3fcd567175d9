CONSTANTS
    MaxMessage = 3
    MaxControl = 1
    Sizes <- FewSizes
    MaxFrames = 4
SPECIFICATION Spec
INVARIANT TypeOK
INVARIANT DeliversTheStream
INVARIANT MessagesAreFramed
INVARIANT SizeBounded
INVARIANT PingsAnswered
\* The connection ends, and the server sends no more than MaxFrames frames.
CHECK_DEADLOCK FALSE
