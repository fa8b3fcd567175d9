\* Two messages of every kind and boundary size, in every way of writing them.
CONSTANTS
    Base = 16
    Short = 9
    Wide = 12
    MaxInt = 15
    IntValues = 32
    Sizes <- Boundaries
    Masks <- TwoMasks
    MaxSends = 2
SPECIFICATION Spec
INVARIANT TypeOK
INVARIANT PeerReadsWhatWasSent
INVARIANT AcceptsOnlyWholeFrames
\* The writing ends with the bound, or fails.
CHECK_DEADLOCK FALSE
