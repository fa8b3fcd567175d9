CONSTANTS
    MaxMessage = 3
    MaxControl = 1
    Sizes <- FewSizes
    MaxFrames = 4
SPECIFICATION Spec
INVARIANT FragmentedMessageRefused
CHECK_DEADLOCK FALSE
