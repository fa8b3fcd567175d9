CONSTANTS
    MaxRows = 3
    Wrap = 8
SPECIFICATION Spec
INVARIANT TypeOK
INVARIANT AllOrNothing
INVARIANT KeptAsAsked
PROPERTY EndsAndReleases
