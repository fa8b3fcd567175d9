CONSTANTS
    Schemas <- FewSchemas
    Scale = 2
    MaxRows = 2
    MaxLength = 122
    Wrap = 256
    Sizes <- SomeSizes
SPECIFICATION Spec
INVARIANT TypeOK
INVARIANT ViewsMatchRows
INVARIANT IndexIsWhatWasValidated
INVARIANT StringsFillTheirData
CHECK_DEADLOCK FALSE
