CONSTANTS
    RowCounts <- FewRows
    ColumnCounts <- FewColumns
    NullCounts <- SomeNulls
    Widths <- TwoWidths
    DataSizes <- SomeData
    Lengths <- SomeLengths
    MaxValues = 3
    MaxData = 47
    MaxOffset = 51
    Occupied <- SomeOccupied
    LocationCounts <- SomeLocations
SPECIFICATION Spec
INVARIANT TypeOK
INVARIANT ColumnsInOrder
INVARIANT ReadableBatch
INVARIANT WireAligned
