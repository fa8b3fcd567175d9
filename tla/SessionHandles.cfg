CONSTANTS
    c1 = c1
    c2 = c2
    o1 = o1
    CursorHandles <- Cursors
    OperationHandles <- Operations
    MaxOpens = 2
    Rows = 3
SPECIFICATION FairSpec
INVARIANT TypeOK
INVARIANT NothingLeftBehind
INVARIANT StaleOnlyAfterFailure
INVARIANT RowsInOrder
PROPERTY DestroyedSessionIsForgotten
\* The session ends with its object.
CHECK_DEADLOCK FALSE
