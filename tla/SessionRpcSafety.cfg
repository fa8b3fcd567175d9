\* Safety over every sequence of three calls and the destructor.
CONSTANTS
    MaxCalls = 4
    MaxUnread = 2
    CallKinds <- TransactionKinds
    WireCategories <- Refusals
    CarrierErrors <- SomeCarrier
SPECIFICATION Spec
INVARIANT TypeOK
INVARIANT SuccessIsServed
INVARIANT DefiniteFailureNotApplied
INVARIANT FailedWriteNeverDurable
INVARIANT AcknowledgedWritesCommitted
INVARIANT NoReplyLeftBetweenCalls
PROPERTY OnlyTheWaitingCallIsServed
\* The session ends with its object.
CHECK_DEADLOCK FALSE
