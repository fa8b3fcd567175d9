CONSTANTS
    MaxCalls = 3
    MaxUnread = 2
    CallKinds <- TransactionKinds
    WireCategories <- Refusals
    CarrierErrors <- SomeCarrier
SPECIFICATION Spec
INVARIANT UnvalidatedCompletionIsUnknown
CHECK_DEADLOCK FALSE
