\* Every step of SessionRpc is a step of the contract, or none; every call returns and a
\* destroyed session lets go: over every kind of call, category and damage.
CONSTANTS
    MaxCalls = 3
    MaxUnread = 2
    CallKinds <- AllKinds
    WireCategories <- BothWire
    CarrierErrors <- AllCarrier
SPECIFICATION FairSpec
PROPERTY KeepsContract
PROPERTY CallsReturn
PROPERTY DestroyedSessionReleases
\* The session ends with its object.
CHECK_DEADLOCK FALSE
