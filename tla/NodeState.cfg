\* Two seats; the node and others answer while it synchronises.
SPECIFICATION Spec
CONSTANTS
    NumSeats = 2
    StoreSize = 2
    NumAccounts = 1
    AggregatorReward = 2
    ValidatorReward = 1
    Self = 1
    ReplayTo = 2
    MaxEvents = 3
    MaxIncidents = 1
INVARIANTS HandledOnce StoreFollows
PROPERTY Delivered
\* The bounds may be used up.
CHECK_DEADLOCK FALSE
