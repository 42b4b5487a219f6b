\* Smallest instance in which an aggregator is drawn.
SPECIFICATION Spec
CONSTANTS
    Capacity = 2
    Keys = {1}
    NoKey = nokey
    NumAccounts = 1
    AggregatorReward = 2
    ValidatorReward = 1
    Addresses = {admin}
    Admin = admin
    NoAddress = none
    Hashes = {h1, h2}
    NoHash = nohash
    Numbers = {7}
    Amounts = {1}
    Supplies = {}
    InitialSupply = 2
    Genesis = 5
    SeedOrder = 3
    MaxRequests = 1
    MaxHeight = 0
    MaxSupply = 2
    MaxStake = 6
INVARIANT AggregatorIsRegistered
\* Users may have done all that the bounds allow and stop: not an error.
CHECK_DEADLOCK FALSE
