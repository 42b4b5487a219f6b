\* A reward is paid before the tree is full.
SPECIFICATION Spec
CONSTANTS
    Capacity = 3
    Keys = {1}
    NoKey = nokey
    NumAccounts = 1
    AggregatorReward = 2
    ValidatorReward = 1
    Addresses = {admin}
    Admin = admin
    NoAddress = none
    Hashes = {h1, h2}
    NoHash = nohash
    Numbers = {7}
    Amounts = {1}
    Supplies = {}
    InitialSupply = 2
    Genesis = 5
    SeedOrder = 3
    MaxRequests = 1
    MaxHeight = 0
    MaxSupply = 2
    MaxStake = 6
PROPERTY RewardsKept
\* Users may have done all that the bounds allow and stop: not an error.
CHECK_DEADLOCK FALSE
