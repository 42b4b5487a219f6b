\* Two users who take, replace, exit and withdraw two seats whose stakes grow by
\* rewards, with times and supplies.
SPECIFICATION Spec
CONSTANTS
    Capacity = 2
    Keys = {1}
    NoKey = nokey
    NumAccounts = 1
    AggregatorReward = 1
    ValidatorReward = 1
    Addresses = {admin, alice}
    Admin = admin
    NoAddress = none
    Hashes = {h1}
    NoHash = nohash
    Numbers = {7}
    Amounts = {1, 2}
    Supplies = {1}
    InitialSupply = 2
    Genesis = 1
    SeedOrder = 3
    MaxRequests = 1
    MaxHeight = 1
    MaxSupply = 2
    MaxStake = 4
INVARIANTS TypeOK SeatsInOrder
PROPERTIES SeatsStayEmpty LeaverPaid
\* Users may have done all that the bounds allow and stop: not an error.
CHECK_DEADLOCK FALSE
