\* Two seats compete to answer two requests and slash each other.
SPECIFICATION NetSpec
CONSTANTS
    Capacity = 2
    Keys = {1}
    NoKey = nokey
    NumAccounts = 1
    AggregatorReward = 1
    ValidatorReward = 1
    Addresses = {admin}
    Admin = admin
    NoAddress = none
    Hashes = {h1, h2}
    NoHash = nohash
    Numbers = {7}
    Amounts = {0}
    Supplies = {}
    InitialSupply = 2
    Genesis = 1
    SeedOrder = 3
    MaxRequests = 2
    MaxHeight = 0
    MaxSupply = 2
    MaxStake = 2
    MaxProofs = 2
    MaxAccusations = 1
PROPERTIES LateProofsHarmless AnswersFinal
SYMMETRY InterchangeableHashes
\* Users may have done all that the bounds allow and stop: not an error.
CHECK_DEADLOCK FALSE
