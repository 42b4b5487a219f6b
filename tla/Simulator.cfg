\* A committee of four, three of which vote; every mode.
SPECIFICATION SimSpec
CONSTANTS
    Capacity = 4
    Keys = {1, 2}
    NoKey = nokey
    NumAccounts = 3
    AggregatorReward = 2
    ValidatorReward = 1
    Addresses = {admin}
    Admin = admin
    NoAddress = none
    Hashes = {h1, h2}
    NoHash = nohash
    Numbers = {42}
    Amounts = {0}
    Supplies = {}
    InitialSupply = 9
    Genesis = 2
    SeedOrder = 3
    MaxRequests = 1
    MaxHeight = 1
    MaxSupply = 9
    MaxStake = 20
    Modes = {"OnlyContractCosts", "OnlyAggregationProof", "OnlySlashingProof"}
    Runs = 2
    Honest = h1
    Dissenting = h2
    NewBalance = 3
INVARIANTS InStep Provable
PROPERTY SimulationEnds
\* The program ends.
CHECK_DEADLOCK FALSE
