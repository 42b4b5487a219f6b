\* Three leaves for the circuits: every root in and out of order, every two
\* validators, every pair of accused and slasher.  Two inputs below, at and above
\* the order of the group; two messages of two words in, at and above the field;
\* trees of two contents in every order.
SPECIFICATION FoundationsSpec
CONSTANTS
    Capacity = 3
    Keys = {k1}
    NoKey = nokey
    NumAccounts = 2
    AggregatorReward = 2
    ValidatorReward = 1
    Balances = {1}
    Request = 0
    Hash = h1
    Hashes = {h1, h2}
    PRIME_Q = 7
    SNARK_SCALAR_FIELD = 13
    NbDigits = 4
    Scalars = {0, 1, 6, 12}
    Inputs = {0, 1, 12, 13, 14}
    Lifts = {0, 7}
    localQ = 7
    Width = 5
    round_count = 2
    Blocks = 2
    Words = {0, 6, 7, 31}
    Contents = {c1, c2}
    MaxChanges = 2
INVARIANTS
    Sound BitsNameValidators SlashingSound
    ProofSound ProofComplete RoundsPermute HashAgrees PathExact RootExact
PROPERTIES Complete SlashingComplete
\* A witness that fails a constraint stops there, and a call ends.
CHECK_DEADLOCK FALSE
