\* Requests come faster than they are handled, the node restarts, and the chain
\* reorganises, also between the two reads, no deeper than the confirmations.
SPECIFICATION Spec
CONSTANTS
    CONFIRMATIONS = 2
    Width = 4
    Numbers = {1, 3}
    ReorgDepth = 2
    MaxHead = 5
    MaxRequests = 2
    MaxForks = 2
    MaxRestarts = 1
INVARIANTS SignedOnce SignedStays
PROPERTY Answered
\* The bounds may be used up.
CHECK_DEADLOCK FALSE
