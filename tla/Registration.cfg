\* Nodes that start and stop at any time, one after the other and side by side.
SPECIFICATION Spec
CONSTANTS
    Nodes = {n1, n2}
    Capacity = 4
    MaxStarts = 3
INVARIANTS SeatsPerStart OwnSeat
PROPERTY Returns
\* Starts may be used up.
CHECK_DEADLOCK FALSE
