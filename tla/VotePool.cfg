\* Three seats, two hashes and two requests; two votes make a quorum.
SPECIFICATION Spec
CONSTANTS
    Self = s1
    Seats = {s1, s2, s3}
    Requests = {1, 2}
    Hashes = {h1, h2}
    NumAccounts = 2
INVARIANTS BatchProvable SubmittedOnce StateRestored
PROPERTY WokenServed
\* A panic ends the process, and a full pool takes no more votes.
CHECK_DEADLOCK FALSE
