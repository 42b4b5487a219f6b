\* The handler of answers writes accounts and asks for the root while the
\* aggregator builds a proof.
SPECIFICATION Spec
CONSTANTS
    Threads = {aggregator, submitted}
    Writers = {submitted}
    Provers = {aggregator}
    Rooters = {submitted}
    Accounts = {a1, a2}
    MaxCalls = 2
INVARIANT ProofVerifies
\* Calls may be used up.
CHECK_DEADLOCK FALSE
