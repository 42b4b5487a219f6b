----------------------------- MODULE MCZKAudit -----------------------------
(* Instances of ZKAudit for TLC. *)
EXTENDS ZKAudit, TLC

\* No action tells two hashes apart.
InterchangeableHashes == Permutations(Hashes)
============================================================================
