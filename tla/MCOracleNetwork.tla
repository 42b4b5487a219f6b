-------------------------- MODULE MCOracleNetwork --------------------------
(* Instances of OracleNetwork for TLC. *)
EXTENDS OracleNetwork, TLC

\* No action tells two hashes apart.
InterchangeableHashes == Permutations(Hashes)
============================================================================
