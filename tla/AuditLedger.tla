---------------------------- MODULE AuditLedger ----------------------------
(***************************************************************************)
(* What the oracle promises its clients: requests are numbered as they are  *)
(* issued, seats sign hashes for requests that were issued, and a request   *)
(* gets at most one answer, for which NumAccounts different seats signed.   *)
(***************************************************************************)
EXTENDS Integers

CONSTANTS NumSeats, NumAccounts, Hashes, NoHash, MaxRequests

VARIABLES
    issued,     \* number of requests issued
    signed,     \* the signatures given
    answer      \* request -> hash

vars == <<issued, signed, answer>>

Requests == 0..MaxRequests
Panels == [1..NumAccounts -> 0..NumSeats - 1]

Init ==
    /\ issued = 0
    /\ signed = {}
    /\ answer = [r \in Requests |-> NoHash]

Issue ==
    /\ issued < MaxRequests
    /\ issued' = issued + 1
    /\ UNCHANGED <<signed, answer>>

Sign(seat, r, hash) ==
    /\ r < issued
    /\ signed' = signed \cup {<<seat, r, hash>>}
    /\ UNCHANGED <<issued, answer>>

\* A panel of different seats that all signed hash for r.
Agree(V, r, hash) ==
    /\ \A i, j \in 1..NumAccounts : i # j => V[i] # V[j]
    /\ \A i \in 1..NumAccounts : <<V[i], r, hash>> \in signed

Answer(r, hash) ==
    /\ answer[r] = NoHash
    /\ \E V \in Panels : Agree(V, r, hash)
    /\ answer' = [answer EXCEPT ![r] = hash]
    /\ UNCHANGED <<issued, signed>>

Next ==
    \/ Issue
    \/ \E seat \in 0..NumSeats - 1, r \in Requests, hash \in Hashes : Sign(seat, r, hash)
    \/ \E r \in Requests, hash \in Hashes : Answer(r, hash)

Spec == Init /\ [][Next]_vars
============================================================================
