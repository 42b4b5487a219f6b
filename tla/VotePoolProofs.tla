--------------------------- MODULE VotePoolProofs ---------------------------
(***************************************************************************)
(* What the aggregator proves and submits, for every number of seats,       *)
(* requests, hashes and votes per proof.                                    *)
(*                                                                          *)
(* The argument counts.  A counter of results is the number of pooled votes *)
(* for its hash, because a vote is counted once.  When it reaches           *)
(* NumAccounts the pool holds that many votes for one hash, and a batch     *)
(* that is read later holds at least those; one that still fits the witness *)
(* therefore holds nothing else.  Once a request has been submitted, a      *)
(* second wake-up for it means two hashes with a quorum each, and a batch   *)
(* of that size does not fit.                                               *)
(***************************************************************************)
EXTENDS VotePool, FiniteSetTheorems, TLAPS

\* The votes among B for hash h.
For(B, h) == {v \in B : v.hash = h}

PoolFinite == \A r \in Requests : IsFiniteSet(votes[r])
Counted == \A r \in Requests, h \in Hashes : results[r][h] = Cardinality(For(votes[r], h))

\* Some hash of r has its quorum.
Reached(r) == \E h \in Hashes : results[r][h] >= NumAccounts

Woken == phase \in {"collecting", "assembling", "proving"} => Reached(current)
HoldsQuorum ==
    phase = "assembling" =>
        /\ IsFiniteSet(batch)
        /\ \E h \in Hashes : Cardinality(For(batch, h)) >= NumAccounts
OneHash ==
    phase \in {"proving", "mining"} =>
        /\ IsFiniteSet(batch) /\ Cardinality(batch) = NumAccounts
        /\ \A v, w \in batch : v.hash = w.hash
SentReached == \A r \in Requests : submitted[r] # <<>> => Reached(r)
NoSecond ==
    /\ phase = "collecting" /\ submitted[current] # <<>> => Cardinality(votes[current]) > NumAccounts
    /\ phase = "assembling" /\ submitted[current] # <<>> => Cardinality(batch) > NumAccounts
    /\ phase = "proving" => submitted[current] = <<>>
Clean == phase \in {"starting", "waiting", "collecting", "assembling", "mining"} => credits = NoCredits

CountInv == TypeOK /\ PoolFinite /\ Counted
BatchInv == Woken /\ HoldsQuorum /\ OneHash
SentInv == SentReached /\ NoSecond /\ SubmittedOnce
PoolInv == CountInv /\ BatchInv /\ SentInv /\ Clean

USE PoolQuorumAssumption, PoolSeatAssumption

\* The part of a finite batch for one hash is finite and no larger.
LEMMA ForFinite ==
    ASSUME NEW B, IsFiniteSet(B), NEW h
    PROVE  /\ IsFiniteSet(For(B, h)) /\ Cardinality(For(B, h)) \in Nat
           /\ Cardinality(B) \in Nat
           /\ Cardinality(For(B, h)) <= Cardinality(B)
           /\ Cardinality(For(B, h)) = Cardinality(B) => For(B, h) = B
<1>1. For(B, h) \in SUBSET B
    BY DEF For
<1> QED BY <1>1, FS_Subset, FS_CardinalityType

\* Votes for two hashes are different votes.
LEMMA TwoQuorums ==
    ASSUME NEW B, IsFiniteSet(B), NEW g, NEW h, g # h
    PROVE  Cardinality(For(B, g)) + Cardinality(For(B, h)) <= Cardinality(B)
<1>1. IsFiniteSet(For(B, g)) /\ IsFiniteSet(For(B, h))
    BY ForFinite
<1>2. For(B, g) \cap For(B, h) = {}
    BY DEF For
<1>3. Cardinality(For(B, g) \cup For(B, h))
        = Cardinality(For(B, g)) + Cardinality(For(B, h)) - 0
    BY <1>1, <1>2, FS_Union, FS_EmptySet
<1>4. For(B, g) \cup For(B, h) \in SUBSET B
    BY DEF For
<1>5. Cardinality(For(B, g) \cup For(B, h)) <= Cardinality(B)
    BY <1>4, FS_Subset
<1> QED BY <1>1, <1>3, <1>5, FS_CardinalityType

\* The rewards of a finite batch are numbers.
LEMMA CreditedType ==
    ASSUME NEW B, IsFiniteSet(B)
    PROVE  Credited(B) \in [Seats -> Nat]
<1>1. ASSUME NEW s \in Seats
      PROVE  Cardinality({v \in B : v.index = s}) \in Nat
    <2>1. {v \in B : v.index = s} \in SUBSET B
        OBVIOUS
    <2> QED BY <2>1, FS_Subset, FS_CardinalityType
<1> QED BY <1>1 DEF Credited

\* An empty pool counts nothing.
LEMMA PoolInit ==
    ASSUME Init
    PROVE  PoolInv
<1>1. TypeOK
    BY DEF Init, TypeOK, Phases, NoCredits
<1>2. PoolFinite
    BY FS_EmptySet DEF Init, PoolFinite
<1>3. Counted
    <2>1. \A h \in Hashes : For({}, h) = {}
        BY DEF For
    <2> QED BY <2>1, FS_EmptySet DEF Init, Counted
<1>4. BatchInv
    BY DEF Init, BatchInv, Woken, HoldsQuorum, OneHash
<1>5. SentInv
    BY DEF Init, SentInv, SentReached, NoSecond, SubmittedOnce
<1> QED BY <1>1, <1>2, <1>3, <1>4, <1>5 DEF PoolInv, CountInv, Clean, Init

\* add counts a vote exactly once.
LEMMA AddCounts ==
    ASSUME CountInv, NEW r \in Requests, NEW vote \in Vote, add(r, vote)
    PROVE  /\ PoolFinite' /\ Counted'
           /\ \A q \in Requests, h \in Hashes :
                /\ results'[q][h] \in Nat
                /\ results'[q][h] = IF q = r /\ h = vote.hash THEN results[q][h] + 1
                                                              ELSE results[q][h]
<1>1. vote.hash \in Hashes
    BY DEF Vote
<1>2. \A q \in Requests : votes'[q] = IF q = r THEN votes[r] \cup {vote} ELSE votes[q]
    BY DEF CountInv, TypeOK, add
<1>3. \A q \in Requests, h \in Hashes :
        /\ results[q][h] \in Nat
        /\ results'[q][h] = IF q = r /\ h = vote.hash THEN results[q][h] + 1 ELSE results[q][h]
    <2> USE <1>1
    <2>1. results \in [Requests -> [Hashes -> Nat]]
        BY DEF CountInv, TypeOK
    <2>2. results' = [results EXCEPT ![r] = [results[r] EXCEPT ![vote.hash] = results[r][vote.hash] + 1]]
        BY DEF add
    <2> QED BY <2>1, <2>2, SMTT(30)
<1>4. PoolFinite'
    BY <1>2, FS_AddElement DEF CountInv, PoolFinite
<1>5. ASSUME NEW q \in Requests, NEW h \in Hashes
      PROVE  results'[q][h] = Cardinality(For(votes'[q], h))
    <2>1. CASE q = r /\ h = vote.hash
        <3>1. For(votes'[q], h) = For(votes[q], h) \cup {vote}
            BY <2>1, <1>2 DEF For
        <3>2. vote \notin For(votes[q], h)
            BY <2>1 DEF For, add, Known
        <3>3. IsFiniteSet(For(votes[q], h))
            BY ForFinite DEF CountInv, PoolFinite
        <3>4. Cardinality(For(votes'[q], h)) = Cardinality(For(votes[q], h)) + 1
            BY <3>1, <3>2, <3>3, FS_AddElement
        <3> QED BY <2>1, <1>3, <3>4 DEF CountInv, Counted
    <2>2. CASE ~(q = r /\ h = vote.hash)
        <3>1. For(votes'[q], h) = For(votes[q], h)
            BY <2>2, <1>2 DEF For
        <3> QED BY <2>2, <1>3, <3>1 DEF CountInv, Counted
    <2> QED BY <2>1, <2>2
<1> QED BY <1>3, <1>4, <1>5 DEF Counted

\* A vote keeps the invariant; if it wakes the aggregator a second time, two
\* hashes have a quorum.
LEMMA AddStep ==
    ASSUME PoolInv, NEW r \in Requests, NEW vote \in Vote, add(r, vote)
    PROVE  PoolInv'
<1>1. /\ PoolFinite' /\ Counted'
      /\ \A q \in Requests, h \in Hashes :
            /\ results[q][h] \in Nat /\ results'[q][h] \in Nat
            /\ results'[q][h] = IF q = r /\ h = vote.hash THEN results[q][h] + 1
                                                          ELSE results[q][h]
    BY AddCounts DEF PoolInv, CountInv, TypeOK
<1>2. UNCHANGED <<batch, credits, submitted, up>>
    BY DEF add
<1>3. \/ UNCHANGED <<phase, current>>
      \/ /\ phase = "waiting" /\ phase' = "collecting" /\ current' = r
         /\ results'[r][vote.hash] = NumAccounts
    BY DEF add, Quorum, Wake
<1>4. vote.hash \in Hashes
    BY DEF Vote
<1>5. TypeOK'
    <2>1. votes' \in [Requests -> SUBSET Vote]
        BY DEF PoolInv, CountInv, TypeOK, add
    <2>2. results' \in [Requests -> [Hashes -> Nat]]
        BY <1>4 DEF PoolInv, CountInv, TypeOK, add
    <2> QED BY <2>1, <2>2, <1>2, <1>3 DEF PoolInv, CountInv, TypeOK, Phases
<1>6. \A q \in Requests : Reached(q) => Reached(q)'
    BY <1>1 DEF Reached
<1>7. Woken'
    <2>1. CASE UNCHANGED <<phase, current>>
        BY <2>1, <1>6 DEF PoolInv, CountInv, TypeOK, BatchInv, Woken
    <2>2. CASE phase' = "collecting" /\ current' = r /\ results'[r][vote.hash] = NumAccounts
        BY <2>2, <1>1, <1>4 DEF Woken, Reached
    <2> QED BY <1>3, <2>1, <2>2
<1>8. HoldsQuorum' /\ OneHash'
    BY <1>2, <1>3 DEF PoolInv, BatchInv, HoldsQuorum, OneHash
<1>9. SentReached' /\ SubmittedOnce'
    BY <1>2, <1>6 DEF PoolInv, SentInv, SentReached, SubmittedOnce
<1>10. NoSecond'
    <2>1. CASE UNCHANGED <<phase, current>>
        <3>1. ASSUME phase = "collecting", submitted[current] # <<>>
              PROVE  Cardinality(votes'[current]) > NumAccounts
            <4>1. current \in Requests /\ IsFiniteSet(votes'[current])
                BY <1>1 DEF PoolInv, CountInv, TypeOK, PoolFinite
            <4>2. votes[current] \in SUBSET votes'[current]
                BY <4>1 DEF PoolInv, CountInv, TypeOK, add
            <4>3. Cardinality(votes[current]) > NumAccounts
                BY <3>1 DEF PoolInv, SentInv, NoSecond
            <4> QED BY <4>1, <4>2, <4>3, FS_Subset, FS_CardinalityType
        <3> QED BY <2>1, <1>2, <3>1 DEF PoolInv, SentInv, NoSecond
    <2>2. CASE phase' = "collecting" /\ current' = r /\ results'[r][vote.hash] = NumAccounts
        <3>1. ASSUME submitted[r] # <<>>
              PROVE  Cardinality(votes'[r]) > NumAccounts
            <4>1. PICK h \in Hashes : results[r][h] >= NumAccounts
                BY <3>1 DEF PoolInv, SentInv, SentReached, Reached
            <4>2. h # vote.hash /\ results'[r][h] >= NumAccounts
                BY <4>1, <2>2, <1>1, <1>4
            <4>3. Cardinality(For(votes'[r], h)) >= NumAccounts
                  /\ Cardinality(For(votes'[r], vote.hash)) = NumAccounts
                BY <4>2, <2>2, <1>1, <1>4 DEF Counted
            <4>4. Cardinality(For(votes'[r], h)) + Cardinality(For(votes'[r], vote.hash))
                    <= Cardinality(votes'[r])
                BY <4>2, <1>1, TwoQuorums DEF PoolFinite
            <4>5. Cardinality(For(votes'[r], h)) \in Nat /\ Cardinality(votes'[r]) \in Nat
                BY <1>1, ForFinite DEF PoolFinite
            <4> QED BY <4>3, <4>4, <4>5
        <3> QED BY <2>2, <1>2, <3>1 DEF NoSecond
    <2> QED BY <1>3, <2>1, <2>2
<1>11. Clean'
    BY <1>2, <1>3 DEF PoolInv, Clean
<1> QED BY <1>1, <1>5, <1>7, <1>8, <1>9, <1>10, <1>11
        DEF PoolInv, CountInv, BatchInv, SentInv

\* What the aggregator's own steps leave alone.
LEMMA PoolKept ==
    ASSUME PoolInv, UNCHANGED poolVars, TypeOK'
    PROVE  /\ CountInv'
           /\ \A q \in Requests : Reached(q)' = Reached(q)
BY DEF PoolInv, CountInv, PoolFinite, Counted, Reached, poolVars

\* The read takes over the quorum that the pool holds by then.
LEMMA CollectStep ==
    ASSUME PoolInv, getVotes
    PROVE  PoolInv'
<1>1. /\ phase = "collecting" /\ phase' = "assembling" /\ batch' = votes[current]
      /\ UNCHANGED <<poolVars, current, credits, submitted, up>>
    BY DEF getVotes
<1>2. current \in Requests /\ votes[current] \subseteq Vote /\ IsFiniteSet(votes[current])
    BY DEF PoolInv, CountInv, TypeOK, PoolFinite
<1>3. TypeOK'
    BY <1>1, <1>2 DEF PoolInv, CountInv, TypeOK, Phases, poolVars
<1>4. PICK h \in Hashes : results[current][h] >= NumAccounts
    BY <1>1 DEF PoolInv, BatchInv, Woken, Reached
<1>5. Cardinality(For(batch', h)) >= NumAccounts
    BY <1>1, <1>2, <1>4 DEF PoolInv, CountInv, Counted
<1>6. CountInv' /\ \A q \in Requests : Reached(q)' = Reached(q)
    BY <1>1, <1>3, PoolKept
<1>7. BatchInv'
    BY <1>1, <1>2, <1>5, <1>6 DEF PoolInv, BatchInv, Woken, HoldsQuorum, OneHash
<1>8. SentInv'
    BY <1>1, <1>6 DEF PoolInv, SentInv, SentReached, NoSecond, SubmittedOnce
<1> QED BY <1>1, <1>6, <1>7, <1>8 DEF PoolInv, Clean

\* A batch that fits has no room for a vote outside its quorum.
LEMMA AssembleStep ==
    ASSUME PoolInv, Assemble
    PROVE  PoolInv'
<1>1. /\ phase = "assembling" /\ phase' = "proving" /\ credits' = Credited(batch)
      /\ Cardinality(batch) <= NumAccounts
      /\ UNCHANGED <<poolVars, current, batch, submitted, up>>
    BY DEF Assemble, Fits
<1>2. IsFiniteSet(batch)
    BY <1>1 DEF PoolInv, BatchInv, HoldsQuorum
<1>3. TypeOK'
    BY <1>1, <1>2, CreditedType DEF PoolInv, CountInv, TypeOK, Phases, poolVars
<1>4. PICK h \in Hashes : Cardinality(For(batch, h)) >= NumAccounts
    BY <1>1 DEF PoolInv, BatchInv, HoldsQuorum
<1>5. Cardinality(batch) = NumAccounts /\ For(batch, h) = batch
    BY <1>1, <1>2, <1>4, ForFinite
<1>6. \A v, w \in batch : v.hash = w.hash
    BY <1>5 DEF For
<1>7. CountInv' /\ \A q \in Requests : Reached(q)' = Reached(q)
    BY <1>1, <1>3, PoolKept
<1>8. current \in Requests
    BY DEF PoolInv, CountInv, TypeOK
<1>9. BatchInv'
    BY <1>1, <1>2, <1>5, <1>6, <1>7, <1>8 DEF PoolInv, BatchInv, Woken, HoldsQuorum, OneHash
<1>10. submitted[current] = <<>>
    BY <1>1, <1>5 DEF PoolInv, SentInv, NoSecond
<1>11. SentInv'
    BY <1>1, <1>7, <1>10 DEF PoolInv, SentInv, SentReached, NoSecond, SubmittedOnce
<1> QED BY <1>1, <1>7, <1>9, <1>11 DEF PoolInv, Clean

\* The transaction is the first for its request.
LEMMA SubmitStep ==
    ASSUME PoolInv, Submit
    PROVE  PoolInv'
<1>1. /\ phase = "proving" /\ phase' = "mining" /\ credits' = NoCredits
      /\ UNCHANGED <<poolVars, current, batch, up>>
    BY DEF Submit, Restored
<1>2. PICK v \in batch : submitted' = [submitted EXCEPT ![current] = Append(@, v.hash)]
    BY DEF Submit
<1>3. v.hash \in Hashes /\ current \in Requests
    BY DEF PoolInv, CountInv, TypeOK, Vote
<1>4. /\ submitted \in [Requests -> Seq(Hashes)]
      /\ submitted[current] = <<>>
    BY <1>1 DEF PoolInv, CountInv, TypeOK, SentInv, NoSecond
<1>5. submitted'[current] = <<v.hash>>
      /\ \A q \in Requests \ {current} : submitted'[q] = submitted[q]
    BY <1>2, <1>3, <1>4
<1>6. TypeOK'
    <2>1. submitted' \in [Requests -> Seq(Hashes)]
        BY <1>2, <1>3, <1>4
    <2>2. NoCredits \in [Seats -> Nat]
        BY DEF NoCredits
    <2> QED BY <1>1, <2>1, <2>2 DEF PoolInv, CountInv, TypeOK, Phases, poolVars
<1>7. CountInv' /\ \A q \in Requests : Reached(q)' = Reached(q)
    BY <1>1, <1>6, PoolKept
<1>8. BatchInv'
    BY <1>1 DEF PoolInv, BatchInv, Woken, HoldsQuorum, OneHash
<1>9. SentReached'
    BY <1>1, <1>5, <1>7 DEF PoolInv, SentInv, SentReached, BatchInv, Woken
<1>10. SubmittedOnce'
    <2>1. \A q \in Requests \ {current} : Len(submitted'[q]) <= 1
        BY <1>5 DEF PoolInv, SentInv, SubmittedOnce
    <2>2. Len(submitted'[current]) <= 1
        BY <1>5
    <2> QED BY <2>1, <2>2 DEF SubmittedOnce
<1> QED BY <1>1, <1>7, <1>8, <1>9, <1>10 DEF PoolInv, SentInv, NoSecond, Clean

\* Starting, panicking, mining and failing leave the pool and what was sent.
LEMMA OtherStep ==
    ASSUME PoolInv, Start \/ Panic \/ Mined \/ Fail
    PROVE  PoolInv'
<1>1. /\ UNCHANGED <<poolVars, current, submitted>>
      /\ \/ UNCHANGED <<phase, batch, credits>>
         \/ /\ phase \in {"starting", "mining"} /\ phase' = "waiting"
            /\ batch' \in {batch, {}} /\ UNCHANGED credits
         \/ phase' = "stopped" /\ batch' = {} /\ credits' \in [Seats -> Nat]
      /\ up' \in BOOLEAN
    <2>1. CASE Start
        BY <2>1 DEF Start, PoolInv, CountInv, TypeOK
    <2>2. CASE Panic
        BY <2>2 DEF Panic
    <2>3. CASE Mined
        BY <2>3 DEF Mined, PoolInv, CountInv, TypeOK
    <2>4. CASE Fail
        <3>1. credits \in [Seats -> Nat] /\ NoCredits \in [Seats -> Nat]
            BY DEF PoolInv, CountInv, TypeOK, NoCredits
        <3>2. ASSUME phase = "assembling"
              PROVE  credits' \in [Seats -> Nat]
            <4>1. \A B \in SUBSET batch : Credited(B) \in [Seats -> Nat]
                BY <3>2, FS_Subset, CreditedType DEF PoolInv, BatchInv, HoldsQuorum
            <4>2. credits' \in {NoCredits} \cup {Credited(B) : B \in {C \in SUBSET batch : Fits(C)}}
                BY <2>4, <3>2 DEF Fail, Abandoned
            <4> QED BY <3>1, <4>1, <4>2
        <3>3. ASSUME phase \in {"proving", "mining"}
              PROVE  credits' \in [Seats -> Nat]
            BY <2>4, <3>1, <3>3 DEF Fail, Abandoned, Restored
        <3> QED BY <2>4, <3>2, <3>3 DEF Fail, PoolInv, CountInv, TypeOK
    <2> QED BY <2>1, <2>2, <2>3, <2>4
<1>2. TypeOK'
    BY <1>1 DEF PoolInv, CountInv, TypeOK, Phases, poolVars
<1>3. CountInv' /\ \A q \in Requests : Reached(q)' = Reached(q)
    BY <1>1, <1>2, PoolKept
<1>4. current \in Requests
    BY DEF PoolInv, CountInv, TypeOK
<1>5. BatchInv'
    BY <1>1, <1>3, <1>4 DEF PoolInv, BatchInv, Woken, HoldsQuorum, OneHash
<1>6. SentInv'
    BY <1>1, <1>3 DEF PoolInv, SentInv, SentReached, NoSecond, SubmittedOnce, poolVars
<1> QED BY <1>1, <1>3, <1>5, <1>6 DEF PoolInv, Clean

\* The inductive invariant.
THEOREM PoolInvariance == Spec => []PoolInv
<1>1. Init => PoolInv
    BY PoolInit
<1>2. PoolInv /\ [Next]_vars => PoolInv'
    <2> SUFFICES ASSUME PoolInv, [Next]_vars
                 PROVE  PoolInv'
        OBVIOUS
    <2>1. CASE \E r \in Requests, vote \in Vote : add(r, vote)
        BY <2>1, AddStep
    <2>2. CASE getVotes
        BY <2>2, CollectStep
    <2>3. CASE Assemble
        BY <2>3, AssembleStep
    <2>4. CASE Submit
        BY <2>4, SubmitStep
    <2>5. CASE Start \/ Panic \/ Mined \/ Fail
        BY <2>5, OtherStep
    <2>6. CASE UNCHANGED vars
        BY <2>6 DEF vars, poolVars, PoolInv, CountInv, BatchInv, SentInv, TypeOK, PoolFinite,
            Counted, Woken, Reached, HoldsQuorum, OneHash, SentReached, NoSecond,
            SubmittedOnce, Clean
    <2> QED BY <2>1, <2>2, <2>3, <2>4, <2>5, <2>6 DEF Next, Aggregate
<1> QED BY <1>1, <1>2, PTL DEF Spec

\* Whatever arrives between the wake-up and the read, the prover is given the
\* votes of NumAccounts different seats for one hash.
THEOREM BatchesProvable == Spec => []BatchProvable
<1>1. PoolInv => BatchProvable
    <2> SUFFICES ASSUME PoolInv
                 PROVE  BatchProvable
        OBVIOUS
    <2>1. \A v, w \in batch : v.hash = w.hash /\ v.index = w.index => v = w
        BY DEF PoolInv, CountInv, TypeOK, Vote
    <2> QED BY <2>1 DEF PoolInv, BatchInv, OneHash, BatchProvable
<1> QED BY <1>1, PoolInvariance, PTL

\* One process sends at most one transaction for a request.
THEOREM OneTransaction == Spec => []SubmittedOnce
<1>1. PoolInv => SubmittedOnce
    BY DEF PoolInv, SentInv
<1> QED BY <1>1, PoolInvariance, PTL

\* The aggregator's copy of the accounts shows no unpaid reward while it waits.
THEOREM NoUnpaidReward == Spec => []StateRestored
<1>1. PoolInv => StateRestored
    BY DEF PoolInv, Clean, StateRestored
<1> QED BY <1>1, PoolInvariance, PTL
============================================================================
