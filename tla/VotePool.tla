------------------------------ MODULE VotePool ------------------------------
(***************************************************************************)
(* The aggregator's side of one oracle node: votes arrive by the SendVote   *)
(* RPC, the pool counts them, and a quorum wakes the goroutine Aggregate    *)
(* over the unbuffered channel sink.  That goroutine reads the pool in a    *)
(* later step of its own, proves the batch it read and submits it.          *)
(*                                                                          *)
(* Only votes with a valid signature are enumerated: add refuses the others *)
(* before it changes anything.  State is taken to hold an account for every *)
(* seat in Seats.  The order in which getVotes lists the votes of a request *)
(* is left out.                                                             *)
(***************************************************************************)
EXTENDS Integers, FiniteSets, Sequences

CONSTANTS
    Seats,          \* registered account indices
    Self,           \* the aggregator's own account index
    Requests,
    Hashes,
    NumAccounts     \* votes that one aggregation proof carries

ASSUME PoolQuorumAssumption == NumAccounts \in Nat \ {0}
ASSUME PoolSeatAssumption == Self \in Seats

VARIABLES
    votes,      \* request -> the votes accepted for it
    results,    \* request -> hash -> number of votes counted
    phase,      \* of the goroutine Aggregate
    current,    \* the request it was woken for
    batch,      \* the votes it read for that request
    credits,    \* seat -> rewards written to State ahead of the chain
    submitted,  \* request -> the hashes of the transactions sent for it, in order
    up          \* the process runs

poolVars == <<votes, results>>
vars == <<poolVars, phase, current, batch, credits, submitted, up>>

Vote == [index : Seats, hash : Hashes]

\* starting: not yet at the range over sink; waiting: blocked there;
\* collecting: a request was received; assembling: the votes were read;
\* proving: the witness is complete; mining: the transaction was sent;
\* stopped: Aggregate returned an error.
Phases == {"starting", "waiting", "collecting", "assembling", "proving", "mining", "stopped"}

NoCredits == [s \in Seats |-> 0]

TypeOK ==
    /\ votes \in [Requests -> SUBSET Vote]
    /\ results \in [Requests -> [Hashes -> Nat]]
    /\ phase \in Phases
    /\ current \in Requests
    /\ batch \subseteq Vote
    /\ credits \in [Seats -> Nat]
    /\ submitted \in [Requests -> Seq(Hashes)]
    /\ up \in BOOLEAN

Init ==
    /\ votes = [r \in Requests |-> {}]
    /\ results = [r \in Requests |-> [h \in Hashes |-> 0]]
    /\ phase = "starting"
    /\ current \in Requests
    /\ batch = {}
    /\ credits = NoCredits
    /\ submitted = [r \in Requests |-> <<>>]
    /\ up = TRUE
----------------------------------------------------------------------------
\* Aggregate reaches the range over sink.
Start ==
    /\ up /\ phase = "starting"
    /\ phase' = "waiting"
    /\ UNCHANGED <<poolVars, current, batch, credits, submitted, up>>

\* Mutated form of Known: the vote hash is not looked up.
KnownForgotten(r, vote) == FALSE

\* The vote's hash is in the pool.
Known(r, vote) == vote \in votes[r]

Quorum(count) == count = NumAccounts

\* The send on sink that add selects: it succeeds only while Aggregate is
\* blocked on the channel, otherwise the wake-up is dropped for good.
Wake(r) ==
    IF phase = "waiting" THEN phase' = "collecting" /\ current' = r
                         ELSE UNCHANGED <<phase, current>>

\* add, under the lock of the pool.
add(r, vote) ==
    /\ up
    /\ ~Known(r, vote)
    /\ votes' = [votes EXCEPT ![r] = @ \cup {vote}]
    /\ results' = [results EXCEPT ![r][vote.hash] = @ + 1]
    /\ IF Quorum(results'[r][vote.hash]) THEN Wake(r) ELSE UNCHANGED <<phase, current>>
    /\ UNCHANGED <<batch, credits, submitted, up>>

\* Mutated form of getVotes: a batch of another size than the circuit's is
\* skipped.
getVotesExact ==
    /\ up /\ phase = "collecting"
    /\ batch' = votes[current]
    /\ phase' = IF Cardinality(votes[current]) = NumAccounts THEN "assembling" ELSE "waiting"
    /\ UNCHANGED <<poolVars, current, credits, submitted, up>>

\* getVotes returns the votes of all hashes, later ones than the waking vote
\* included.
getVotes ==
    /\ up /\ phase = "collecting"
    /\ batch' = votes[current]
    /\ phase' = "assembling"
    /\ UNCHANGED <<poolVars, current, credits, submitted, up>>

\* Rewards that the assembly of a witness writes to State: the aggregator's
\* own, then one per vote.
Credited(B) ==
    [s \in Seats |-> Cardinality({v \in B : v.index = s}) + (IF s = Self THEN 1 ELSE 0)]

\* Mutated form of Fits: votes beyond the array's end are tolerated.
FitsMore(B) == Cardinality(B) <= NumAccounts + 1

\* The batch fits the array of validators in the witness.
Fits(B) == Cardinality(B) <= NumAccounts

\* ProcessVotes up to the proof.
Assemble ==
    /\ up /\ phase = "assembling" /\ Fits(batch)
    /\ credits' = Credited(batch)
    /\ phase' = "proving"
    /\ UNCHANGED <<poolVars, current, batch, submitted, up>>

\* A vote more than the array holds: the index is out of range, and the panic
\* of one goroutine ends the process.
Panic ==
    /\ up /\ phase = "assembling" /\ ~Fits(batch)
    /\ up' = FALSE
    /\ UNCHANGED <<poolVars, phase, current, batch, credits, submitted>>

\* Mutated form of Restored: the state from before the proof is not put back.
RestoredNot == credits

\* State after SetData and SetHData with the copies taken before the proof.
Restored == NoCredits

\* The proof succeeds, the state is put back, and the transaction is sent with
\* the hash of the first vote.
Submit ==
    /\ up /\ phase = "proving"
    /\ \E v \in batch :
        submitted' = [submitted EXCEPT ![current] = Append(@, v.hash)]
    /\ credits' = Restored
    /\ phase' = "mining"
    /\ UNCHANGED <<poolVars, current, batch, up>>

\* WaitMined returns, whatever the receipt says.
Mined ==
    /\ up /\ phase = "mining"
    /\ phase' = "waiting"
    /\ batch' = {}
    /\ UNCHANGED <<poolVars, current, credits, submitted, up>>

\* What State holds when ProcessVotes returns an error: the rewards written so
\* far, unless the error came before the first or after the state was put back.
Abandoned ==
    CASE phase = "assembling" -> {NoCredits} \cup {Credited(B) : B \in {C \in SUBSET batch : Fits(C)}}
      [] phase = "proving"    -> {credits, Restored}
      [] phase = "mining"     -> {credits}

\* An error makes Aggregate return.  Nothing restarts it, while the node goes
\* on taking votes.
Fail ==
    /\ up /\ phase \in {"assembling", "proving", "mining"}
    /\ credits' \in Abandoned
    /\ phase' = "stopped"
    /\ batch' = {}
    /\ UNCHANGED <<poolVars, current, submitted, up>>

Aggregate == Start \/ getVotes \/ Assemble \/ Panic \/ Submit \/ Mined \/ Fail

Next == Aggregate \/ \E r \in Requests, vote \in Vote : add(r, vote)

\* The goroutine is scheduled, proofs end and transactions are mined.
Spec == Init /\ [][Next]_vars /\ WF_vars(Aggregate)
----------------------------------------------------------------------------
(* Properties. *)

\* A batch that reaches the prover is what the circuit can prove: the votes
\* of NumAccounts different seats, all for one hash.  Votes go on arriving
\* between the wake-up and the read, so this is not what add saw.
BatchProvable ==
    phase \in {"proving", "mining"} =>
        /\ Cardinality(batch) = NumAccounts
        /\ \A v, w \in batch : v.hash = w.hash /\ (v.index = w.index => v = w)

\* One process sends at most one transaction for a request, also when two
\* hashes of it gather a quorum.
SubmittedOnce == \A r \in Requests : Len(submitted[r]) <= 1

\* While the aggregator has no proof in hand, its copy of the accounts shows
\* no reward that the chain has not paid.
StateRestored == phase \in {"waiting", "collecting"} => credits = NoCredits

\* A quorum that wakes the aggregator is submitted, unless an error ended the
\* goroutine or the process.
WokenServed ==
    \A r \in Requests :
        (phase = "collecting" /\ current = r) ~> (submitted[r] # <<>> \/ phase = "stopped" \/ ~up)
============================================================================
