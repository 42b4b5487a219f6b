----------------------------- MODULE Validator -----------------------------
(***************************************************************************)
(* The validator of a node (validator.go, event.go): it waits for requests, *)
(* reads the header of the block that is asked for, then the head, signs if *)
(* the block is confirmed and sends its vote to the aggregator.  The chain  *)
(* that is read is the chain of the contract, and it may reorganise.        *)
(***************************************************************************)
EXTENDS Integers, Sequences, FiniteSets, SequencesExt

CONSTANTS
    CONFIRMATIONS,
    Width,          \* bits of the unsigned difference of block numbers
    Numbers,        \* block numbers that are asked for
    ReorgDepth,     \* blocks that a reorganisation may replace
    MaxHead,        \* bound: height of the chain
    MaxRequests,    \* bound: requests in the chain
    MaxForks,       \* bound: reorganisations
    MaxRestarts     \* bound: restarts of the node

ASSUME ConfirmationsAssumption ==
    CONFIRMATIONS \in Nat /\ MaxHead \in Nat \ {0} /\ 2^Width \in Nat /\ MaxHead < 2^Width
ASSUME NumbersAssumption == Numbers \subseteq Nat \ {0}

VARIABLES
    chain,      \* block number -> the fork it came with, and the block it asks for
    forks,
    inbox,      \* logs that the subscription has delivered
    stage,      \* of the goroutine: off, idle, header, confirmed, signed or ended
    event,      \* the request it handles
    header,     \* the header it has read
    votes,      \* votes signed, in order
    torn,       \* those of a header that a reorganisation replaced before the head was read
    received,   \* votes that reached an aggregator
    restarts

chainVars == <<chain, forks>>
vars == <<chainVars, inbox, stage, event, header, votes, torn, received, restarts>>

NoRequest == 0
None == [request |-> 0, number |-> 0]

head == Len(chain)

\* Hash commits to the number and to the whole chain below.
Hash(n) == [number |-> n, fork |-> chain[n].fork]

\* The request in block n; requests are numbered as they are in the chain.
Asked(blocks, n) ==
    [request |-> Cardinality({m \in 1..n - 1 : blocks[m].asks # NoRequest}),
     number |-> blocks[n].asks]

\* The logs of blocks n and above.
Logs(blocks, n) ==
    LET from[m \in n..Len(blocks) + 1] ==
            IF m > Len(blocks) THEN <<>>
            ELSE IF blocks[m].asks = NoRequest THEN from[m + 1]
                                               ELSE <<Asked(blocks, m)>> \o from[m + 1]
    IN  from[n]

Init ==
    /\ chain = <<[fork |-> 0, asks |-> NoRequest]>>
    /\ forks = 0
    /\ inbox = <<>>
    /\ stage = "off" /\ event = None /\ header = <<>>
    /\ votes = <<>> /\ torn = {} /\ received = {}
    /\ restarts = 0
----------------------------------------------------------------------------
(* The chain. *)

Subscribed == stage \notin {"off", "ended"}

\* The blocks from n on are replaced by new ones.  The logs of the replaced
\* blocks are delivered once more, marked as removed, and the watchers do not
\* look at the mark.
Become(blocks, n) ==
    /\ Len(blocks) <= MaxHead
    /\ Len(SelectSeq(blocks, LAMBDA b : b.asks # NoRequest)) <= MaxRequests
    /\ chain' = blocks
    /\ inbox' = IF Subscribed THEN inbox \o Logs(chain, n) \o Logs(blocks, n) ELSE inbox
    /\ UNCHANGED <<stage, event, header, votes, torn, received, restarts>>

Asks == Numbers \cup {NoRequest}

Mine ==
    /\ \E asks \in Asks : Become(Append(chain, [fork |-> forks, asks |-> asks]), head + 1)
    /\ UNCHANGED forks

Reorganise ==
    /\ forks < MaxForks
    /\ \E depth \in 1..ReorgDepth :
        /\ depth < head
        /\ \E asks \in [1..depth + 1 -> Asks] :
            Become(SubSeq(chain, 1, head - depth)
                     \o [n \in 1..depth + 1 |-> [fork |-> forks + 1, asks |-> asks[n]]],
                   head - depth + 1)
    /\ forks' = forks + 1
----------------------------------------------------------------------------
(* The validator. *)

\* Mutated form of Backlog: the subscription starts with the first block.
BacklogAll == Logs(chain, 1)

\* A subscription delivers only what is mined after it.
Backlog == <<>>

Validate ==
    /\ stage = "off"
    /\ stage' = "idle" /\ inbox' = Backlog
    /\ UNCHANGED <<chainVars, event, header, votes, torn, received, restarts>>

\* An error of the handler ends the watcher and with it the goroutine.
End == stage' = "ended" /\ event' = None /\ header' = <<>> /\ inbox' = <<>>

\* Mutated form of Received: an event that comes while one is handled is lost.
ReceivedLast == <<Head(inbox), <<>>>>

\* The event that is handled next, and those that wait.
Received == <<Head(inbox), Tail(inbox)>>

HeaderByNumber ==
    /\ stage = "idle" /\ inbox # <<>>
    /\ \/ /\ Received[1].number \in DOMAIN chain
          /\ event' = Received[1] /\ inbox' = Received[2]
          /\ header' = Hash(event'.number)
          /\ stage' = "header"
       \/ Received[1].number \notin DOMAIN chain /\ End
    /\ UNCHANGED <<chainVars, votes, torn, received, restarts>>

\* Mutated form of Confirmed: one confirmation too few is enough.
ConfirmedEarly == (head - header.number) % 2^Width >= CONFIRMATIONS - 1

\* The difference of two unsigned numbers, as the head is read.
Confirmed == (head - header.number) % 2^Width >= CONFIRMATIONS

\* The vote that comes next is torn if its header is no longer the chain's.
Torn == LET next == Len(votes) + 1
        IN  IF header = Hash(header.number) THEN torn \ {next} ELSE torn \cup {next}

BlockNumber ==
    /\ stage = "header"
    /\ \/ Confirmed /\ stage' = "confirmed" /\ torn' = Torn /\ UNCHANGED <<event, header, inbox>>
       \/ ~Confirmed /\ End /\ UNCHANGED torn
    /\ UNCHANGED <<chainVars, votes, received, restarts>>

Sign ==
    /\ stage = "confirmed"
    /\ votes' = Append(votes, [request |-> event.request, hash |-> header])
    /\ stage' = "signed"
    /\ UNCHANGED <<chainVars, inbox, event, header, torn, received, restarts>>

\* The aggregator and its host are looked up and the vote is sent: it may
\* arrive or not, and arrive without the answer that says so.
SendVote ==
    /\ stage = "signed"
    /\ \E arrives, answered \in BOOLEAN :
        /\ answered => arrives
        /\ received' = IF arrives THEN received \cup {Last(votes)} ELSE received
        /\ IF answered THEN stage' = "idle" /\ event' = None /\ header' = <<>> /\ inbox' = inbox
                       ELSE End
    /\ UNCHANGED <<chainVars, votes, torn, restarts>>

\* The process ends and starts again.
Restart ==
    /\ restarts < MaxRestarts /\ stage # "off"
    /\ restarts' = restarts + 1
    /\ stage' = "off" /\ event' = None /\ header' = <<>> /\ inbox' = <<>>
    /\ UNCHANGED <<chainVars, votes, torn, received>>

HandleBlockRequestedEvent == HeaderByNumber \/ BlockNumber \/ Sign \/ SendVote

Next == Mine \/ Reorganise \/ Validate \/ HandleBlockRequestedEvent \/ Restart

\* The goroutine runs on; no fairness of the chain or of restarts is assumed.
Spec == Init /\ [][Next]_vars /\ WF_vars(Validate) /\ WF_vars(HandleBlockRequestedEvent)
----------------------------------------------------------------------------
(* Properties. *)

\* What was signed is the block at that height, whatever is reorganised before
\* or later: a vote for a block that goes away contradicts the answer and costs
\* stake.  Header and head come from two calls; a reorganisation that replaces
\* the header between them is not noticed, and its vote is left out.
SignedStays ==
    \A n \in DOMAIN votes : n \notin torn => votes[n].hash = Hash(votes[n].hash.number)

\* A request is signed once, also across restarts, in a chain that only grew: a
\* reorganisation has the logs of removed blocks delivered once more.
SignedOnce == forks = 0 => \A m, n \in DOMAIN votes : votes[m].request = votes[n].request => m = n

\* A request that is mined while the validator waits is signed, unless an
\* error, such as a block that is not confirmed, or a restart ends the wait.
Answered ==
    \A r \in 0..MaxRequests - 1 :
        (Subscribed /\ \E n \in DOMAIN inbox : inbox[n].request = r)
            ~> (~Subscribed \/ \E n \in DOMAIN votes : votes[n].request = r)
============================================================================
