-------------------------- MODULE ValidatorProofs --------------------------
(***************************************************************************)
(* What a validator signed stays in the chain, for every number of          *)
(* confirmations, reorganisations and requests, provided that no            *)
(* reorganisation is deeper than the confirmations, and but for the votes   *)
(* whose header was replaced before the head was read.  The invariant is    *)
(* that whatever else is signed or about to be lies as deep as the          *)
(* confirmations: a reorganisation leaves it, and the chain only gets       *)
(* longer.                                                                  *)
(*                                                                          *)
(* In a chain that only grows a request is signed once: what was signed,    *)
(* what is being handled and what waits are in the order of the chain, and  *)
(* a subscription delivers only what is mined after it.                     *)
(***************************************************************************)
EXTENDS Validator, SequenceTheorems, FiniteSetTheorems, TLAPS

\* The block is in the chain, with the confirmations above it.
Deep(hash) == hash.number \in 1..head - CONFIRMATIONS /\ hash = Hash(hash.number)

ChainInv ==
    /\ \E Blocks : chain \in Seq(Blocks)
    /\ \E Signed : votes \in Seq(Signed)
    /\ head <= MaxHead

HeaderInv ==
    /\ stage = "header" => header.number \in 1..head
    /\ stage = "confirmed" /\ Len(votes) + 1 \notin torn => Deep(header)

VoteInv == \A n \in DOMAIN votes : n \notin torn => Deep(votes[n].hash)

IInv == ChainInv /\ HeaderInv /\ VoteInv

USE ConfirmationsAssumption

\* A difference that fits its width is not changed by it.
LEMMA NoOverflow ==
    ASSUME NEW n \in 1..head, head \in Nat, head <= MaxHead
    PROVE  (head - n) % 2^Width = head - n
<1> DEFINE m == 2^Width
<1>1. head - n \in Nat /\ head - n < m /\ m \in Nat
    OBVIOUS
<1> HIDE DEF m
<1>2. \A x \in Nat : x < m => x % m = x
    BY <1>1
<1> QED BY <1>1, <1>2 DEF m

\* The blocks up to n are the same before and after.
Same(n) == head <= head' /\ \A k \in 1..n : chain'[k] = chain[k]

\* A new block leaves all others as they are.
LEMMA MineKeeps ==
    ASSUME ChainInv, Mine
    PROVE  Same(head) /\ ChainInv'
<1>1. PICK asks \in Asks : Become(Append(chain, [fork |-> forks, asks |-> asks]), head + 1)
    BY DEF Mine
<1>2. PICK Blocks : chain \in Seq(Blocks)
    BY DEF ChainInv
<1> DEFINE block == [fork |-> forks, asks |-> asks]
           More == Blocks \cup {block}
<1>3. chain \in Seq(More) /\ block \in More
    BY <1>2, SeqMonotonic
<1>4. chain' = Append(chain, block) /\ Len(Append(chain, block)) <= MaxHead /\ votes' = votes
    BY <1>1 DEF Become
<1> HIDE DEF More, block
<1>5. /\ Append(chain, block) \in Seq(More)
      /\ Len(Append(chain, block)) = Len(chain) + 1 /\ Len(chain) \in Nat
      /\ \A k \in 1..Len(chain) : Append(chain, block)[k] = chain[k]
    BY <1>3, AppendProperties, LenProperties
<1> QED BY <1>4, <1>5 DEF Same, ChainInv, head

\* A reorganisation makes the chain longer and leaves what is deep enough.
LEMMA ReorganiseKeeps ==
    ASSUME ReorgDepth \in Nat, ReorgDepth <= CONFIRMATIONS, ChainInv, Reorganise
    PROVE  Same(head - CONFIRMATIONS) /\ ChainInv'
<1>0. PICK depth \in 1..ReorgDepth :
          /\ depth < head
          /\ \E asks \in [1..depth + 1 -> Asks] :
                Become(SubSeq(chain, 1, head - depth)
                           \o [n \in 1..depth + 1 |-> [fork |-> forks + 1, asks |-> asks[n]]],
                       head - depth + 1)
    BY DEF Reorganise
<1>1. PICK asks \in [1..depth + 1 -> Asks] :
          Become(SubSeq(chain, 1, head - depth)
                     \o [n \in 1..depth + 1 |-> [fork |-> forks + 1, asks |-> asks[n]]],
                 head - depth + 1)
    BY <1>0
<1>2. PICK Blocks : chain \in Seq(Blocks)
    BY DEF ChainInv
<1> DEFINE kept == SubSeq(chain, 1, head - depth)
           fresh == [n \in 1..depth + 1 |-> [fork |-> forks + 1, asks |-> asks[n]]]
           More == Blocks \cup {fresh[n] : n \in 1..depth + 1}
<1>3. head \in Nat /\ depth \in Nat /\ depth < head /\ depth <= CONFIRMATIONS
    BY <1>0, <1>2, LenProperties DEF head
<1>4. kept \in Seq(Blocks) /\ Len(kept) = head - depth
      /\ \A k \in 1..head - depth : kept[k] = chain[k]
    <2>1. \A k \in 1..head - depth : chain[k] \in Blocks
        BY <1>2, <1>3, ElementOfSeq DEF head
    <2>2. head - depth \in Int /\ 1 <= head - depth
        BY <1>3
    <2> QED BY <2>1, <2>2, SubSeqProperties
<1>5. fresh \in Seq(More) /\ Len(fresh) = depth + 1
    <2>1. fresh \in [1..depth + 1 -> More]
        OBVIOUS
    <2> QED BY <1>3, <2>1
<1>6. kept \in Seq(More)
    BY <1>4, SeqMonotonic
<1>7. chain' = kept \o fresh /\ Len(kept \o fresh) <= MaxHead /\ votes' = votes
    BY <1>1 DEF Become
<1> HIDE DEF kept, fresh, More
<1>8. /\ kept \o fresh \in Seq(More) /\ Len(kept \o fresh) = head - depth + (depth + 1)
      /\ \A k \in 1..head - depth : (kept \o fresh)[k] = kept[k]
    <2>1. kept \o fresh \in Seq(More) /\ Len(kept \o fresh) = Len(kept) + Len(fresh)
        BY <1>5, <1>6, ConcatProperties
    <2>2. \A k \in 1..Len(kept) : (kept \o fresh)[k] = kept[k]
        <3>1. \A k \in 1..Len(kept) + Len(fresh) : k <= Len(kept) => (kept \o fresh)[k] = kept[k]
            BY <1>5, <1>6, ConcatProperties
        <3> QED BY <1>3, <1>4, <1>5, <3>1
    <2> QED BY <1>4, <1>5, <2>1, <2>2
<1>9. head' = head + 1 /\ ChainInv'
    BY <1>3, <1>7, <1>8 DEF ChainInv, head
<1>10. \A k \in 1..head - CONFIRMATIONS : chain'[k] = chain[k]
    BY <1>3, <1>4, <1>7, <1>8
<1> QED BY <1>3, <1>9, <1>10 DEF Same

\* What is deep stays deep while the chain above it changes.
LEMMA DeepKept ==
    ASSUME head \in Nat, head' \in Nat, Same(head - CONFIRMATIONS), NEW hash, Deep(hash)
    PROVE  hash.number \in 1..head' - CONFIRMATIONS /\ hash = Hash(hash.number)'
BY DEF Same, Deep, Hash

\* The initial states satisfy the invariant.
LEMMA InitInv == Init => IInv
<1> SUFFICES ASSUME Init PROVE IInv
    OBVIOUS
<1> DEFINE block == [fork |-> 0, asks |-> NoRequest]
<1>1. chain \in Seq({block}) /\ head = 1 /\ votes \in Seq({}) /\ DOMAIN votes = {}
    BY DEF Init, head
<1>2. ChainInv
    BY <1>1 DEF ChainInv
<1> QED BY <1>1, <1>2 DEF Init, IInv, HeaderInv, VoteInv

\* Every step preserves the invariant.
LEMMA StepInv ==
    ASSUME ReorgDepth \in Nat, ReorgDepth <= CONFIRMATIONS, IInv, [Next]_vars
    PROVE  IInv'
<1>0. head \in Nat /\ head <= MaxHead
    BY LenProperties DEF IInv, ChainInv, head
<1>1. CASE Mine \/ Reorganise
    <2>1. Same(head - CONFIRMATIONS) /\ ChainInv'
        BY <1>0, <1>1, MineKeeps, ReorganiseKeeps DEF IInv, Same
    <2>2. head' \in Nat /\ head <= head' /\ UNCHANGED <<stage, header, votes, torn>>
        BY <1>1, <2>1, LenProperties DEF Mine, Reorganise, Become, ChainInv, head, Same
    <2>3. ASSUME stage = "header" PROVE header.number \in 1..head'
        BY <1>0, <2>2, <2>3 DEF IInv, HeaderInv
    <2>4. ASSUME stage = "confirmed", Len(votes) + 1 \notin torn PROVE Deep(header)'
        BY <1>0, <2>1, <2>2, <2>4, DeepKept DEF IInv, HeaderInv, Deep
    <2>5. ASSUME NEW n \in DOMAIN votes, n \notin torn PROVE Deep(votes[n].hash)'
        BY <1>0, <2>1, <2>2, <2>5, DeepKept DEF IInv, VoteInv, Deep
    <2> QED BY <2>1, <2>2, <2>3, <2>4, <2>5 DEF IInv, HeaderInv, VoteInv
<1>2. CASE HeaderByNumber
    <2>1. UNCHANGED <<chain, votes, torn>> /\ stage' # "confirmed"
        BY <1>2 DEF HeaderByNumber, End, chainVars
    <2>2. ASSUME stage' = "header" PROVE header'.number \in 1..head
        <3>1. event'.number \in DOMAIN chain /\ header' = Hash(event'.number)
            BY <1>2, <2>2 DEF HeaderByNumber, End
        <3>2. header'.number = event'.number
            BY <3>1 DEF Hash
        <3>3. DOMAIN chain = 1..head
            BY LenProperties DEF IInv, ChainInv, head
        <3> QED BY <3>1, <3>2, <3>3
    <2> QED BY <2>1, <2>2 DEF IInv, ChainInv, HeaderInv, VoteInv, Deep, Hash, head
<1>3. CASE BlockNumber
    <2>1. /\ UNCHANGED <<chain, votes>> /\ stage' # "header"
          /\ torn' = torn \/ (torn' = Torn /\ Confirmed)
        BY <1>3 DEF BlockNumber, End, chainVars
    <2>2. ASSUME stage' = "confirmed", Len(votes) + 1 \notin torn' PROVE header' = header /\ Deep(header)
        <3>1. stage = "header" /\ Confirmed /\ header' = header /\ torn' = Torn
            BY <1>3, <2>2 DEF BlockNumber, End
        <3>2. header.number \in 1..head
            BY <3>1 DEF IInv, HeaderInv
        <3>3. header = Hash(header.number)
            BY <2>2, <3>1 DEF Torn
        <3>4. head - header.number >= CONFIRMATIONS
            BY <1>0, <3>1, <3>2, NoOverflow DEF Confirmed
        <3> QED BY <1>0, <3>1, <3>2, <3>3, <3>4 DEF Deep
    <2>3. ASSUME NEW n \in DOMAIN votes, n \notin torn' PROVE n \notin torn
        <3>1. n # Len(votes) + 1
            BY LenProperties DEF IInv, ChainInv
        <3> QED BY <2>1, <2>3, <3>1 DEF Torn
    <2> QED BY <2>1, <2>2, <2>3 DEF IInv, ChainInv, HeaderInv, VoteInv, Deep, Hash, head
<1>4. CASE Sign
    <2> DEFINE vote == [request |-> event.request, hash |-> header]
    <2>1. /\ UNCHANGED <<chain, header, torn>> /\ stage' = "signed"
          /\ Len(votes) + 1 \notin torn => Deep(header)
          /\ votes' = Append(votes, vote)
        BY <1>4 DEF Sign, chainVars, IInv, HeaderInv
    <2>2. PICK Signed : votes \in Seq(Signed)
        BY DEF IInv, ChainInv
    <2> DEFINE More == Signed \cup {vote}
    <2>3. votes \in Seq(More) /\ vote \in More /\ vote.hash = header
        BY <2>2, SeqMonotonic
    <2> HIDE DEF vote, More
    <2>4. votes' \in Seq(More) /\ DOMAIN votes' = 1..Len(votes) + 1 /\ DOMAIN votes = 1..Len(votes)
          /\ votes'[Len(votes) + 1] = vote /\ Len(votes) \in Nat
          /\ \A n \in 1..Len(votes) : votes'[n] = votes[n]
        BY <2>1, <2>3, AppendProperties, LenProperties
    <2>5. ASSUME NEW n \in DOMAIN votes', n \notin torn PROVE Deep(votes'[n].hash)
        <3>1. CASE n \in DOMAIN votes
            BY <2>4, <2>5, <3>1 DEF IInv, VoteInv
        <3>2. CASE n = Len(votes) + 1
            BY <2>1, <2>3, <2>4, <2>5, <3>2
        <3> QED BY <2>4, <2>5, <3>1, <3>2
    <2>6. VoteInv'
        BY <2>1, <2>5 DEF VoteInv, Deep, Hash, head
    <2> QED BY <2>1, <2>4, <2>6 DEF IInv, ChainInv, HeaderInv, head
<1>5. CASE SendVote
    <2>1. UNCHANGED <<chain, votes, torn>> /\ stage' \in {"idle", "ended"}
        BY <1>5 DEF SendVote, End, chainVars
    <2> QED BY <2>1 DEF IInv, ChainInv, HeaderInv, VoteInv, Deep, Hash, head
<1>6. CASE Validate \/ Restart
    <2>1. UNCHANGED <<chain, votes, torn>> /\ stage' \in {"idle", "off"}
        BY <1>6 DEF Validate, Restart, chainVars
    <2> QED BY <2>1 DEF IInv, ChainInv, HeaderInv, VoteInv, Deep, Hash, head
<1>7. CASE UNCHANGED vars
    BY <1>7 DEF vars, chainVars, IInv, ChainInv, HeaderInv, VoteInv, Deep, Hash, head
<1> QED BY <1>1, <1>2, <1>3, <1>4, <1>5, <1>6, <1>7 DEF Next, HandleBlockRequestedEvent

\* The block a validator signed stays in the chain, whenever a reorganisation
\* comes, if none is deeper than CONFIRMATIONS; but a header that was replaced
\* before the head was read is signed, too.
THEOREM SignaturesStay ==
    ASSUME ReorgDepth \in Nat, ReorgDepth <= CONFIRMATIONS
    PROVE  Spec => []SignedStays
<1>1. IInv => SignedStays
    BY DEF IInv, VoteInv, Deep, SignedStays
<1>2. Init => IInv
    BY InitInv
<1>3. IInv /\ [Next]_vars => IInv'
    BY StepInv
<1> QED BY <1>1, <1>2, <1>3, PTL DEF Spec
----------------------------------------------------------------------------
\* How many requests a chain asks for.
Requested(blocks) == {m \in 1..Len(blocks) : blocks[m].asks # NoRequest}
Issued == Cardinality(Requested(chain))

Handling == stage \in {"header", "confirmed", "signed"}

Block == [fork : Nat, asks : Nat]
Event == [request : Nat, number : Nat]

OnceTypes ==
    /\ chain \in Seq(Block) /\ inbox \in Seq(Event)
    /\ \E Signed : votes \in Seq(Signed)
    /\ ~Subscribed => inbox = <<>>

\* The requests signed, the one being handled and those that wait are in the
\* order of the chain.
InOrder ==
    /\ \A n \in DOMAIN votes : votes[n].request \in 0..Issued - 1
    /\ \A m, n \in DOMAIN votes : m < n => votes[m].request < votes[n].request
    /\ \A n \in DOMAIN inbox : inbox[n].request \in 0..Issued - 1
    /\ \A m, n \in DOMAIN inbox : m < n => inbox[m].request < inbox[n].request
    /\ \A m \in DOMAIN votes, n \in DOMAIN inbox : votes[m].request < inbox[n].request
    /\ Handling =>
        /\ event.request \in 0..Issued - 1
        /\ \A n \in DOMAIN inbox : event.request < inbox[n].request
    /\ stage \in {"header", "confirmed"} =>
        \A m \in DOMAIN votes : votes[m].request < event.request

OnceInv == forks \in Nat /\ (forks = 0 => OnceTypes /\ InOrder)

USE NumbersAssumption

\* The logs from behind the last block on, and from the last block on.
LEMMA LastLogs ==
    ASSUME NEW S, NEW blocks \in Seq(S)
    PROVE  /\ Logs(blocks, Len(blocks) + 1) = <<>>
           /\ Len(blocks) > 0 =>
                Logs(blocks, Len(blocks)) = IF blocks[Len(blocks)].asks = NoRequest THEN <<>>
                                            ELSE <<Asked(blocks, Len(blocks))>>
<1> DEFINE n == Len(blocks)
           last == IF blocks[n].asks = NoRequest THEN <<>> ELSE <<Asked(blocks, n)>>
           From(f, k) == [m \in k..n + 1 |-> IF m > n THEN <<>>
                            ELSE IF blocks[m].asks = NoRequest THEN f[m + 1]
                                 ELSE <<Asked(blocks, m)>> \o f[m + 1]]
<1>1. n \in Nat
    BY LenProperties
<1>2. Logs(blocks, n + 1) = (CHOOSE f : f = From(f, n + 1))[n + 1]
    BY DEF Logs
<1>3. Logs(blocks, n) = (CHOOSE f : f = From(f, n))[n]
    BY DEF Logs
<1>4. Logs(blocks, n + 1) = <<>>
    <2> DEFINE g == [m \in n + 1..n + 1 |-> <<>>]
               f == CHOOSE f : f = From(f, n + 1)
    <2>1. g = From(g, n + 1)
        BY <1>1
    <2>2. f = From(f, n + 1)
        <3> HIDE DEF From, g
        <3> QED BY <2>1
    <2> HIDE DEF f
    <2>3. f[n + 1] = <<>>
        BY <1>1, <2>2
    <2> QED BY <1>2, <2>3 DEF f
<1>5. Logs(blocks, n) = last
    <2> DEFINE g == [m \in n..n + 1 |-> IF m = n THEN last ELSE <<>>]
               f == CHOOSE f : f = From(f, n)
    <2>0. <<Asked(blocks, n)>> \o <<>> = <<Asked(blocks, n)>>
        OBVIOUS
    <2>1. g = From(g, n)
        <3>1. g[n + 1] = <<>>
            BY <1>1
        <3>2. \A m \in n..n + 1 : g[m] = From(g, n)[m]
            <4>1. g[n] = last /\ ~(n > n) /\ n + 1 > n
                BY <1>1
            <4>2. \A m \in n..n + 1 : m = n \/ m = n + 1
                BY <1>1
            <4>3. From(g, n)[n] = last
                <5>1. n \in n..n + 1
                    BY <1>1
                <5>2. From(g, n)[n] = IF blocks[n].asks = NoRequest THEN g[n + 1]
                                      ELSE <<Asked(blocks, n)>> \o g[n + 1]
                    <6> HIDE DEF g
                    <6> QED BY <4>1, <5>1
                <5> HIDE DEF g, From
                <5> QED BY <2>0, <3>1, <5>2
            <4>4. From(g, n)[n + 1] = <<>>
                <5> HIDE DEF g
                <5> QED BY <1>1, <4>1
            <4> HIDE DEF g, From, last
            <4> QED BY <3>1, <4>1, <4>2, <4>3, <4>4
        <3>3. g = [m \in n..n + 1 |-> g[m]] /\ From(g, n) = [m \in n..n + 1 |-> From(g, n)[m]]
            OBVIOUS
        <3> HIDE DEF g, From
        <3> QED BY <3>2, <3>3
    <2>2. f = From(f, n)
        <3> HIDE DEF From, g
        <3> QED BY <2>1
    <2> HIDE DEF f
    <2>3. f[n + 1] = <<>>
        BY <1>1, <2>2
    <2>4. f[n] = last
        <3>1. n \in n..n + 1 /\ ~(n > n)
            BY <1>1
        <3>2. f[n] = IF blocks[n].asks = NoRequest THEN f[n + 1]
                                                   ELSE <<Asked(blocks, n)>> \o f[n + 1]
            BY <2>2, <3>1
        <3> QED BY <2>0, <2>3, <3>2
    <2> QED BY <1>3, <2>4 DEF f
<1> QED BY <1>4, <1>5

\* A block more asks for one request more, or for none.
LEMMA OneMore ==
    ASSUME NEW blocks \in Seq(Block), NEW block \in Block
    PROVE  LET more == Append(blocks, block) IN
           /\ more \in Seq(Block) /\ Len(more) = Len(blocks) + 1
           /\ Cardinality(Requested(blocks)) \in Nat
           /\ IF block.asks = NoRequest
              THEN /\ Cardinality(Requested(more)) = Cardinality(Requested(blocks))
                   /\ Logs(more, Len(blocks) + 1) = <<>>
              ELSE /\ Cardinality(Requested(more)) = Cardinality(Requested(blocks)) + 1
                   /\ Logs(more, Len(blocks) + 1)
                      = <<[request |-> Cardinality(Requested(blocks)), number |-> block.asks]>>
<1> DEFINE more == Append(blocks, block)
           n == Len(blocks)
<1>1. /\ n \in Nat /\ more \in Seq(Block) /\ Len(more) = n + 1
      /\ \A k \in 1..n : more[k] = blocks[k]
      /\ more[n + 1] = block
    BY AppendProperties, LenProperties
<1>2. IsFiniteSet(Requested(blocks)) /\ Cardinality(Requested(blocks)) \in Nat
    <2>1. IsFiniteSet(1..n)
        <3>1. 1 \in Int /\ n \in Int
            BY <1>1
        <3> QED BY <3>1, FS_Interval
    <2>2. Requested(blocks) \subseteq 1..n
        BY DEF Requested
    <2> QED BY <2>1, <2>2, FS_Subset, FS_CardinalityType
<1> HIDE DEF more, n
<1>3. Logs(more, n + 1) = IF block.asks = NoRequest THEN <<>> ELSE <<Asked(more, n + 1)>>
    BY <1>1, LastLogs
<1>4. CASE block.asks = NoRequest
    <2>1. Requested(more) = Requested(blocks)
        BY <1>1, <1>4 DEF Requested, n
    <2> QED BY <1>1, <1>2, <1>3, <1>4, <2>1 DEF more, n
<1>5. CASE block.asks # NoRequest
    <2>1. Requested(more) = Requested(blocks) \cup {n + 1} /\ n + 1 \notin Requested(blocks)
        BY <1>1, <1>5 DEF Requested, n
    <2>2. Cardinality(Requested(more)) = Cardinality(Requested(blocks)) + 1
        BY <1>2, <2>1, FS_AddElement
    <2>3. {m \in 1..(n + 1) - 1 : more[m].asks # NoRequest} = Requested(blocks)
        BY <1>1 DEF Requested, n
    <2>4. Asked(more, n + 1)
          = [request |-> Cardinality(Requested(blocks)), number |-> block.asks]
        BY <1>1, <2>3 DEF Asked
    <2> QED BY <1>1, <1>2, <1>3, <1>5, <2>2, <2>4 DEF more, n
<1> QED BY <1>4, <1>5

LEMMA RangeGrows ==
    ASSUME NEW m \in Nat, NEW n \in Nat, m <= n
    PROVE  \A x \in 0..m - 1 : x \in 0..n - 1 /\ x < m
OBVIOUS

\* A request that is mined comes after all others.
LEMMA MineOnce ==
    ASSUME OnceInv, forks = 0, Mine
    PROVE  OnceInv'
<1>1. PICK asks \in Asks : Become(Append(chain, [fork |-> forks, asks |-> asks]), head + 1)
    BY DEF Mine
<1> DEFINE block == [fork |-> forks, asks |-> asks]
           new == [request |-> Issued, number |-> asks]
<1>2. block \in Block /\ block.asks = asks
    BY DEF Asks, NoRequest, Block
<1>3. /\ chain \in Seq(Block) /\ inbox \in Seq(Event) /\ InOrder
      /\ ~Subscribed => inbox = <<>>
    BY DEF OnceInv, OnceTypes
<1>4. /\ chain' = Append(chain, block)
      /\ inbox' = IF Subscribed THEN inbox \o Logs(chain, head + 1) \o Logs(Append(chain, block), head + 1)
                                ELSE inbox
      /\ UNCHANGED <<forks, stage, event, votes>>
    BY <1>1 DEF Become, Mine
<1> HIDE DEF block
<1>5. Logs(chain, head + 1) = <<>>
    BY <1>3, LastLogs DEF head
<1>6. /\ chain' \in Seq(Block) /\ Issued \in Nat
      /\ asks = NoRequest => Issued' = Issued /\ Logs(chain', head + 1) = <<>>
      /\ asks # NoRequest => Issued' = Issued + 1 /\ Logs(chain', head + 1) = <<new>>
    BY <1>2, <1>3, <1>4, OneMore DEF Issued, head
<1>7. /\ Issued' >= Issued /\ Issued' \in Nat
      /\ inbox' = inbox \/ (inbox' = Append(inbox, new) /\ Issued' = Issued + 1)
    <2>1. inbox \o <<>> = inbox /\ (inbox \o <<>>) \o <<>> = inbox
          /\ (inbox \o <<>>) \o <<new>> = Append(inbox, new)
        <3>1. inbox \o <<>> = inbox
            BY <1>3
        <3>2. inbox \o <<new>> = Append(inbox, new)
            BY <1>3
        <3> QED BY <3>1, <3>2
    <2>2. inbox' = inbox \/ inbox' = (inbox \o <<>>) \o Logs(chain', head + 1)
        BY <1>4, <1>5
    <2> HIDE DEF new
    <2>3. CASE asks = NoRequest
        <3>1. Logs(chain', head + 1) = <<>> /\ Issued' = Issued
            BY <1>6, <2>3
        <3>2. inbox' = inbox
            BY <2>1, <2>2, <3>1
        <3>3. Issued' \in Nat /\ Issued' >= Issued
            BY <1>6, <3>1
        <3> QED BY <3>2, <3>3
    <2>4. CASE asks # NoRequest
        <3>1. Logs(chain', head + 1) = <<new>> /\ Issued' = Issued + 1
            BY <1>6, <2>4
        <3>2. Issued' >= Issued /\ Issued' \in Nat
            BY <1>6, <3>1
        <3>3. inbox' = inbox \/ inbox' = (inbox \o <<>>) \o <<new>>
            BY <2>2, <3>1
        <3> QED BY <2>1, <3>1, <3>2, <3>3
    <2> QED BY <2>3, <2>4
<1>8. new \in Event /\ new.request = Issued
    BY <1>6 DEF Event, Asks, NoRequest
<1>9. CASE inbox' = inbox
    <2>1. Subscribed' = Subscribed /\ Handling' = Handling
        BY <1>4 DEF Subscribed, Handling
    <2>2. OnceTypes'
        BY <1>3, <1>4, <1>6, <1>9, <2>1 DEF OnceInv, OnceTypes
    <2>3. \A x \in 0..Issued - 1 : x \in 0..Issued' - 1
        <3> HIDE DEF Issued, new
        <3>1. Issued \in Nat /\ Issued' \in Nat /\ Issued <= Issued'
            BY <1>6, <1>7
        <3> QED BY <3>1, RangeGrows
    <2>4. InOrder'
        <3> HIDE DEF Issued, Handling
        <3> QED BY <1>3, <1>4, <1>9, <2>1, <2>3 DEF InOrder
    <2> QED BY <1>4, <2>2, <2>4 DEF OnceInv
<1>10. CASE inbox' = Append(inbox, new) /\ Issued' = Issued + 1 /\ Subscribed
    <2> DEFINE k == Len(inbox)
    <2> HIDE DEF new
    <2>1. /\ k \in Nat /\ inbox' \in Seq(Event) /\ DOMAIN inbox = 1..k /\ DOMAIN inbox' = 1..k + 1
          /\ \A n \in 1..k : inbox'[n] = inbox[n]
          /\ inbox'[k + 1] = new
        BY <1>3, <1>8, <1>10, AppendProperties, LenProperties
    <2>2. Subscribed' /\ Handling' = Handling
        BY <1>4, <1>10 DEF Subscribed, Handling
    <2>3. OnceTypes'
        BY <1>4, <1>6, <2>1, <2>2 DEF OnceInv, OnceTypes
    <2>4. \A x \in 0..Issued - 1 : x \in 0..Issued' - 1 /\ x < Issued
        <3>1. Issued \in Nat /\ Issued' \in Nat /\ Issued <= Issued'
            BY <1>6, <1>7
        <3> QED BY <3>1, RangeGrows
    <2> HIDE DEF k
    <2>5. \A n \in DOMAIN inbox' :
            \/ n \in DOMAIN inbox /\ inbox'[n] = inbox[n]
            \/ n = k + 1 /\ inbox'[n].request = Issued
        <3>1. \A n \in 1..k + 1 : n \in 1..k \/ n = k + 1
            BY <2>1
        <3> QED BY <1>8, <2>1, <3>1
    <2>6. /\ Issued \in 0..Issued' - 1
          /\ \A n \in DOMAIN inbox : n < k + 1 /\ k + 1 \notin DOMAIN inbox
        BY <1>6, <1>10, <2>1
    <2>7. InOrder'
        <3> HIDE DEF Issued, Handling
        <3>1. /\ \A n \in DOMAIN votes' : votes'[n].request \in 0..Issued' - 1
              /\ \A m, n \in DOMAIN votes' : m < n => votes'[m].request < votes'[n].request
            BY <1>3, <1>4, <2>4 DEF InOrder
        <3>2. \A n \in DOMAIN inbox' : inbox'[n].request \in 0..Issued' - 1
            BY <1>3, <2>4, <2>5, <2>6 DEF InOrder
        <3>3. ASSUME NEW m \in DOMAIN inbox', NEW n \in DOMAIN inbox', m < n
              PROVE  inbox'[m].request < inbox'[n].request
            <4>1. m \in DOMAIN inbox /\ inbox'[m] = inbox[m]
                BY <2>1, <3>3
            <4>2. CASE n \in DOMAIN inbox
                BY <1>3, <2>1, <3>3, <4>1, <4>2 DEF InOrder
            <4>3. CASE n = k + 1
                BY <1>3, <1>8, <2>1, <2>4, <4>1, <4>3 DEF InOrder
            <4> QED BY <2>5, <4>2, <4>3
        <3>4. \A m \in DOMAIN votes', n \in DOMAIN inbox' : votes'[m].request < inbox'[n].request
            BY <1>3, <1>4, <2>4, <2>5 DEF InOrder
        <3>5. Handling' =>
                /\ event'.request \in 0..Issued' - 1
                /\ \A n \in DOMAIN inbox' : event'.request < inbox'[n].request
            BY <1>3, <1>4, <2>2, <2>4, <2>5 DEF InOrder
        <3>6. stage' \in {"header", "confirmed"} =>
                \A m \in DOMAIN votes' : votes'[m].request < event'.request
            BY <1>3, <1>4 DEF InOrder
        <3> QED BY <3>1, <3>2, <3>3, <3>4, <3>5, <3>6 DEF InOrder
    <2> QED BY <1>4, <2>3, <2>7 DEF OnceInv
<1>11. inbox' = inbox \/ Subscribed
    BY <1>4
<1> QED BY <1>7, <1>9, <1>10, <1>11

LEMMA InitOnce == Init => OnceInv
<1> SUFFICES ASSUME Init PROVE OnceInv
    OBVIOUS
<1>1. chain \in Seq(Block) /\ inbox \in Seq(Event) /\ votes \in Seq({})
    BY DEF Init, Block, NoRequest
<1> QED BY <1>1 DEF Init, OnceInv, OnceTypes, InOrder, Handling

\* The first request in the queue is taken.
LEMMA HeaderOnce ==
    ASSUME OnceTypes, InOrder, HeaderByNumber
    PROVE  OnceTypes' /\ InOrder'
<1>1. UNCHANGED <<chain, votes>> /\ stage = "idle" /\ Issued' = Issued
    BY DEF HeaderByNumber, chainVars, Issued, Requested
<1>2. CASE End
    <2>1. /\ stage' = "ended" /\ inbox' = <<>> /\ ~Handling'
          /\ inbox' \in Seq(Event) /\ DOMAIN inbox' = {}
        BY <1>2 DEF End, Handling
    <2> QED BY <1>1, <2>1 DEF OnceTypes, InOrder
<1>3. CASE event' = Head(inbox) /\ inbox' = Tail(inbox) /\ stage' = "header" /\ inbox # <<>>
    <2> DEFINE k == Len(inbox)
    <2>1. /\ inbox \in Seq(Event) /\ k \in Nat \ {0} /\ DOMAIN inbox = 1..k
          /\ inbox' \in Seq(Event) /\ DOMAIN inbox' = 1..k - 1
          /\ \A n \in 1..k - 1 : inbox'[n] = inbox[n + 1]
          /\ event' = inbox[1]
        BY <1>3, EmptySeq, LenProperties, HeadTailProperties DEF OnceTypes
    <2>2. OnceTypes'
        BY <1>1, <1>3, <2>1 DEF OnceTypes, Subscribed
    <2> HIDE DEF k
    <2>3. \A n \in DOMAIN inbox' : n + 1 \in DOMAIN inbox /\ inbox'[n] = inbox[n + 1] /\ 1 < n + 1
        BY <2>1
    <2>4. 1 \in DOMAIN inbox /\ \A m, n \in DOMAIN inbox' : m < n => m + 1 < n + 1
        BY <2>1
    <2> HIDE DEF Issued
    <2>5. InOrder'
        BY <1>1, <1>3, <2>1, <2>3, <2>4 DEF InOrder
    <2> QED BY <2>2, <2>5
<1> QED BY <1>2, <1>3 DEF HeaderByNumber, Received

\* The vote that is signed comes after all others.
LEMMA SignOnce ==
    ASSUME OnceTypes, InOrder, Sign
    PROVE  OnceTypes' /\ InOrder'
<1> DEFINE vote == [request |-> event.request, hash |-> header]
           k == Len(votes)
<1>1. /\ UNCHANGED <<chain, inbox, event>> /\ stage = "confirmed" /\ stage' = "signed"
      /\ votes' = Append(votes, vote) /\ Issued' = Issued
    BY DEF Sign, chainVars, Issued, Requested
<1>2. PICK Signed : votes \in Seq(Signed)
    BY DEF OnceTypes
<1> DEFINE More == Signed \cup {vote}
<1>3. votes \in Seq(More) /\ vote \in More /\ vote.request = event.request
    BY <1>2, SeqMonotonic
<1> HIDE DEF vote, More
<1>4. /\ k \in Nat /\ votes' \in Seq(More) /\ DOMAIN votes' = 1..k + 1 /\ DOMAIN votes = 1..k
      /\ votes'[k + 1] = vote
      /\ \A n \in 1..k : votes'[n] = votes[n]
    BY <1>1, <1>3, AppendProperties, LenProperties
<1>5. OnceTypes'
    BY <1>1, <1>4 DEF OnceTypes, Subscribed
<1> HIDE DEF k, Issued
<1>6. \A n \in DOMAIN votes' :
        \/ n \in DOMAIN votes /\ votes'[n] = votes[n]
        \/ n = k + 1 /\ votes'[n].request = event.request
    <2>1. \A n \in 1..k + 1 : n \in 1..k \/ n = k + 1
        BY <1>4
    <2>2. votes'[k + 1].request = event.request
        BY <1>3, <1>4
    <2> QED BY <1>4, <2>1, <2>2
<1>7. InOrder'
    <2>1. /\ event.request \in 0..Issued - 1
          /\ \A n \in DOMAIN inbox : event.request < inbox[n].request
          /\ \A m \in DOMAIN votes : votes[m].request < event.request
        BY <1>1 DEF InOrder, Handling
    <2>2. ASSUME NEW m \in DOMAIN votes', NEW n \in DOMAIN votes', m < n
          PROVE  votes'[m].request < votes'[n].request
        <3>1. m \in DOMAIN votes /\ votes'[m] = votes[m]
            BY <1>4, <2>2
        <3> QED BY <1>6, <2>1, <2>2, <3>1 DEF InOrder
    <2>3. \A n \in DOMAIN votes' : votes'[n].request \in 0..Issued' - 1
        BY <1>1, <1>6, <2>1 DEF InOrder
    <2>4. \A m \in DOMAIN votes', n \in DOMAIN inbox' : votes'[m].request < inbox'[n].request
        BY <1>1, <1>6, <2>1 DEF InOrder
    <2> QED BY <1>1, <2>1, <2>2, <2>3, <2>4 DEF InOrder
<1> QED BY <1>5, <1>7

\* The other steps of the node drop requests or keep them.
LEMMA OtherOnce ==
    ASSUME OnceTypes, InOrder, Validate \/ BlockNumber \/ SendVote \/ Restart \/ UNCHANGED vars
    PROVE  OnceTypes' /\ InOrder'
<1>1. UNCHANGED <<chain, votes>>
    BY DEF Validate, BlockNumber, SendVote, Restart, vars, chainVars
<1>2. \/ inbox' = <<>> /\ stage' \in {"off", "idle", "ended"}
      \/ /\ UNCHANGED <<inbox, event>> /\ stage = "header" /\ stage' = "confirmed"
      \/ inbox' = inbox /\ Subscribed /\ stage' = "idle"
      \/ UNCHANGED <<inbox, event, stage>>
    BY DEF Validate, Backlog, BlockNumber, SendVote, Restart, End, Subscribed, vars
<1>3. Issued' = Issued
    BY <1>1 DEF Issued, Requested
<1>4. <<>> \in Seq(Event) /\ DOMAIN <<>> = {}
    OBVIOUS
<1>5. OnceTypes'
    BY <1>1, <1>2, <1>4 DEF OnceTypes, Subscribed
<1> HIDE DEF Issued
<1>6. InOrder'
    BY <1>1, <1>2, <1>3, <1>4 DEF InOrder, Handling
<1> QED BY <1>5, <1>6

\* While the chain only grows, a request is signed once.
THEOREM SignsOnce == Spec => []SignedOnce
<1>1. OnceInv => SignedOnce
    <2> SUFFICES ASSUME OnceInv, forks = 0, NEW m \in DOMAIN votes, NEW n \in DOMAIN votes,
                        votes[m].request = votes[n].request, m # n
                 PROVE  FALSE
        BY DEF SignedOnce
    <2>1. PICK Signed : votes \in Seq(Signed)
        BY DEF OnceInv, OnceTypes
    <2>2. m \in Int /\ n \in Int
        BY <2>1
    <2>3. /\ votes[m].request \in 0..Issued - 1 /\ votes[n].request \in 0..Issued - 1
          /\ m < n => votes[m].request < votes[n].request
          /\ n < m => votes[n].request < votes[m].request
        BY DEF OnceInv, InOrder
    <2> HIDE DEF Issued
    <2> QED BY <2>2, <2>3
<1>2. OnceInv /\ [Next]_vars => OnceInv'
    <2> SUFFICES ASSUME OnceInv, [Next]_vars PROVE OnceInv'
        OBVIOUS
    <2>1. CASE Reorganise
        <3>1. forks \in Nat /\ forks' = forks + 1
            BY <2>1 DEF Reorganise, OnceInv
        <3> QED BY <3>1 DEF OnceInv
    <2>2. CASE Mine
        <3>1. forks' = forks
            BY <2>2 DEF Mine
        <3> QED BY <2>2, <3>1, MineOnce DEF OnceInv
    <2>3. CASE Validate \/ HandleBlockRequestedEvent \/ Restart \/ UNCHANGED vars
        <3>1. forks' = forks
            BY <2>3 DEF Validate, HandleBlockRequestedEvent, HeaderByNumber, BlockNumber, Sign,
                SendVote, Restart, vars, chainVars
        <3> QED BY <2>3, <3>1, HeaderOnce, SignOnce, OtherOnce
                DEF OnceInv, HandleBlockRequestedEvent
    <2> QED BY <2>1, <2>2, <2>3 DEF Next
<1> QED BY <1>1, <1>2, InitOnce, PTL DEF Spec
============================================================================
