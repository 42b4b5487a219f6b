--------------------------- MODULE ZKAuditProofs ---------------------------
(***************************************************************************)
(* Safety of ZKAudit for every number of seats, requests, votes per answer, *)
(* users, keys, hashes and amounts.                                         *)
(*                                                                          *)
(* The inductive invariant is IInv.  QuorumBacked needs that an account's   *)
(* index is its position (SeatsInOrder), so that different indices in the   *)
(* aggregation circuit are different seats.  SeatsInOrder needs that        *)
(* filledSubtrees remembers the accounts in order, and that nobody is ever  *)
(* marked illegal: replace would otherwise write to a position its caller's *)
(* account does not name.                                                   *)
(*                                                                          *)
(* The simulator's invariant is SimInv: at each place of its script, the    *)
(* tree that it keeps is the contract's, or the one that the next proof     *)
(* turns the contract's into.                                               *)
(***************************************************************************)
EXTENDS OracleNetwork, Simulator, DataLemmas, TLAPS

\* What insert will rebuild the root from is in order, too.
InsertedInOrder == \A i \in 1..Len(inserted) : inserted[i].index = i - 1

\* No validator signs before the request is issued.
VotesForIssued == \A v \in votes : v.request < nextRequest

IInv ==
    /\ TypeOK
    /\ SeatsInOrder
    /\ InsertedInOrder
    /\ VotesForIssued
    /\ QuorumBacked
    /\ illegalAggregators = {}

USE CapacityAssumption, KeyAssumption, QuorumAssumption, RewardAssumption,
    AddressAssumption, HashAssumption, AmountAssumption, BoundAssumption

\* A funded transfer to an address leaves every balance a natural number.
LEMMA TransferType ==
    ASSUME NEW b \in [Addresses -> Nat], NEW from \in Addresses,
           NEW to \in Addresses \cup {NoAddress}, NEW amount \in Nat,
           CanTransfer(b, from, to, amount)
    PROVE  /\ to \in Addresses
           /\ Transferred(b, from, to, amount) \in [Addresses -> Nat]
BY DEF CanTransfer, Transferred

\* Rewards keep every account at its place and every empty leaf empty.
LEMMA RewardedInOrder ==
    ASSUME TypeOK, SeatsInOrder, NEW a \in Occupied(root), NEW V \in Validators,
           \A i \in 1..NumAccounts : V[i] \in Occupied(root)
    PROVE  LET next == Rewarded(root, a, V)
           IN  /\ next \in Roots
               /\ \A p \in Positions :
                    IF p < nextIndex THEN next[p] \in Account /\ next[p].index = p
                                     ELSE next[p] = ZeroLeaf
<1> DEFINE next == Rewarded(root, a, V)
<1>1. \A p \in Positions : AggregatorShare(a, p) \in Nat /\ ValidatorShare(V, p) \in Nat
    BY DEF AggregatorShare, ValidatorShare
<1>2. ASSUME NEW p \in Positions, p < nextIndex
      PROVE  next[p] \in Account /\ next[p].index = p
    <2>1. root[p] \in Account /\ root[p].index = p
        BY <1>2 DEF SeatsInOrder
    <2>2. next[p] = [root[p] EXCEPT !.balance = @ + (AggregatorShare(a, p) + ValidatorShare(V, p))]
        BY DEF Rewarded
    <2> QED BY <1>1, <2>1, <2>2 DEF Account
<1>3. ASSUME NEW p \in Positions, ~(p < nextIndex)
      PROVE  next[p] = ZeroLeaf
    <2>1. root[p] = ZeroLeaf
        BY <1>3 DEF SeatsInOrder
    <2>2. p \notin Occupied(root)
        BY <2>1 DEF Occupied, ZeroLeaf
    <2>3. AggregatorShare(a, p) = 0 /\ ValidatorShare(V, p) = 0
        BY <2>2 DEF AggregatorShare, ValidatorShare
    <2>4. next[p] = [root[p] EXCEPT !.balance = @ + (AggregatorShare(a, p) + ValidatorShare(V, p))]
        BY DEF Rewarded
    <2> QED BY <2>1, <2>3, <2>4 DEF ZeroLeaf
<1>4. next \in Roots
    <2>1. \A p \in Positions : next[p] \in Account \cup {ZeroLeaf}
        BY <1>2, <1>3
    <2> QED BY <2>1 DEF Roots, Rewarded
<1> QED BY <1>2, <1>3, <1>4

\* So does a slash.
LEMMA SlashedInOrder ==
    ASSUME TypeOK, SeatsInOrder, NEW accused \in Occupied(root), NEW slasher \in Occupied(root)
    PROVE  LET next == SlashedRoot(root, accused, slasher)
           IN  /\ next \in Roots
               /\ \A p \in Positions :
                    IF p < nextIndex THEN next[p] \in Account /\ next[p].index = p
                                     ELSE next[p] = ZeroLeaf
<1> DEFINE next == SlashedRoot(root, accused, slasher)
<1>1. \A p \in Occupied(root) : p \in Positions /\ p < nextIndex
    BY DEF Occupied, SeatsInOrder, ZeroLeaf
<1>2. /\ root[accused] \in Account /\ root[slasher] \in Account
      /\ root \in [Positions -> Account \cup {ZeroLeaf}]
    BY <1>1 DEF SeatsInOrder, TypeOK, Roots
<1>3. ASSUME NEW p \in Positions, p < nextIndex
      PROVE  next[p] \in Account /\ next[p].index = p
    <2>1. root[p] \in Account /\ root[p].index = p
        BY <1>3 DEF SeatsInOrder
    <2> QED BY <1>1, <1>2, <2>1 DEF SlashedRoot, Account
<1>4. ASSUME NEW p \in Positions, ~(p < nextIndex)
      PROVE  next[p] = ZeroLeaf
    <2>1. root[p] = ZeroLeaf /\ p # accused /\ p # slasher
        BY <1>1, <1>4 DEF SeatsInOrder
    <2> QED BY <1>2, <2>1 DEF SlashedRoot
<1>5. next \in Roots
    <2>1. \A p \in Positions : next[p] \in Account \cup {ZeroLeaf}
        BY <1>3, <1>4
    <2> QED BY <1>2, <2>1 DEF Roots, SlashedRoot
<1> QED BY <1>3, <1>4, <1>5

\* The seed is a multiple that the group has, at first and after an answer.
LEMMA SeedInGroup ==
    /\ 1 % SeedOrder \in 0..SeedOrder - 1
    /\ \A s, key \in Nat : NextSeed(s, key) \in 0..SeedOrder - 1
<1>1. \A n \in Nat : n % SeedOrder \in 0..SeedOrder - 1
    BY SeedAssumption
<1>2. \A s, key \in Nat : s * key \in Nat
    OBVIOUS
<1> QED BY <1>1, <1>2 DEF NextSeed

\* Requests, seats and tokens of the initial state.
LEMMA InitInv == Init => IInv
<1> SUFFICES ASSUME Init PROVE IInv
    OBVIOUS
<1>1. root = [p \in Positions |-> ZeroLeaf]
    BY DEF Init, EmptyRoot, InsertedRoot, Positions
<1>2. TypeOK
    <2>1. 0 \in Seats
        BY DEF Seats
    <2>2. seed \in 0..SeedOrder - 1
        BY SeedInGroup DEF Init
    <2> QED BY <1>1, <2>1, <2>2 DEF Init, TypeOK, Roots, Requests
<1>3. SeatsInOrder /\ InsertedInOrder
    BY <1>1 DEF Init, SeatsInOrder, InsertedInOrder, nextIndex, Positions
<1>4. VotesForIssued /\ QuorumBacked /\ illegalAggregators = {}
    BY DEF Init, VotesForIssued, QuorumBacked
<1> QED BY <1>2, <1>3, <1>4 DEF IInv

\* An action that touches neither leaves nor answers keeps all but the types.
LEMMA Frame ==
    ASSUME IInv, TypeOK',
           UNCHANGED <<root, inserted, blocks, illegalAggregators, votes>>,
           nextRequest' >= nextRequest
    PROVE  IInv'
<1>1. SeatsInOrder' /\ InsertedInOrder'
    BY DEF IInv, SeatsInOrder, InsertedInOrder, nextIndex
<1>2. VotesForIssued'
    <2>1. \A v \in votes : v.request \in Int /\ nextRequest \in Int /\ nextRequest' \in Int
        BY DEF IInv, TypeOK, Requests
    <2> QED BY <2>1 DEF IInv, VotesForIssued
<1>3. QuorumBacked' /\ illegalAggregators' = {}
    BY DEF IInv, QuorumBacked
<1> QED BY <1>1, <1>2, <1>3 DEF IInv

\* An action that rewrites leaves, and only leaves, of a tree in order.
LEMMA LeafFrame ==
    ASSUME IInv, TypeOK',
           \A p \in Positions :
               IF p < nextIndex THEN root'[p] \in Account /\ root'[p].index = p
                                ELSE root'[p] = ZeroLeaf,
           UNCHANGED <<inserted, nextRequest, blocks, illegalAggregators, votes>>
    PROVE  IInv'
<1>1. SeatsInOrder' /\ InsertedInOrder'
    BY DEF IInv, SeatsInOrder, InsertedInOrder, nextIndex
<1>2. VotesForIssued' /\ QuorumBacked' /\ illegalAggregators' = {}
    BY DEF IInv, VotesForIssued, QuorumBacked
<1> QED BY <1>1, <1>2 DEF IInv

\* getBlockByNumber: the draw names a seat, and votes stay for issued requests.
LEMMA RequestStep ==
    ASSUME IInv, NEW number \in Numbers, getBlockByNumber(number)
    PROVE  IInv'
<1>1. PICK aggregator \in Drawable :
        requestAggregators' = [requestAggregators EXCEPT ![nextRequest] = aggregator]
    BY DEF getBlockByNumber
<1>2. aggregator \in Seats
    BY DEF Drawable, Seats, IInv, TypeOK
<1>3. TypeOK'
    BY <1>1, <1>2, SMTT(60) DEF getBlockByNumber, IInv, TypeOK, Requests,
        seatVars, exitVars, tokenVars
<1>4. nextRequest' >= nextRequest
    BY DEF getBlockByNumber, IInv, TypeOK
<1> QED BY <1>3, <1>4, Frame DEF getBlockByNumber, seatVars

\* Sign: a vote more backs every answer that was backed before.
LEMMA SignStep ==
    ASSUME IInv, NEW p \in Positions, NEW r \in Requests, NEW hash \in Hashes, Sign(p, r, hash)
    PROVE  IInv'
<1> DEFINE vote == Vote(root[p], r, hash)
<1>1. root[p] \in Account
    BY DEF Sign, IInv, SeatsInOrder, Occupied, ZeroLeaf
<1>2. /\ vote \in [index : Positions, key : Keys, request : Requests, hash : Hashes]
      /\ vote.request < nextRequest
    BY <1>1 DEF Vote, Account, Sign, Requested
<1>3. votes' = votes \cup {vote}
    BY DEF Sign
<1>4. TypeOK'
    BY <1>2, <1>3 DEF Sign, IInv, TypeOK, ledgerVars, seatVars, exitVars, tokenVars
<1>5. SeatsInOrder' /\ InsertedInOrder' /\ illegalAggregators' = {}
    BY DEF Sign, IInv, SeatsInOrder, InsertedInOrder, nextIndex,
        ledgerVars, seatVars
<1>6. VotesForIssued'
    BY <1>2, <1>3 DEF Sign, IInv, VotesForIssued, ledgerVars
<1>7. QuorumBacked'
    BY <1>3 DEF Sign, IInv, QuorumBacked, ledgerVars
<1> QED BY <1>4, <1>5, <1>6, <1>7 DEF IInv

\* submitBlock: the panel the circuit checks backs the new answer, and the
\* rewards move no leaf.
LEMMA SubmitStep ==
    ASSUME IInv, NEW r \in Requests, NEW hash \in Hashes, NEW illegal \in BOOLEAN,
           submitBlock(r, hash, illegal)
    PROVE  IInv'
<1>1. PICK a \in Positions, V \in Validators :
        /\ AggregationProof(root, votes, r, hash, getAggregator(r), a, V)
        /\ root' = Rewarded(root, a, V)
        /\ seed' = NextSeed(seed, root[a].key)
    BY DEF submitBlock
<1>2. a \in Occupied(root) /\ \A i \in 1..NumAccounts : V[i] \in Occupied(root)
    BY <1>1 DEF AggregationProof
<1>3. /\ root' \in Roots
      /\ \A p \in Positions :
            IF p < nextIndex THEN root'[p] \in Account /\ root'[p].index = p
                             ELSE root'[p] = ZeroLeaf
    BY <1>1, <1>2, RewardedInOrder DEF IInv
<1>4. blocks' = [blocks EXCEPT ![r] = hash]
    BY DEF submitBlock
<1>5. TypeOK'
    <2>1. illegalBlocks' \in Seq(Hashes)
        BY DEF submitBlock, IInv, TypeOK
    <2>2. seed' \in 0..SeedOrder - 1
        <3>1. root[a].key \in Keys
            BY <1>2 DEF IInv, SeatsInOrder, Occupied, ZeroLeaf, Account
        <3>2. seed \in 0..SeedOrder - 1
            BY DEF IInv, TypeOK
        <3>3. root[a].key \in Nat
            BY <3>1, SeedAssumption, Zenon
        <3>4. seed \in Nat
            BY <3>2, SeedAssumption
        <3> QED BY <1>1, <3>3, <3>4, SeedInGroup
    <2>3. blocks' \in [Requests -> Hashes \cup {NoHash}]
        BY <1>4 DEF IInv, TypeOK
    <2> QED BY <1>3, <2>1, <2>2, <2>3 DEF submitBlock, IInv, TypeOK, seatVars, exitVars, tokenVars
<1>6. SeatsInOrder' /\ InsertedInOrder' /\ VotesForIssued' /\ illegalAggregators' = {}
    BY <1>3 DEF submitBlock, IInv, SeatsInOrder, InsertedInOrder, VotesForIssued, nextIndex, seatVars
<1>7. QuorumBacked'
    <2>1. \A i \in 1..NumAccounts : root[V[i]] \in Account /\ root[V[i]].index = V[i]
        BY <1>2 DEF IInv, SeatsInOrder, Occupied, ZeroLeaf
    <2>2. \A i, j \in 1..NumAccounts : i # j => V[i] # V[j]
        BY <1>1 DEF AggregationProof, Unlike
    <2>3. \A i \in 1..NumAccounts : \E k \in Keys :
            [index |-> V[i], key |-> k, request |-> r, hash |-> hash] \in votes
        BY <1>1, <2>1 DEF AggregationProof, Vote, Account
    <2>4. blocks'[r] = hash /\ \A q \in Requests : q # r => blocks'[q] = blocks[q]
        BY <1>4 DEF IInv, TypeOK
    <2>5. votes' = votes
        BY DEF submitBlock
    <2> QED BY <2>2, <2>3, <2>4, <2>5 DEF IInv, QuorumBacked
<1> QED BY <1>5, <1>6, <1>7 DEF IInv

\* slash: two leaves are rewritten in place.
LEMMA SlashStep ==
    ASSUME IInv, NEW r \in Requests, NEW accused \in Positions, NEW slasher \in Positions,
           slash(r, accused, slasher)
    PROVE  IInv'
<1>1. accused \in Occupied(root) /\ slasher \in Occupied(root)
    BY DEF slash, SlashingProof
<1>2. /\ root' \in Roots
      /\ \A p \in Positions :
            IF p < nextIndex THEN root'[p] \in Account /\ root'[p].index = p
                             ELSE root'[p] = ZeroLeaf
    BY <1>1, SlashedInOrder DEF slash, IInv
<1>3. TypeOK'
    BY <1>2 DEF slash, IInv, TypeOK, ledgerVars, seatVars, exitVars, tokenVars
<1> QED BY <1>2, <1>3, LeafFrame DEF slash, ledgerVars, seatVars

\* register: the tree is rebuilt from the leaves as they were inserted.
LEMMA RegisterStep ==
    ASSUME IInv, NEW sender \in Addresses, NEW key \in Keys, NEW balance \in Amounts,
           register(sender, key, balance)
    PROVE  IInv'
<1> DEFINE account == [index |-> nextIndex, key |-> key, balance |-> balance]
<1>1. /\ inserted' = Append(inserted, account)
      /\ root' = InsertedRoot(inserted')
      /\ nextIndex # Capacity
    BY DEF register, HasRoom
<1>2. nextIndex \in Positions /\ account \in Account /\ nextIndex \in Seats
    <2>1. nextIndex \in Nat /\ nextIndex <= Capacity
        BY DEF IInv, TypeOK, nextIndex
    <2>2. nextIndex \in Positions /\ nextIndex \in Seats
        BY <1>1, <2>1 DEF Positions, Seats
    <2>3. balance \in Nat
        OBVIOUS
    <2> QED BY <2>2, <2>3 DEF Account
<1>3. /\ inserted' \in Seq(Account)
      /\ Len(inserted') = Len(inserted) + 1
      /\ Len(inserted') <= Capacity
      /\ \A i \in 1..Len(inserted) : inserted'[i] = inserted[i]
      /\ inserted'[Len(inserted) + 1] = account
    BY <1>1, <1>2, SMTT(30) DEF IInv, TypeOK, nextIndex, Positions
<1>4. InsertedInOrder'
    <2>1. \A i \in 1..Len(inserted) : inserted'[i].index = i - 1
        BY <1>3 DEF IInv, InsertedInOrder
    <2>2. inserted'[Len(inserted) + 1].index = Len(inserted)
        BY <1>3 DEF nextIndex
    <2>3. Len(inserted) \in Nat
        BY DEF IInv, TypeOK
    <2> QED BY <1>3, <2>1, <2>2, <2>3 DEF InsertedInOrder
<1>5. ASSUME NEW p \in Positions, p < Len(inserted')
      PROVE  root'[p] \in Account /\ root'[p].index = p
    <2>1. root'[p] = inserted'[p + 1] /\ p + 1 \in 1..Len(inserted')
        <3>1. Len(inserted') \in Nat /\ p \in Nat
            BY <1>3 DEF Positions
        <3>2. root'[p] = IF p < Len(inserted') THEN inserted'[p + 1] ELSE ZeroLeaf
            BY <1>1 DEF InsertedRoot
        <3> QED BY <1>5, <3>1, <3>2
    <2>2. inserted'[p + 1] \in Account /\ inserted'[p + 1].index = p
        BY <1>3, <1>4, <2>1 DEF InsertedInOrder, Positions
    <2> QED BY <2>1, <2>2
<1>6. ASSUME NEW p \in Positions, ~(p < Len(inserted'))
      PROVE  root'[p] = ZeroLeaf
    BY <1>1, <1>6 DEF InsertedRoot
<1>7. SeatsInOrder'
    BY <1>5, <1>6 DEF SeatsInOrder, nextIndex
<1>8. TypeOK'
    <2>1. root' \in Roots
        <3>1. \A p \in Positions : root'[p] \in Account \cup {ZeroLeaf}
            BY <1>5, <1>6
        <3> QED BY <1>1, <3>1 DEF InsertedRoot, Roots
    <2>2. /\ accounts' \in [Seats -> Addresses \cup {NoAddress}]
          /\ ipAddr' \in [Seats -> Addresses \cup {NoAddress}]
        BY DEF register, IInv, TypeOK
    <2>3. accountNumber' = Len(inserted')
        BY <1>3 DEF register, IInv, TypeOK
    <2> QED BY <1>3, <2>1, <2>2, <2>3 DEF register, IInv, TypeOK, ledgerVars, exitVars, tokenVars
<1>9. VotesForIssued' /\ QuorumBacked' /\ illegalAggregators' = {}
    BY DEF register, IInv, VotesForIssued, QuorumBacked, ledgerVars
<1> QED BY <1>4, <1>7, <1>8, <1>9 DEF IInv

\* The path that replace verifies ends at the seat the caller names.
LEMMA ReplaceAim ==
    ASSUME IInv, NEW sender \in Addresses, NEW key \in Keys, NEW balance \in Amounts,
           NEW q \in Occupied(root), NEW p \in Positions,
           replace(sender, key, balance, root[q], p)
    PROVE  /\ q \in Positions /\ q < nextIndex
           /\ root[q] \in Account /\ root[q].index = q
           /\ p = q
<1>1. q \in Positions /\ q < nextIndex /\ root[q] \in Account /\ root[q].index = q
    BY DEF IInv, SeatsInOrder, Occupied, ZeroLeaf
<1>2. root[p] = root[q]
    BY DEF replace, IInv, Verify
<1>3. root[p].index = p
    BY <1>1, <1>2 DEF IInv, SeatsInOrder, Account, ZeroLeaf
<1> QED BY <1>1, <1>2, <1>3

\* replace: the verified claim names the position that is rewritten.
LEMMA ReplaceStep ==
    ASSUME IInv, NEW sender \in Addresses, NEW key \in Keys, NEW balance \in Amounts,
           NEW q \in Occupied(root), NEW p \in Positions,
           replace(sender, key, balance, root[q], p)
    PROVE  IInv'
<1> DEFINE claim == root[q]
           owner == accounts[claim.index]
           deposited == Transferred(balances, sender, Admin, balance)
           seated == [index |-> claim.index, key |-> key, balance |-> balance]
<1>1. q \in Positions /\ q < nextIndex /\ claim \in Account /\ claim.index = q
    BY ReplaceAim
<1>3. p = q
    BY ReplaceAim
<1>4. seated \in Account /\ seated.index = p /\ root' = [root EXCEPT ![p] = seated]
    BY <1>1, <1>3 DEF replace, RootFromPath, Account
<1>5. \A x \in Positions :
        IF x < nextIndex THEN root'[x] \in Account /\ root'[x].index = x
                         ELSE root'[x] = ZeroLeaf
    BY <1>1, <1>3, <1>4 DEF IInv, SeatsInOrder, TypeOK, Roots
<1>6. TypeOK'
    <2>1. root' \in Roots
        BY <1>4 DEF IInv, TypeOK, Roots
    <2>2. claim.index \in Seats
        BY <1>1 DEF Positions, Seats
    <2>3. balances' \in [Addresses -> Nat]
        <3>1. deposited \in [Addresses -> Nat]
            BY TransferType DEF replace, IInv, TypeOK
        <3>2. owner \in Addresses \cup {NoAddress} /\ claim.balance \in Nat
            BY <1>1, <2>2 DEF IInv, TypeOK, Account
        <3>3. /\ CanTransfer(deposited, sender, owner, claim.balance)
              /\ balances' = Transferred(deposited, sender, owner, claim.balance)
            BY DEF replace, Payee, Price
        <3> HIDE DEF deposited, owner, claim
        <3> QED BY <3>1, <3>2, <3>3, TransferType
    <2>4. accounts' \in [Seats -> Addresses \cup {NoAddress}]
        BY <2>2 DEF replace, IInv, TypeOK
    <2> QED BY <2>1, <2>3, <2>4 DEF replace, IInv, TypeOK, ledgerVars, exitVars
<1> HIDE DEF claim, owner, deposited, seated
<1> QED BY <1>5, <1>6, LeafFrame DEF replace, ledgerVars

\* exit: only the books of exits change.
LEMMA ExitStep ==
    ASSUME IInv, NEW sender \in Addresses, NEW p \in Positions, exit(sender, p)
    PROVE  IInv'
<1>1. root[p].index \in Seats
    BY DEF exit, IInv, SeatsInOrder, Occupied, ZeroLeaf, Positions, Seats
<1>2. timestamp + exitDelay \in Nat
    BY DEF IInv, TypeOK, timestamp, exitDelay
<1>3. TypeOK'
    BY <1>1, <1>2 DEF exit, IInv, TypeOK, ledgerVars, seatVars, tokenVars
<1>4. nextRequest' >= nextRequest
    BY DEF exit, IInv, TypeOK, ledgerVars
<1> QED BY <1>3, <1>4, Frame DEF exit, ledgerVars, seatVars

\* withdraw: the leaf is emptied in place, and the admin pays.
LEMMA WithdrawStep ==
    ASSUME IInv, NEW sender \in Addresses, NEW p \in Positions, withdraw(sender, p)
    PROVE  IInv'
<1> DEFINE account == root[p]
           emptied == [account EXCEPT !.balance = 0]
<1>1. p < nextIndex /\ account \in Account /\ account.index = p
    BY DEF withdraw, IInv, SeatsInOrder, Occupied, ZeroLeaf
<1>2. emptied \in Account /\ emptied.index = p
    BY <1>1 DEF Account
<1>3. root' = [root EXCEPT ![p] = emptied]
    BY DEF withdraw, RootFromPath
<1>4. \A x \in Positions :
        IF x < nextIndex THEN root'[x] \in Account /\ root'[x].index = x
                         ELSE root'[x] = ZeroLeaf
    <2> HIDE DEF emptied
    <2> QED BY <1>1, <1>2, <1>3 DEF IInv, SeatsInOrder, TypeOK, Roots
<1>5. TypeOK'
    <2>1. root' \in Roots
        <3> HIDE DEF emptied
        <3> QED BY <1>2, <1>3 DEF IInv, TypeOK, Roots
    <2>2. balances' \in [Addresses -> Nat]
        <3>1. account.balance \in Nat
            BY <1>1 DEF Account
        <3> QED BY <3>1, TransferType DEF withdraw, IInv, TypeOK
    <2>3. accounts' \in [Seats -> Addresses \cup {NoAddress}]
        BY DEF withdraw, IInv, TypeOK
    <2> QED BY <2>1, <2>2, <2>3 DEF withdraw, IInv, TypeOK, ledgerVars, exitVars
<1> QED BY <1>4, <1>5, LeafFrame DEF withdraw, ledgerVars

\* Mint, Burn and Mine touch neither leaves nor answers.
LEMMA SupplyStep ==
    ASSUME IInv, NEW a \in Addresses, NEW amount \in Supplies,
           Mint(a, amount) \/ Burn(a, amount)
    PROVE  IInv'
<1>1. balances' \in [Addresses -> Nat] /\ totalSupply' \in Int
    <2>1. amount \in Nat /\ balances \in [Addresses -> Nat] /\ totalSupply \in Int
        BY DEF IInv, TypeOK
    <2>2. CASE Mint(a, amount)
        BY <2>1, <2>2 DEF Mint
    <2>3. CASE Burn(a, amount)
        BY <2>1, <2>3 DEF Burn
    <2> QED BY <2>2, <2>3
<1>2. UNCHANGED <<root, ledgerVars, seatVars, exitVars, height, votes>>
    BY DEF Mint, Burn
<1>3. TypeOK'
    BY <1>1, <1>2 DEF IInv, TypeOK, ledgerVars, seatVars, exitVars
<1>4. nextRequest' >= nextRequest
    BY <1>2 DEF IInv, TypeOK, ledgerVars
<1> QED BY <1>2, <1>3, <1>4, Frame DEF ledgerVars, seatVars

\* Every step keeps the inductive invariant.
LEMMA NextInv == IInv /\ [Next]_vars => IInv'
<1> SUFFICES ASSUME IInv, [Next]_vars PROVE IInv'
    OBVIOUS
<1>1. CASE Answering
    <2>1. ASSUME NEW r \in Requests, submitInvalidProof(r) PROVE UNCHANGED vars
        BY <2>1 DEF submitInvalidProof
    <2>2. CASE UNCHANGED vars
        BY <2>2 DEF vars, ledgerVars, seatVars, exitVars, tokenVars, IInv, TypeOK, SeatsInOrder,
            InsertedInOrder, VotesForIssued, QuorumBacked, nextIndex
    <2> QED BY <1>1, <2>1, <2>2, RequestStep, SignStep, SubmitStep, SlashStep DEF Answering
<1>2. CASE Seating
    BY <1>2, RegisterStep, ReplaceStep, ExitStep, WithdrawStep DEF Seating
<1>3. CASE Supplying
    BY <1>3, SupplyStep DEF Supplying
<1>4. CASE Mine
    <2>1. TypeOK'
        <3>1. height' \in 0..MaxHeight
            BY <1>4 DEF Mine, IInv, TypeOK
        <3> QED BY <1>4, <3>1 DEF Mine, IInv, TypeOK, ledgerVars, seatVars, exitVars, tokenVars
    <2>2. nextRequest' >= nextRequest
        BY <1>4 DEF Mine, IInv, TypeOK, ledgerVars
    <2> QED BY <1>4, <2>1, <2>2, Frame DEF Mine, ledgerVars, seatVars
<1>5. CASE UNCHANGED vars
    BY <1>5 DEF vars, ledgerVars, seatVars, exitVars, tokenVars, IInv, TypeOK, SeatsInOrder,
        InsertedInOrder, VotesForIssued, QuorumBacked, nextIndex
<1> QED BY <1>1, <1>2, <1>3, <1>4, <1>5 DEF Next

\* The inductive invariant holds in every reachable state.
THEOREM Invariance == Spec => []IInv
BY InitInv, NextInv, PTL DEF Spec

\* Every variable keeps its type.
THEOREM TypeCorrect == Spec => []TypeOK
BY Invariance, PTL DEF IInv

\* Accounts stay at the position their leaf names.
THEOREM SeatsKeepOrder == Spec => []SeatsInOrder
BY Invariance, PTL DEF IInv

\* Each stored answer carries the votes of NumAccounts different seats.
THEOREM AnswersBacked == Spec => []QuorumBacked
BY Invariance, PTL DEF IInv

\* A request that was never issued is never answered.
THEOREM AnswersRequested == Spec => []OnlyIssuedAnswered
<1>1. IInv => OnlyIssuedAnswered
    <2> SUFFICES ASSUME IInv, NEW r \in Requests, blocks[r] # NoHash
                 PROVE  r < nextRequest
        BY DEF OnlyIssuedAnswered
    <2>1. PICK V \in Validators : \A i \in 1..NumAccounts : \E k \in Keys :
            [index |-> V[i], key |-> k, request |-> r, hash |-> blocks[r]] \in votes
        BY DEF IInv, QuorumBacked
    <2>2. 1 \in 1..NumAccounts
        OBVIOUS
    <2>3. PICK k \in Keys :
            [index |-> V[1], key |-> k, request |-> r, hash |-> blocks[r]] \in votes
        BY <2>1, <2>2
    <2> QED BY <2>3 DEF IInv, VotesForIssued
<1> QED BY <1>1, Invariance, PTL

\* A stored answer, and the aggregator drawn for an issued request, stay.
THEOREM AnswersStay == Spec => AnswersFinal
<1>1. IInv /\ [Next]_vars =>
        [\A r \in Requests :
            /\ blocks[r] # NoHash => blocks'[r] = blocks[r]
            /\ r < nextRequest => requestAggregators'[r] = requestAggregators[r]]_vars
    <2> SUFFICES ASSUME IInv, Next, NEW r \in Requests
                 PROVE  /\ blocks[r] # NoHash => blocks'[r] = blocks[r]
                        /\ r < nextRequest => requestAggregators'[r] = requestAggregators[r]
        OBVIOUS
    <2>1. blocks \in [Requests -> Hashes \cup {NoHash}] /\ nextRequest \in Nat
          /\ requestAggregators \in [Requests -> Seats]
        BY DEF IInv, TypeOK
    <2>2. ASSUME NEW number \in Numbers, getBlockByNumber(number)
          PROVE  /\ blocks' = blocks
                 /\ r < nextRequest => requestAggregators'[r] = requestAggregators[r]
        BY <2>1, <2>2 DEF getBlockByNumber, Requests
    <2>3. ASSUME NEW q \in Requests, NEW hash \in Hashes, NEW illegal \in BOOLEAN,
                 submitBlock(q, hash, illegal)
          PROVE  /\ blocks[r] # NoHash => blocks'[r] = blocks[r]
                 /\ requestAggregators' = requestAggregators
        BY <2>1, <2>3 DEF submitBlock, Pending
    <2>4. CASE UNCHANGED <<blocks, requestAggregators>>
        BY <2>4
    <2>5. CASE Answering
        <3>1. CASE \E p \in Positions, q \in Requests, hash \in Hashes : Sign(p, q, hash)
            BY <3>1 DEF Sign, ledgerVars
        <3>2. CASE \E q \in Requests : submitInvalidProof(q)
            BY <3>2 DEF submitInvalidProof, vars, ledgerVars
        <3>3. CASE \E q \in Requests, x, y \in Positions : slash(q, x, y)
            BY <3>3 DEF slash, ledgerVars
        <3>4. CASE \E number \in Numbers : getBlockByNumber(number)
            BY <2>2, <3>4
        <3>5. CASE \E q \in Requests, hash \in Hashes, illegal \in BOOLEAN :
                    submitBlock(q, hash, illegal)
            BY <2>3, <3>5
        <3> QED BY <2>5, <3>1, <3>2, <3>3, <3>4, <3>5 DEF Answering
    <2>6. CASE Seating
        <3>1. UNCHANGED ledgerVars
            <4>1. ASSUME NEW sender \in Addresses, NEW key \in Keys, NEW balance \in Amounts,
                         NEW q \in Occupied(root), NEW p \in Positions,
                         replace(sender, key, balance, root[q], p)
                  PROVE  UNCHANGED ledgerVars
                BY <4>1 DEF replace
            <4> QED BY <2>6, <4>1 DEF Seating, register, exit, withdraw
        <3> QED BY <2>4, <3>1 DEF ledgerVars
    <2>7. CASE Supplying \/ Mine
        BY <2>4, <2>7 DEF Supplying, Mint, Burn, Mine, ledgerVars
    <2> QED BY <2>5, <2>6, <2>7 DEF Next
<1> QED BY <1>1, Invariance, PTL DEF Spec, AnswersFinal

\* Nobody takes a seat whose owner withdrew.
THEOREM WithdrawnIsEmpty == Spec => SeatsStayEmpty
<1>1. IInv /\ [Next]_vars =>
        [\A i \in Seats : i < nextIndex /\ accounts[i] = NoAddress
                          => accounts'[i] = NoAddress]_vars
    <2> SUFFICES ASSUME IInv, Next, NEW i \in Seats, i < nextIndex, accounts[i] = NoAddress
                 PROVE  accounts'[i] = NoAddress
        OBVIOUS
    <2>1. accounts \in [Seats -> Addresses \cup {NoAddress}] /\ nextIndex \in Nat
        BY DEF IInv, TypeOK, nextIndex
    <2>2. ASSUME NEW sender \in Addresses, NEW key \in Keys, NEW balance \in Amounts,
                 register(sender, key, balance)
          PROVE  accounts'[i] = NoAddress
        BY <2>1, <2>2 DEF register
    <2>3. ASSUME NEW sender \in Addresses, NEW key \in Keys, NEW balance \in Amounts,
                 NEW q \in Occupied(root), NEW p \in Positions,
                 replace(sender, key, balance, root[q], p)
          PROVE  accounts'[i] = NoAddress
        <3>1. accounts[root[q].index] # NoAddress
            BY <2>3 DEF replace, CanTransfer, Payee
        <3>2. accounts' = [accounts EXCEPT ![root[q].index] = sender]
            BY <2>3 DEF replace
        <3> QED BY <2>1, <3>1, <3>2
    <2>4. ASSUME NEW sender \in Addresses, NEW p \in Positions, withdraw(sender, p)
          PROVE  accounts'[i] = NoAddress
        BY <2>1, <2>4 DEF withdraw
    <2>5. CASE UNCHANGED accounts
        BY <2>5
    <2>6. CASE Answering
        BY <2>5, <2>6 DEF Answering, getBlockByNumber, Sign, submitBlock, submitInvalidProof,
            slash, vars, seatVars
    <2>7. CASE Seating
        BY <2>2, <2>3, <2>4, <2>5, <2>7 DEF Seating, exit, seatVars
    <2>8. CASE Supplying \/ Mine
        BY <2>5, <2>8 DEF Supplying, Mint, Burn, Mine, seatVars
    <2> QED BY <2>6, <2>7, <2>8 DEF Next
<1> QED BY <1>1, Invariance, PTL DEF Spec, SeatsStayEmpty

\* Nobody owns a seat that is not registered yet.
Vacant == \A i \in Seats : i >= nextIndex => accounts[i] = NoAddress

\* register fills the first vacant seat, replace takes a registered one.
LEMMA VacantInv == Spec => []Vacant
<1>1. Init => Vacant
    BY DEF Init, Vacant
<1>2. IInv /\ Vacant /\ [Next]_vars => Vacant'
    <2> SUFFICES ASSUME IInv, Vacant, [Next]_vars
                 PROVE  Vacant'
        OBVIOUS
    <2>1. accounts \in [Seats -> Addresses \cup {NoAddress}] /\ nextIndex \in Nat
        BY DEF IInv, TypeOK, nextIndex
    <2>2. ASSUME NEW sender \in Addresses, NEW key \in Keys, NEW balance \in Amounts,
                 register(sender, key, balance)
          PROVE  Vacant'
        <3>1. nextIndex' = nextIndex + 1
            BY <2>2 DEF register, nextIndex, IInv, TypeOK
        <3>2. accounts' = [accounts EXCEPT ![nextIndex] = sender]
            BY <2>2 DEF register
        <3>3. \A i \in Seats : i \in Int
            BY DEF Seats
        <3>4. ASSUME NEW i \in Seats, i >= nextIndex + 1
              PROVE  i >= nextIndex /\ i # nextIndex
            BY <2>1, <3>3, <3>4
        <3>5. \A i \in Seats : i # nextIndex => accounts'[i] = accounts[i]
            BY <2>1, <3>2
        <3> QED BY <3>1, <3>4, <3>5 DEF Vacant
    <2>3. ASSUME NEW sender \in Addresses, NEW key \in Keys, NEW balance \in Amounts,
                 NEW q \in Occupied(root), NEW p \in Positions,
                 replace(sender, key, balance, root[q], p)
          PROVE  Vacant'
        <3>1. q \in Positions /\ q < nextIndex /\ root[q].index = q
            BY <2>3, ReplaceAim
        <3>2. accounts' = [accounts EXCEPT ![q] = sender] /\ nextIndex' = nextIndex
            BY <2>3, <3>1 DEF replace, nextIndex
        <3>3. \A i \in Seats : i \in Int
            BY DEF Seats
        <3>4. q \in Int
            BY <3>1 DEF Positions
        <3> QED BY <2>1, <3>1, <3>2, <3>3, <3>4 DEF Vacant
    <2>4. ASSUME NEW sender \in Addresses, NEW p \in Positions, withdraw(sender, p)
          PROVE  Vacant'
        BY <2>1, <2>4 DEF withdraw, Vacant, nextIndex
    <2>5. CASE UNCHANGED <<accounts, inserted>>
        BY <2>5 DEF Vacant, nextIndex
    <2>6. CASE Answering
        BY <2>5, <2>6 DEF Answering, getBlockByNumber, Sign, submitBlock, submitInvalidProof,
            slash, vars, seatVars
    <2>7. CASE Seating
        BY <2>2, <2>3, <2>4, <2>5, <2>7 DEF Seating, exit, seatVars
    <2>8. CASE Supplying \/ Mine
        BY <2>5, <2>8 DEF Supplying, Mint, Burn, Mine, seatVars
    <2>9. CASE UNCHANGED vars
        BY <2>5, <2>9 DEF vars, seatVars
    <2> QED BY <2>6, <2>7, <2>8, <2>9 DEF Next
<1> QED BY <1>1, <1>2, Invariance, PTL DEF Spec

\* Who gives up a seat is paid what it holds.
THEOREM StakesPaidOut == Spec => LeaverPaid
<1>1. IInv /\ Vacant /\ [Next]_vars =>
        [\A p \in Positions :
            LET owner == accounts[p] IN
            owner \notin {NoAddress, Admin} /\ accounts'[p] # owner
                => balances'[owner] = balances[owner] + root[p].balance]_vars
    <2> SUFFICES ASSUME IInv, Vacant, Next, NEW p \in Positions,
                        accounts[p] \notin {NoAddress, Admin}, accounts'[p] # accounts[p]
                 PROVE  balances'[accounts[p]] = balances[accounts[p]] + root[p].balance
        OBVIOUS
    <2> DEFINE owner == accounts[p]
    <2>1. /\ accounts \in [Seats -> Addresses \cup {NoAddress}]
          /\ balances \in [Addresses -> Nat]
          /\ nextIndex \in Nat
          /\ p \in Seats
          /\ owner \in Addresses
        BY DEF IInv, TypeOK, nextIndex, Positions, Seats
    <2>2. ASSUME NEW sender \in Addresses, NEW key \in Keys, NEW balance \in Amounts,
                 register(sender, key, balance)
          PROVE  FALSE
        <3>1. accounts' = [accounts EXCEPT ![nextIndex] = sender]
            BY <2>2 DEF register
        <3>2. p = nextIndex
            BY <2>1, <3>1
        <3> QED BY <2>1, <3>2 DEF Vacant
    <2>3. ASSUME NEW sender \in Addresses, NEW key \in Keys, NEW balance \in Amounts,
                 NEW q \in Occupied(root), NEW x \in Positions,
                 replace(sender, key, balance, root[q], x)
          PROVE  balances'[owner] = balances[owner] + root[p].balance
        <3> DEFINE deposited == Transferred(balances, sender, Admin, balance)
        <3>1. root[q].index = q /\ root[q].balance \in Nat
            BY <2>3, ReplaceAim DEF Account
        <3>2. accounts' = [accounts EXCEPT ![q] = sender]
              /\ balances' = Transferred(deposited, sender, accounts[q], root[q].balance)
            BY <2>3, <3>1 DEF replace, Payee, Price
        <3>3. p = q /\ sender # owner
            BY <2>1, <3>2
        <3>4. deposited \in [Addresses -> Nat]
            BY <2>1, <2>3, TransferType DEF replace
        <3>5. deposited[owner] = balances[owner]
            BY <2>1, <3>3 DEF Transferred
        <3>6. balances'[owner] = deposited[owner] + root[p].balance
            <4> HIDE DEF deposited
            <4> QED BY <2>1, <3>2, <3>3, <3>4 DEF Transferred
        <3> QED BY <3>5, <3>6
    <2>4. ASSUME NEW sender \in Addresses, NEW x \in Positions, withdraw(sender, x)
          PROVE  balances'[owner] = balances[owner] + root[p].balance
        <3>1. root[x].index = x /\ root[x].balance \in Nat
            BY <2>4 DEF withdraw, IInv, SeatsInOrder, Occupied, ZeroLeaf, Account
        <3>2. /\ accounts[x] = sender
              /\ accounts' = [accounts EXCEPT ![x] = NoAddress]
              /\ balances' = Transferred(balances, Admin, sender, root[x].balance)
            BY <2>4, <3>1 DEF withdraw
        <3>3. p = x /\ owner = sender
            BY <2>1, <3>2
        <3> QED BY <2>1, <3>1, <3>2, <3>3 DEF Transferred
    <2>5. CASE UNCHANGED accounts
        BY <2>5
    <2>6. CASE Answering
        BY <2>5, <2>6 DEF Answering, getBlockByNumber, Sign, submitBlock, submitInvalidProof,
            slash, vars, seatVars
    <2>7. CASE Seating
        BY <2>2, <2>3, <2>4, <2>5, <2>7 DEF Seating, exit, seatVars
    <2>8. CASE Supplying \/ Mine
        BY <2>5, <2>8 DEF Supplying, Mint, Burn, Mine, seatVars
    <2> QED BY <2>6, <2>7, <2>8 DEF Next
<1> QED BY <1>1, Invariance, VacantInv, PTL DEF Spec, LeaverPaid

\* In a full tree, a seat that keeps owner and key loses stake only by a
\* vote against a stored answer.
THEOREM DissentersOnly == Spec => OnlyDissentersLoseStake
<1>1. IInv /\ [Next]_vars =>
        [\A p \in Positions : Full /\ LosesStake(p) => Contradicted(p)]_vars
    <2> SUFFICES ASSUME IInv, Next, NEW p \in Positions, Full, LosesStake(p)
                 PROVE  Contradicted(p)
        OBVIOUS
    <2>1. /\ \A x \in Positions : root[x] \in Account /\ root[x].index = x
          /\ root \in [Positions -> Account]
        BY DEF IInv, TypeOK, SeatsInOrder, Full, Roots, Positions
    <2>2. root[p].balance \in Nat
        BY <2>1 DEF Account
    <2>3. root' # root
        BY <2>2 DEF LosesStake
    <2>4. ASSUME NEW r \in Requests, NEW hash \in Hashes, NEW illegal \in BOOLEAN,
                 submitBlock(r, hash, illegal)
          PROVE  FALSE
        <3>1. PICK a \in Positions, V \in Validators : root' = Rewarded(root, a, V)
            BY <2>4 DEF submitBlock
        <3>2. AggregatorShare(a, p) \in Nat /\ ValidatorShare(V, p) \in Nat
            BY DEF AggregatorShare, ValidatorShare
        <3>3. root'[p].balance = root[p].balance + (AggregatorShare(a, p) + ValidatorShare(V, p))
            BY <2>1, <3>1 DEF Rewarded, Account
        <3> QED BY <2>2, <3>2, <3>3 DEF LosesStake
    <2>5. ASSUME NEW r \in Requests, NEW accused \in Positions, NEW slasher \in Positions,
                 slash(r, accused, slasher)
          PROVE  Contradicted(p)
        <3>1. root' = SlashedRoot(root, accused, slasher)
            BY <2>5 DEF slash
        <3>2. p = accused
            <4>1. SUFFICES ASSUME p # accused PROVE FALSE
                OBVIOUS
            <4>2. root[accused].balance \in Nat
                BY <2>1 DEF Account
            <4>3. root'[p].balance = root[p].balance
                    \/ root'[p].balance = root[p].balance + root[accused].balance
                BY <2>1, <3>1, <4>1 DEF SlashedRoot, Account
            <4> QED BY <2>2, <4>2, <4>3 DEF LosesStake
        <3>3. PICK v \in votes : v.hash # blocks[r] /\ v = Vote(root[p], r, v.hash)
            BY <2>5, <3>2 DEF slash, SlashingProof
        <3>4. v.request = r
            BY <3>3 DEF Vote
        <3>5. blocks[r] # NoHash
            BY <2>5 DEF slash, Pending
        <3> QED BY <3>3, <3>4, <3>5 DEF Contradicted
    <2>6. ASSUME NEW sender \in Addresses, NEW key \in Keys, NEW balance \in Amounts,
                 NEW q \in Occupied(root), NEW x \in Positions,
                 replace(sender, key, balance, root[q], x)
          PROVE  FALSE
        <3>1. /\ balance >= root[q].balance /\ root[x] = root[q]
              /\ root' = [root EXCEPT ![x] =
                    [index |-> root[q].index, key |-> key, balance |-> balance]]
            BY <2>6 DEF replace, IInv, Verify, RootFromPath
        <3>2. p = x
            BY <2>1, <2>3, <2>2, <3>1 DEF LosesStake
        <3>3. root'[p].balance = balance /\ balance \in Nat
            BY <2>1, <3>1, <3>2
        <3> QED BY <2>2, <3>1, <3>2, <3>3 DEF LosesStake
    <2>7. ASSUME NEW sender \in Addresses, NEW x \in Positions, withdraw(sender, x)
          PROVE  FALSE
        <3>1. /\ root' = [root EXCEPT ![x] = [root[x] EXCEPT !.balance = 0]]
              /\ accounts' = [accounts EXCEPT ![x] = NoAddress]
              /\ accounts[x] = sender
            BY <2>1, <2>7 DEF withdraw, RootFromPath
        <3>2. p = x
            BY <2>1, <2>2, <3>1 DEF LosesStake
        <3>3. accounts'[p] = NoAddress
            <4>1. p \in Seats
                BY DEF Positions, Seats
            <4> QED BY <3>1, <3>2, <4>1 DEF IInv, TypeOK
        <3> QED BY <3>1, <3>2, <3>3 DEF LosesStake
    <2>8. CASE Answering
        <3>1. ASSUME NEW number \in Numbers, getBlockByNumber(number) PROVE root' = root
            BY <3>1 DEF getBlockByNumber
        <3>2. ASSUME NEW x \in Positions, NEW q \in Requests, NEW hash \in Hashes, Sign(x, q, hash)
              PROVE  root' = root
            BY <3>2 DEF Sign
        <3>3. ASSUME NEW q \in Requests, submitInvalidProof(q) PROVE root' = root
            BY <3>3 DEF submitInvalidProof, vars
        <3> QED BY <2>3, <2>4, <2>5, <2>8, <3>1, <3>2, <3>3 DEF Answering
    <2>9. CASE Seating
        <3>1. ASSUME NEW sender \in Addresses, NEW key \in Keys, NEW balance \in Amounts,
                     register(sender, key, balance)
              PROVE  FALSE
            BY <3>1 DEF register, Full, HasRoom
        <3>2. ASSUME NEW sender \in Addresses, NEW x \in Positions, exit(sender, x)
              PROVE  root' = root
            BY <3>2 DEF exit
        <3> QED BY <2>3, <2>6, <2>7, <2>9, <3>1, <3>2 DEF Seating
    <2>10. CASE Supplying \/ Mine
        BY <2>3, <2>10 DEF Supplying, Mint, Burn, Mine
    <2> QED BY <2>8, <2>9, <2>10 DEF Next
<1> QED BY <1>1, Invariance, PTL DEF Spec, OnlyDissentersLoseStake

\* The contract with its validators implements AuditLedger: requests map to
\* requests, votes to signatures, stored answers to answers, and what happens
\* to seats, stakes and tokens is invisible.
THEOREM LedgerImplemented == Spec => ImplementsLedger
<1> DEFINE signatures == {<<v.index, v.request, v.hash>> : v \in votes}
<1>1. Init => Ledger!Init
    BY DEF Init, Ledger!Init, Requests, Ledger!Requests
<1>2. IInv /\ [Next]_vars => [Ledger!Next]_(Ledger!vars)
    <2> SUFFICES ASSUME IInv, [Next]_vars PROVE [Ledger!Next]_(Ledger!vars)
        OBVIOUS
    <2>1. CASE UNCHANGED <<nextRequest, votes, blocks>>
        BY <2>1 DEF Ledger!vars
    <2>2. ASSUME NEW number \in Numbers, getBlockByNumber(number)
          PROVE  Ledger!Next
        <3>1. Ledger!Issue
            BY <2>2 DEF getBlockByNumber, Ledger!Issue
        <3> QED BY <3>1 DEF Ledger!Next
    <2>3. ASSUME NEW p \in Positions, NEW r \in Requests, NEW hash \in Hashes, Sign(p, r, hash)
          PROVE  Ledger!Next
        <3>1. root[p].index = p
            BY <2>3 DEF Sign, IInv, SeatsInOrder, Occupied, ZeroLeaf
        <3>2. votes' = votes \cup {Vote(root[p], r, hash)}
            BY <2>3 DEF Sign
        <3>3. signatures' = signatures \cup {<<p, r, hash>>}
            <4> DEFINE new == Vote(root[p], r, hash)
            <4>1. <<new.index, new.request, new.hash>> = <<p, r, hash>>
                BY <3>1 DEF Vote
            <4>2. votes' = votes \cup {new}
                BY <3>2
            <4> HIDE DEF new
            <4> QED BY <4>1, <4>2
        <3>4. Ledger!Sign(p, r, hash)
            BY <2>3, <3>3 DEF Sign, Requested, Ledger!Sign, ledgerVars
        <3>5. p \in 0..Capacity - 1 /\ r \in Ledger!Requests
            BY DEF Positions, Requests, Ledger!Requests
        <3> QED BY <3>4, <3>5 DEF Ledger!Next
    <2>4. ASSUME NEW r \in Requests, NEW hash \in Hashes, NEW illegal \in BOOLEAN,
                 submitBlock(r, hash, illegal)
          PROVE  Ledger!Next
        <3>1. PICK a \in Positions, V \in Validators :
                AggregationProof(root, votes, r, hash, getAggregator(r), a, V)
            BY <2>4 DEF submitBlock
        <3>2. \A i \in 1..NumAccounts : root[V[i]].index = V[i]
            BY <3>1 DEF AggregationProof, IInv, SeatsInOrder, Occupied, ZeroLeaf
        <3>3. \A i \in 1..NumAccounts : <<V[i], r, hash>> \in signatures
            <4>1. ASSUME NEW i \in 1..NumAccounts PROVE <<V[i], r, hash>> \in signatures
                <5>1. Vote(root[V[i]], r, hash) \in votes
                    BY <3>1 DEF AggregationProof
                <5>2. /\ Vote(root[V[i]], r, hash).index = V[i]
                      /\ Vote(root[V[i]], r, hash).request = r
                      /\ Vote(root[V[i]], r, hash).hash = hash
                    BY <3>2 DEF Vote
                <5> QED BY <5>1, <5>2
            <4> QED BY <4>1
        <3>4. \A i, j \in 1..NumAccounts : i # j => V[i] # V[j]
            BY <3>1 DEF AggregationProof, Unlike
        <3>5. Ledger!Agree(V, r, hash) /\ V \in Ledger!Panels
            BY <3>3, <3>4 DEF Ledger!Agree, Ledger!Panels, Validators, Positions
        <3>6. /\ blocks[r] = NoHash /\ blocks' = [blocks EXCEPT ![r] = hash]
              /\ nextRequest' = nextRequest /\ votes' = votes
            BY <2>4 DEF submitBlock, Pending
        <3>7. Ledger!Answer(r, hash)
            BY <3>5, <3>6 DEF Ledger!Answer
        <3>8. r \in Ledger!Requests
            BY DEF Requests, Ledger!Requests
        <3> QED BY <3>7, <3>8 DEF Ledger!Next
    <2>5. CASE Answering
        <3>1. CASE \E number \in Numbers : getBlockByNumber(number)
            BY <2>2, <3>1
        <3>2. CASE \E p \in Positions, r \in Requests, hash \in Hashes : Sign(p, r, hash)
            BY <2>3, <3>2
        <3>3. CASE \E r \in Requests, hash \in Hashes, illegal \in BOOLEAN :
                    submitBlock(r, hash, illegal)
            BY <2>4, <3>3
        <3>4. CASE \E r \in Requests : submitInvalidProof(r)
            BY <2>1, <3>4 DEF submitInvalidProof, vars, ledgerVars
        <3>5. CASE \E r \in Requests, x, y \in Positions : slash(r, x, y)
            BY <2>1, <3>5 DEF slash, ledgerVars
        <3> QED BY <2>5, <3>1, <3>2, <3>3, <3>4, <3>5 DEF Answering
    <2>6. CASE Seating
        <3>1. UNCHANGED <<ledgerVars, votes>>
            <4>1. ASSUME NEW sender \in Addresses, NEW key \in Keys, NEW balance \in Amounts,
                         NEW q \in Occupied(root), NEW p \in Positions,
                         replace(sender, key, balance, root[q], p)
                  PROVE  UNCHANGED <<ledgerVars, votes>>
                BY <4>1 DEF replace
            <4> QED BY <2>6, <4>1 DEF Seating, register, exit, withdraw
        <3> QED BY <2>1, <3>1 DEF ledgerVars
    <2>7. CASE Supplying \/ Mine \/ UNCHANGED vars
        BY <2>1, <2>7 DEF Supplying, Mint, Burn, Mine, vars, ledgerVars
    <2> QED BY <2>5, <2>6, <2>7 DEF Next
<1> QED BY <1>1, <1>2, Invariance, PTL DEF Spec, ImplementsLedger, Ledger!Spec
----------------------------------------------------------------------------
(* Stake.  A reward or a slash is a sum of terms that are constant on a set
   of seats; the seats of a panel are NumAccounts many because they differ. *)

LEMMA PositionsFinite == IsFiniteSet(Positions)
<1>1. 0 \in Int /\ Capacity - 1 \in Int
    OBVIOUS
<1> QED BY <1>1, FS_Interval DEF Positions

\* The stakes before a step and what the step adds to them add up to the
\* stakes after it.
LEMMA StakesAdd ==
    ASSUME NEW rt1 \in Roots, NEW rt2 \in Roots, NEW gain \in [Positions -> Int],
           \A p \in Positions : rt2[p].balance = rt1[p].balance + gain[p]
    PROVE  Stake(rt2) = Stake(rt1) + SumFunction(gain) /\ Stake(rt1) \in Int
<1> DEFINE held == [p \in Positions |-> rt1[p].balance]
           after == [p \in Positions |-> rt2[p].balance]
<1>1. \A rt \in Roots, p \in Positions : rt[p].balance \in Int
    BY DEF Roots, Account, ZeroLeaf
<1>2. held \in [Positions -> Int] /\ after \in [Positions -> Int]
    BY <1>1
<1>3. \A p \in Positions : after[p] = held[p] + gain[p]
    OBVIOUS
<1>4. IsFiniteSet(Positions)
    BY PositionsFinite
<1>5. Stake(rt1) = SumFunction(held) /\ Stake(rt2) = SumFunction(after)
    BY DEF Stake
<1> HIDE DEF held, after
<1> QED BY <1>2, <1>3, <1>4, <1>5, SumAdds, SumType

\* Validators with different seats are NumAccounts many.
LEMMA PanelSize ==
    ASSUME IInv, NEW V \in Validators, Unlike(root, V),
           \A i \in 1..NumAccounts : V[i] \in Occupied(root)
    PROVE  Cardinality({V[i] : i \in 1..NumAccounts}) = NumAccounts
<1> DEFINE panel == {V[i] : i \in 1..NumAccounts}
<1>1. V \in Bijection(1..NumAccounts, panel)
    BY DEF Unlike, Validators, Bijection, Injection, Surjection, IsInjective
<1>2. IsFiniteSet(1..NumAccounts) /\ Cardinality(1..NumAccounts) = NumAccounts
    <2>1. 1 \in Int /\ NumAccounts \in Int /\ NumAccounts >= 1
        OBVIOUS
    <2>2. /\ IsFiniteSet(1..NumAccounts)
          /\ Cardinality(1..NumAccounts) = IF 1 > NumAccounts THEN 0 ELSE NumAccounts - 1 + 1
        BY <2>1, FS_Interval, Zenon
    <2> QED BY <2>1, <2>2
<1> HIDE DEF panel
<1>3. ExistsBijection(1..NumAccounts, panel)
    BY <1>1 DEF ExistsBijection
<1>4. Cardinality(panel) = Cardinality(1..NumAccounts)
    BY <1>2, <1>3, FS_Bijection
<1> QED BY <1>2, <1>4 DEF panel

\* An answer adds the aggregator's and the validators' rewards.
LEMMA RewardsAdd ==
    ASSUME IInv, NEW a \in Occupied(root), NEW V \in Validators, Unlike(root, V),
           \A i \in 1..NumAccounts : V[i] \in Occupied(root)
    PROVE  Stake(Rewarded(root, a, V))
           = Stake(root) + AggregatorReward + NumAccounts * ValidatorReward
<1> DEFINE panel == {V[i] : i \in 1..NumAccounts}
           ofAggregator == [p \in Positions |-> AggregatorShare(a, p)]
           ofValidators == [p \in Positions |-> ValidatorShare(V, p)]
           gain == [p \in Positions |-> AggregatorShare(a, p) + ValidatorShare(V, p)]
<1>1. IsFiniteSet(Positions)
    BY PositionsFinite
<1>2. /\ ofAggregator \in [Positions -> Int] /\ ofValidators \in [Positions -> Int]
      /\ gain \in [Positions -> Int]
    BY DEF AggregatorShare, ValidatorShare
<1>3. SumFunction(ofAggregator) = AggregatorReward
    <2>1. {a} \in SUBSET Positions /\ Cardinality({a}) = 1
        BY FS_Singleton DEF Occupied
    <2>2. \A p \in Positions : ofAggregator[p] = IF p \in {a} THEN AggregatorReward ELSE 0
        BY DEF AggregatorShare
    <2> HIDE DEF ofAggregator
    <2>3. SumFunction(ofAggregator) = AggregatorReward * Cardinality({a})
        BY <1>1, <1>2, <2>1, <2>2, SumConstant
    <2> QED BY <2>1, <2>3
<1>4. SumFunction(ofValidators) = NumAccounts * ValidatorReward
    <2>1. panel \in SUBSET Positions
        BY DEF Validators
    <2>2. \A p \in Positions : ofValidators[p] = IF p \in panel THEN ValidatorReward ELSE 0
        BY DEF ValidatorShare
    <2>3. Cardinality(panel) = NumAccounts
        BY PanelSize
    <2> HIDE DEF ofValidators, panel
    <2>4. SumFunction(ofValidators) = ValidatorReward * Cardinality(panel)
        BY <1>1, <1>2, <2>1, <2>2, SumConstant
    <2>5. \A m, n \in Nat : m * n = n * m
        OBVIOUS
    <2> QED BY <2>3, <2>4, <2>5
<1>5. SumFunction(gain) = SumFunction(ofAggregator) + SumFunction(ofValidators)
    <2>1. \A p \in Positions : gain[p] = ofAggregator[p] + ofValidators[p]
        OBVIOUS
    <2> HIDE DEF gain, ofAggregator, ofValidators
    <2> QED BY <1>1, <1>2, <2>1, SumAdds
<1>6. root \in Roots /\ Rewarded(root, a, V) \in Roots
    BY RewardedInOrder DEF IInv, TypeOK
<1>7. \A p \in Positions : Rewarded(root, a, V)[p].balance = root[p].balance + gain[p]
    <2> SUFFICES ASSUME NEW p \in Positions
                 PROVE  Rewarded(root, a, V)[p].balance = root[p].balance + gain[p]
        OBVIOUS
    <2>1. root[p] \in Account \/ root[p] = ZeroLeaf
        BY <1>6 DEF Roots
    <2>2. Rewarded(root, a, V)[p] = [root[p] EXCEPT !.balance = root[p].balance + gain[p]]
        BY DEF Rewarded
    <2> HIDE DEF gain
    <2> QED BY <2>1, <2>2 DEF Account, ZeroLeaf
<1> HIDE DEF gain, ofAggregator, ofValidators, panel
<1>8. Stake(Rewarded(root, a, V)) = Stake(root) + SumFunction(gain) /\ Stake(root) \in Int
    BY <1>2, <1>6, <1>7, StakesAdd
<1> QED BY <1>3, <1>4, <1>5, <1>8

\* A slash moves stake and adds none.
LEMMA SlashMoves ==
    ASSUME IInv, NEW accused \in Occupied(root), NEW slasher \in Occupied(root)
    PROVE  Stake(SlashedRoot(root, accused, slasher)) = Stake(root)
<1> DEFINE stake == root[accused].balance
           lost == [p \in Positions |-> IF p \in {accused} THEN -stake ELSE 0]
           won == [p \in Positions |-> IF p \in {slasher} THEN stake ELSE 0]
           gain == [p \in Positions |-> lost[p] + won[p]]
<1>1. IsFiniteSet(Positions) /\ accused \in Positions /\ slasher \in Positions
    BY PositionsFinite DEF Occupied
<1>2. /\ root[accused] \in Account /\ root[slasher] \in Account
      /\ root \in [Positions -> Account \cup {ZeroLeaf}]
    BY <1>1 DEF IInv, SeatsInOrder, TypeOK, Roots, Occupied, ZeroLeaf
<1>3. /\ stake \in Nat /\ lost \in [Positions -> Int] /\ won \in [Positions -> Int]
      /\ gain \in [Positions -> Int]
    BY <1>2 DEF Account
<1>4. SumFunction(gain) = 0
    <2>1. SumFunction(lost) = (-stake) * Cardinality({accused})
        <3>1. {accused} \in SUBSET Positions /\ -stake \in Int
            BY <1>1, <1>3
        <3>2. \A p \in Positions : lost[p] = IF p \in {accused} THEN -stake ELSE 0
            OBVIOUS
        <3> HIDE DEF lost
        <3> QED BY <1>1, <1>3, <3>1, <3>2, SumConstant
    <2>2. SumFunction(won) = stake * Cardinality({slasher})
        <3>1. {slasher} \in SUBSET Positions /\ stake \in Int
            BY <1>1, <1>3
        <3>2. \A p \in Positions : won[p] = IF p \in {slasher} THEN stake ELSE 0
            OBVIOUS
        <3> HIDE DEF won
        <3> QED BY <1>1, <1>3, <3>1, <3>2, SumConstant
    <2>3. SumFunction(gain) = SumFunction(lost) + SumFunction(won)
        <3>1. \A p \in Positions : gain[p] = lost[p] + won[p]
            OBVIOUS
        <3> HIDE DEF gain, lost, won
        <3> QED BY <1>1, <1>3, <3>1, SumAdds
    <2>4. Cardinality({accused}) = 1 /\ Cardinality({slasher}) = 1
        BY FS_Singleton
    <2> HIDE DEF gain, lost, won
    <2> QED BY <1>3, <2>1, <2>2, <2>3, <2>4
<1>5. root \in Roots /\ SlashedRoot(root, accused, slasher) \in Roots
    BY SlashedInOrder DEF IInv, TypeOK
<1>6. \A p \in Positions :
        SlashedRoot(root, accused, slasher)[p].balance = root[p].balance + gain[p]
    <2> SUFFICES ASSUME NEW p \in Positions
                 PROVE  SlashedRoot(root, accused, slasher)[p].balance = root[p].balance + gain[p]
        OBVIOUS
    <2> DEFINE emptied == [root EXCEPT ![accused].balance = 0]
    <2>1. /\ emptied[p].balance = IF p = accused THEN 0 ELSE root[p].balance
          /\ emptied \in [Positions -> Account \cup {ZeroLeaf}]
          /\ emptied[slasher] \in Account
        BY <1>1, <1>2 DEF Account
    <2>2. SlashedRoot(root, accused, slasher) = [emptied EXCEPT ![slasher].balance = @ + stake]
        BY DEF SlashedRoot
    <2>3. SlashedRoot(root, accused, slasher)[p].balance
          = emptied[p].balance + IF p = slasher THEN stake ELSE 0
        <3> HIDE DEF emptied
        <3> QED BY <1>1, <1>3, <2>1, <2>2 DEF Account, ZeroLeaf
    <2>4. root[p].balance \in Nat
        BY <1>2 DEF Account, ZeroLeaf
    <2> QED BY <1>3, <2>1, <2>3, <2>4
<1> HIDE DEF gain
<1>7. Stake(SlashedRoot(root, accused, slasher)) = Stake(root) + SumFunction(gain)
      /\ Stake(root) \in Int
    BY <1>3, <1>5, <1>6, StakesAdd
<1> QED BY <1>4, <1>7

\* An answer mints exactly its rewards, and a slash mints nothing.
THEOREM RewardsMinted == Spec => RewardsExact
<1>1. IInv /\ [Next]_vars =>
        [/\ blocks' # blocks => Stake(root') = Stake(root) + AggregatorReward
                                                 + NumAccounts * ValidatorReward
         /\ \A r \in Requests, accused, slasher \in Positions :
                slash(r, accused, slasher) => Stake(root') = Stake(root)]_vars
    <2> SUFFICES ASSUME IInv, Next
                 PROVE  /\ blocks' # blocks => Stake(root') = Stake(root) + AggregatorReward
                                                               + NumAccounts * ValidatorReward
                        /\ \A r \in Requests, accused, slasher \in Positions :
                                slash(r, accused, slasher) => Stake(root') = Stake(root)
        OBVIOUS
    <2>1. ASSUME NEW r \in Requests, NEW hash \in Hashes, NEW illegal \in BOOLEAN,
                 submitBlock(r, hash, illegal)
          PROVE  Stake(root') = Stake(root) + AggregatorReward + NumAccounts * ValidatorReward
        <3>1. PICK a \in Positions, V \in Validators :
                /\ AggregationProof(root, votes, r, hash, getAggregator(r), a, V)
                /\ root' = Rewarded(root, a, V)
            BY <2>1 DEF submitBlock
        <3> QED BY <3>1, RewardsAdd DEF AggregationProof
    <2>2. ASSUME blocks' # blocks
          PROVE  \E r \in Requests, hash \in Hashes, illegal \in BOOLEAN :
                    submitBlock(r, hash, illegal)
        <3>1. CASE Answering
            BY <2>2, <3>1 DEF Answering, getBlockByNumber, Sign, submitInvalidProof, slash,
                ledgerVars, vars
        <3>2. CASE Seating
            <4>1. ASSUME NEW sender \in Addresses, NEW key \in Keys, NEW balance \in Amounts,
                         NEW q \in Occupied(root), NEW p \in Positions,
                         replace(sender, key, balance, root[q], p)
                  PROVE  UNCHANGED ledgerVars
                BY <4>1 DEF replace
            <4>2. UNCHANGED ledgerVars
                BY <3>2, <4>1 DEF Seating, register, exit, withdraw
            <4> QED BY <2>2, <4>2 DEF ledgerVars
        <3>3. CASE Supplying \/ Mine
            BY <2>2, <3>3 DEF Supplying, Mint, Burn, Mine, ledgerVars
        <3> QED BY <3>1, <3>2, <3>3 DEF Next
    <2>3. ASSUME NEW r \in Requests, NEW accused \in Positions, NEW slasher \in Positions,
                 slash(r, accused, slasher)
          PROVE  Stake(root') = Stake(root)
        <3>1. /\ accused \in Occupied(root) /\ slasher \in Occupied(root)
              /\ root' = SlashedRoot(root, accused, slasher)
            BY <2>3 DEF slash, SlashingProof
        <3> QED BY <3>1, SlashMoves
    <2> QED BY <2>1, <2>2, <2>3
<1> QED BY <1>1, Invariance, PTL DEF Spec, RewardsExact
----------------------------------------------------------------------------
(* Late proofs.  Proofs that are submitted late implement the contract in
   which proof and transaction are one step: what was proved for a root
   stays provable for that root, because votes are only added. *)

\* Every proof in flight proves its statement about the root it names.
ProofsHold ==
    \A f \in proofs :
        /\ f.request \in Requests /\ f.hash \in Hashes
        /\ f.a \in Positions /\ f.V \in Validators
        /\ AggregationProof(f.root, votes, f.request, f.hash, f.root[f.a].index, f.a, f.V)

\* So does every accusation, about the answer it names.
AccusationsHold ==
    \A f \in accusations :
        /\ f.request \in Requests /\ {f.accused, f.slasher} \subseteq Positions
        /\ SlashingProof(f.root, votes, f.request, f.stored, f.accused, f.slasher)

\* Votes are never taken back.
LEMMA VotesGrow == [Next]_vars => votes \subseteq votes'
BY ZenonT(60) DEF Next, Answering, Seating, Supplying, Mine, getBlockByNumber, Sign,
       submitBlock, submitInvalidProof, slash, register, replace, exit, withdraw, Mint,
       Burn, vars

\* What votes prove, more votes prove as well.
LEMMA MoreVotes ==
    ASSUME NEW V1, NEW V2, V1 \subseteq V2
    PROVE  /\ \A rt, r, h, index, a, V : AggregationProof(rt, V1, r, h, index, a, V)
                                         => AggregationProof(rt, V2, r, h, index, a, V)
           /\ \A rt, r, st, p, q : SlashingProof(rt, V1, r, st, p, q)
                                   => SlashingProof(rt, V2, r, st, p, q)
BY DEF AggregationProof, SlashingProof

\* A step with late proofs is a step of the contract.
LEMMA AtomicStep ==
    ASSUME ProofsHold, AccusationsHold, [NetNext]_netVars
    PROVE  [Next]_vars
<1>1. CASE \E r \in Requests, hash \in Hashes, a \in Positions, V \in Validators :
            ProcessVotes(r, hash, a, V)
    BY <1>1 DEF ProcessVotes
<1>2. ASSUME NEW f \in proofs, NEW illegal \in BOOLEAN, submitProof(f, illegal)
      PROVE  submitBlock(f.request, f.hash, illegal)
    <2>1. /\ f.a \in Positions /\ f.V \in Validators /\ f.root = root /\ f.seed = seed
          /\ AggregationProof(root, votes, f.request, f.hash, getAggregator(f.request), f.a, f.V)
        BY <1>2 DEF submitProof, Verifies, ProofsHold
    <2>2. root' = Rewarded(root, f.a, f.V) /\ seed' = NextSeed(seed, root[f.a].key)
        BY <1>2, <2>1 DEF submitProof
    <2> QED BY <1>2, <2>1, <2>2 DEF submitProof, submitBlock
<1>3. CASE \E f \in proofs, illegal \in BOOLEAN : submitProof(f, illegal)
    BY <1>2, <1>3 DEF ProofsHold, Next, Answering
<1>4. CASE \E r \in Requests, accused, slasher \in Positions :
            ProveSlashing(r, accused, slasher)
    BY <1>4 DEF ProveSlashing
<1>5. ASSUME NEW f \in accusations, slashProof(f)
      PROVE  slash(f.request, f.accused, f.slasher)
    BY <1>5 DEF slashProof, slash, Convicts, AccusationsHold
<1>6. CASE \E f \in accusations : slashProof(f)
    BY <1>5, <1>6 DEF AccusationsHold, Next, Answering
<1>7. CASE Unproved
    BY <1>7 DEF Unproved, Next, Answering
<1>8. CASE UNCHANGED netVars
    BY <1>8 DEF netVars
<1> QED BY <1>1, <1>3, <1>4, <1>6, <1>7, <1>8 DEF NetNext

\* Proofs in flight stay true of the root they name.
LEMMA FlightStep ==
    ASSUME ProofsHold, AccusationsHold, [NetNext]_netVars
    PROVE  ProofsHold' /\ AccusationsHold'
<1>1. votes \subseteq votes'
    BY AtomicStep, VotesGrow
<1>2. ASSUME NEW r \in Requests, NEW hash \in Hashes, NEW a \in Positions,
             NEW V \in Validators, ProcessVotes(r, hash, a, V)
      PROVE  ProofsHold' /\ AccusationsHold'
    <2>1. votes' = votes /\ accusations' = accusations
        BY <1>2 DEF ProcessVotes, vars
    <2>2. ASSUME NEW f \in proofs'
          PROVE  f \in proofs \/ (/\ f.root = root /\ f.request = r /\ f.hash = hash
                                  /\ f.a = a /\ f.V = V)
        BY <1>2, <2>2 DEF ProcessVotes
    <2>3. AggregationProof(root, votes, r, hash, root[a].index, a, V)
        BY <1>2 DEF ProcessVotes
    <2> QED BY <2>1, <2>2, <2>3 DEF ProofsHold, AccusationsHold
<1>3. ASSUME NEW r \in Requests, NEW accused \in Positions, NEW slasher \in Positions,
             ProveSlashing(r, accused, slasher)
      PROVE  ProofsHold' /\ AccusationsHold'
    <2>1. votes' = votes /\ proofs' = proofs
        BY <1>3 DEF ProveSlashing, vars
    <2>2. ASSUME NEW f \in accusations'
          PROVE  f \in accusations \/ (/\ f.root = root /\ f.request = r
                                       /\ f.stored = blocks[r]
                                       /\ f.accused = accused /\ f.slasher = slasher)
        BY <1>3, <2>2 DEF ProveSlashing
    <2>3. SlashingProof(root, votes, r, blocks[r], accused, slasher)
        BY <1>3 DEF ProveSlashing
    <2> QED BY <2>1, <2>2, <2>3 DEF ProofsHold, AccusationsHold
<1>4. CASE UNCHANGED <<proofs, accusations>>
    BY <1>1, <1>4, MoreVotes DEF ProofsHold, AccusationsHold
<1> QED BY <1>2, <1>3, <1>4 DEF NetNext, submitProof, slashProof, netVars

\* Safety of late proofs: the network's contract is the contract of module
\* ZKAudit, so what is proved of the latter holds with late, repeated and
\* lost submissions as well.
THEOREM LateProofsImplement == NetSpec => LateProofsHarmless
<1>1. NetInit => Init /\ ProofsHold /\ AccusationsHold
    BY DEF NetInit, ProofsHold, AccusationsHold
<1>2. ProofsHold /\ AccusationsHold /\ [NetNext]_netVars
      => (ProofsHold /\ AccusationsHold)' /\ [Next]_vars
    BY FlightStep, AtomicStep
<1> QED BY <1>1, <1>2, PTL DEF NetSpec, LateProofsHarmless, Spec

\* Every answer is backed by a quorum of votes when proofs are late, too.
THEOREM LateAnswersBacked == NetSpec => []QuorumBacked
BY LateProofsImplement, AnswersBacked, PTL DEF LateProofsHarmless
----------------------------------------------------------------------------
(* The simulator. *)

Simulations == {"OnlyContractCosts", "OnlyAggregationProof", "OnlySlashingProof"}
Created == createAccounts(privateKeys)

\* The accounts of the first k turns, as insert remembers them.
Enrolled(k) == [j \in 1..k |-> Created[j - 1]]

\* Where the script of the contract's calls stands, the client's copy is the
\* contract's tree, or what the next proof turns the tree into.
ContractInv ==
    /\ at \in 1..Len(SimulateContracts)
    /\ at <= 3 => state = Created
    /\ at <= 8 => \A p \in Positions : state[p].key = privateKeys[p]
    /\ at = 1 => /\ turn \in Positions
                 /\ inserted = Enrolled(turn) /\ root = InsertedRoot(inserted)
    /\ at \in {2, 3, 6, 9, 10, 11} => state = root
    /\ at \in {4, 5, 7, 8} => state = witness.post

\* A proof alone starts from new accounts.
ProofInv == at \in 1..2 /\ (at = 1 => state = Created)

\* Every account at its position.
Ordered(tree) == tree \in [Positions -> Account] /\ \A p \in Positions : tree[p].index = p

Client ==
    /\ privateKeys \in [Positions -> Keys]
    /\ Ordered(state)
    /\ IF mode = "OnlyContractCosts" THEN ContractInv ELSE ProofInv

SimInv ==
    /\ mode \in Simulations
    /\ outcome = "running" => Client
    /\ Provable

LEMMA CommitteeSize ==
    /\ NumAccounts \in Nat /\ NumAccounts > 1 /\ NumAccounts <= Capacity /\ Capacity = committeeSize
    /\ 0 \in Positions /\ 1 \in Positions /\ \A k \in 1..NumAccounts : k - 1 \in Positions
BY CommitteeAssumption DEF committeeSize, Positions

\* A credit changes a balance only, and
LEMMA PaidOnce ==
    ASSUME NEW l \in Account, NEW x \in Nat
    PROVE  /\ Paid(l, x) = [index |-> l.index, key |-> l.key, balance |-> l.balance + x]
           /\ Paid(l, x) \in Account /\ Paid(l, x).index = l.index /\ Paid(l, x).key = l.key
           /\ Paid(l, 0) = l
<1>1. l = [index |-> l.index, key |-> l.key, balance |-> l.balance] /\ l.balance \in Nat
    BY DEF Account
<1>2. \A amount \in Nat :
        Paid(l, amount) = [index |-> l.index, key |-> l.key, balance |-> l.balance + amount]
    BY <1>1 DEF Paid
<1>3. l.balance + x \in Nat /\ l.balance + 0 = l.balance /\ 0 \in Nat
    BY <1>1
<1>4. l.index \in Positions /\ l.key \in Keys
    BY DEF Account
<1>5. Paid(l, 0) = l
    BY <1>1, <1>2, <1>3
<1> QED BY <1>2, <1>3, <1>4, <1>5 DEF Account

\* credits to one account add up.
LEMMA PaidTwice ==
    ASSUME NEW l \in Account, NEW x \in Nat, NEW y \in Nat
    PROVE  Paid(Paid(l, x), y) = Paid(l, x + y)
<1>1. l.balance \in Nat
    BY DEF Account
<1>2. Paid(Paid(l, x), y)
        = [index |-> l.index, key |-> l.key, balance |-> (l.balance + x) + y]
    <2>1. Paid(l, x) = [index |-> l.index, key |-> l.key, balance |-> l.balance + x]
        BY PaidOnce
    <2>2. Paid(l, x) \in Account
        BY PaidOnce
    <2>3. Paid(l, x).index = l.index /\ Paid(l, x).key = l.key /\ Paid(l, x).balance = l.balance + x
        BY <2>1
    <2>4. Paid(Paid(l, x), y) = [index |-> Paid(l, x).index, key |-> Paid(l, x).key,
                                 balance |-> Paid(l, x).balance + y]
        BY <2>2, PaidOnce
    <2> QED BY <2>3, <2>4
<1>3. (l.balance + x) + y = l.balance + (x + y) /\ x + y \in Nat
    BY <1>1
<1>4. Paid(l, x + y) = [index |-> l.index, key |-> l.key, balance |-> l.balance + (x + y)]
    BY <1>3, PaidOnce
<1> QED BY <1>2, <1>3, <1>4

\* The tree after the first k accounts are credited as validators.
Credited(tree, k) ==
    [p \in Positions |-> Paid(tree[p], IF p < k THEN ValidatorReward ELSE 0)]

LEMMA CreditOne ==
    ASSUME NEW tree, Ordered(tree), NEW k \in 1..NumAccounts
    PROVE  /\ Credited(tree, 0) = tree
           /\ WriteAccount(Credited(tree, k - 1), Paid(Credited(tree, k - 1)[k - 1], ValidatorReward))
                = Credited(tree, k)
           /\ RootFromPath(Credited(tree, k - 1), k - 1,
                           Paid(Credited(tree, k - 1)[k - 1], ValidatorReward))
                = Credited(tree, k)
<1> DEFINE p == k - 1
           before == Credited(tree, k - 1)
           after == Paid(before[p], ValidatorReward)
<1>1. p \in Positions /\ p \in Nat /\ Positions \subseteq Nat
    BY CommitteeSize DEF Positions
<1>2. \A q \in Positions : tree[q] \in Account /\ tree[q].index = q
    BY DEF Ordered
<1>3. ASSUME NEW q \in Positions PROVE Paid(tree[q], 0) = tree[q]
    BY <1>2, PaidOnce
<1>4. Credited(tree, 0) = tree
    <2>1. \A q \in Positions : ~(q < 0)
        BY <1>1
    <2> QED BY <1>3, <2>1 DEF Credited, Ordered
<1>5. before[p] = tree[p]
    <2>1. ~(p < k - 1)
        BY <1>1
    <2> QED BY <1>1, <1>3, <2>1 DEF Credited
<1>6. after = Paid(tree[p], ValidatorReward) /\ after.index = p
    BY <1>1, <1>2, <1>5, PaidOnce
<1>7. [before EXCEPT ![p] = after] = Credited(tree, k)
    <2>1. \A q \in Positions : q # p => (q < k - 1 <=> q < k)
        BY <1>1
    <2>2. p < k
        BY <1>1
    <2> HIDE DEF p, after
    <2> QED BY <1>1, <1>6, <2>1, <2>2 DEF Credited
<1> HIDE DEF before, after
<1> QED BY <1>4, <1>6, <1>7 DEF WriteAccount, RootFromPath, before, after

\* What the loop of AssignValidatorConstraints claims and leaves.
LEMMA ValidatorsAssigned ==
    ASSUME NEW tree, Ordered(tree)
    PROVE  LET assigned == AssignValidatorConstraints(tree)
           IN  /\ assigned.tree = Credited(tree, NumAccounts)
               /\ assigned.claims =
                    [k \in 1..NumAccounts |->
                        Claim(Credited(tree, k - 1), k - 1,
                              Paid(Credited(tree, k - 1)[k - 1], ValidatorReward))]
<1> DEFINE Once(c, k) == WriteAccount(c[k - 1], Paid(c[k - 1][k - 1], ValidatorReward))
           Rule(c) == [k \in 0..NumAccounts |-> IF k = 0 THEN tree ELSE
                            WriteAccount(c[k - 1], Paid(c[k - 1][k - 1], ValidatorReward))]
           credited == CHOOSE c : c = Rule(c)
           upTo == [k \in 0..NumAccounts |-> Credited(tree, k)]
<1>1. NumAccounts \in Nat /\ NumAccounts > 1 /\ \A k \in 0..NumAccounts : k # 0 => k \in 1..NumAccounts /\ k - 1 \in 0..NumAccounts
    BY CommitteeSize
<1>2. 1 \in 1..NumAccounts
    BY <1>1
<1>3. upTo = Rule(upTo)
    <2>1. Credited(tree, 0) = tree
        BY <1>2, CreditOne
    <2>2. ASSUME NEW k \in 0..NumAccounts, k # 0
          PROVE  Credited(tree, k) = WriteAccount(upTo[k - 1], Paid(upTo[k - 1][k - 1], ValidatorReward))
        <3>1. k \in 1..NumAccounts /\ upTo[k - 1] = Credited(tree, k - 1)
            BY <1>1, <2>2
        <3> QED BY <3>1, CreditOne
    <2> QED BY <2>1, <2>2
<1>4. credited = Rule(credited)
    <2> HIDE DEF Rule, upTo
    <2> QED BY <1>3
<1>5. /\ AssignValidatorConstraints(tree).tree = credited[NumAccounts]
      /\ AssignValidatorConstraints(tree).claims =
            [k \in 1..NumAccounts |->
                Claim(credited[k - 1], k - 1, Paid(credited[k - 1][k - 1], ValidatorReward))]
    BY DEF AssignValidatorConstraints
<1> HIDE DEF credited
<1> DEFINE Holds == {k \in Nat : k <= NumAccounts => credited[k] = Credited(tree, k)}
<1>6. 0 \in Holds
    <2>1. 0 \in 0..NumAccounts /\ credited[0] = tree
        BY <1>1, <1>4
    <2> QED BY <1>2, <2>1, CreditOne
<1>7. ASSUME NEW k \in Nat, k \in Holds PROVE k + 1 \in Holds
    <2> SUFFICES ASSUME k + 1 <= NumAccounts PROVE credited[k + 1] = Credited(tree, k + 1)
        OBVIOUS
    <2>1. k + 1 \in 1..NumAccounts /\ k + 1 \in 0..NumAccounts /\ k + 1 # 0 /\ (k + 1) - 1 = k
          /\ k <= NumAccounts
        BY <1>1
    <2>2. credited[k] = Credited(tree, k)
        BY <1>7, <2>1
    <2>3. credited[k + 1] = WriteAccount(credited[k], Paid(credited[k][k], ValidatorReward))
        BY <1>4, <2>1
    <2>4. WriteAccount(Credited(tree, (k + 1) - 1), Paid(Credited(tree, (k + 1) - 1)[(k + 1) - 1], ValidatorReward))
            = Credited(tree, k + 1)
        BY <2>1, CreditOne
    <2> QED BY <2>1, <2>2, <2>3, <2>4
<1>8. \A k \in 0..NumAccounts : credited[k] = Credited(tree, k)
    <2>1. \A k \in Nat : k \in Holds => k + 1 \in Holds
        BY <1>7
    <2> HIDE DEF Holds
    <2>2. Nat \subseteq Holds
        BY <1>6, <2>1, Induction
    <2> QED BY <1>1, <2>2 DEF Holds
<1>9. \A k \in 1..NumAccounts : k - 1 \in 0..NumAccounts
    BY <1>1
<1>10. credited[NumAccounts] = Credited(tree, NumAccounts)
    BY <1>1, <1>8
<1> QED BY <1>5, <1>8, <1>9, <1>10

\* The part of Satisfied that is about the paths of a witness w.
Chained(w) ==
    LET claims == w.claims
        Left(n) == RootFromPath(claims[n].tree, claims[n].p, claims[n].after) IN
    /\ claims[1].tree = w.pre
    /\ \A n \in DOMAIN claims : claims[n].tree[claims[n].p] = claims[n].leaf
    /\ \A n \in 1..Len(claims) - 1 : claims[n + 1].tree = Left(n)
    /\ w.post = Left(Len(claims))

\* Writing an account back to its place, with another balance.
LEMMA WriteBack ==
    ASSUME NEW tree, Ordered(tree), NEW p \in Positions, NEW leaf \in Account,
           leaf.index = p, leaf.key = tree[p].key
    PROVE  /\ WriteAccount(tree, leaf) = [tree EXCEPT ![p] = leaf]
           /\ RootFromPath(tree, p, leaf) = [tree EXCEPT ![p] = leaf]
           /\ Ordered([tree EXCEPT ![p] = leaf])
           /\ \A q \in Positions : [tree EXCEPT ![p] = leaf][q].key = tree[q].key
BY DEF Ordered, WriteAccount, RootFromPath

LEMMA CreditedOrdered ==
    ASSUME NEW tree, Ordered(tree), NEW k \in 0..NumAccounts
    PROVE  /\ Ordered(Credited(tree, k))
           /\ \A p \in Positions : Credited(tree, k)[p].key = tree[p].key
<1>1. ASSUME NEW p \in Positions
      PROVE  /\ Credited(tree, k)[p] \in Account /\ Credited(tree, k)[p].index = p
             /\ Credited(tree, k)[p].key = tree[p].key
    <2> DEFINE share == IF p < k THEN ValidatorReward ELSE 0
    <2>1. Credited(tree, k)[p] = Paid(tree[p], share) /\ share \in Nat
        BY DEF Credited
    <2>2. tree[p] \in Account /\ tree[p].index = p
        BY DEF Ordered
    <2> HIDE DEF share
    <2> QED BY <2>1, <2>2, PaidOnce
<1>2. Credited(tree, k) = [p \in Positions |-> Credited(tree, k)[p]]
    BY DEF Credited
<1> QED BY <1>1, <1>2 DEF Ordered

\* The witness of an aggregation: the aggregator's claim, whose balance is
\* zero as the circuit takes it to be, and the validators' claims.
AggregationWitness(tree, a) ==
    LET unpaid == [tree[a] EXCEPT !.balance = 0]
        assigned == AssignValidatorConstraints(
                        WriteAccount(tree, Paid(tree[a], AggregatorReward))) IN
    [pre |-> tree, post |-> assigned.tree,
     claims |-> <<[tree |-> tree, p |-> a, leaf |-> unpaid,
                   after |-> Paid(unpaid, AggregatorReward)]>> \o assigned.claims]

\* A sequence is a function on its indices.
LEMMA SequenceTable ==
    ASSUME NEW S, NEW s \in Seq(S)
    PROVE  s = [j \in 1..Len(s) |-> s[j]]
<1>1. s \in [1..Len(s) -> S]
    OBVIOUS
<1> QED BY <1>1

\* An element before a sequence.
LEMMA Prefixed ==
    ASSUME NEW S, NEW e \in S, NEW f \in Seq(S)
    PROVE  /\ Len(<<e>> \o f) = Len(f) + 1 /\ DOMAIN (<<e>> \o f) = 1..Len(f) + 1
           /\ (<<e>> \o f)[1] = e
           /\ \A k \in 1..Len(f) : (<<e>> \o f)[k + 1] = f[k]
<1>1. <<e>> \o f \in Seq(S) /\ Len(<<e>> \o f) = Len(f) + 1
    OBVIOUS
<1>2. (<<e>> \o f)[1] = e
    OBVIOUS
<1>3. ASSUME NEW k \in 1..Len(f) PROVE (<<e>> \o f)[k + 1] = f[k]
    OBVIOUS
<1>4. DOMAIN (<<e>> \o f) = 1..Len(f) + 1
    BY <1>1
<1> QED BY <1>1, <1>2, <1>3, <1>4

\* The first NumAccounts seats, which vote.
FirstVoters == [n \in 1..NumAccounts |-> n - 1]

LEMMA AggregationChained ==
    ASSUME NEW tree, Ordered(tree), NEW a \in Positions, tree[a].balance = 0
    PROVE  LET w == AggregationWitness(tree, a)
           IN  /\ Chained(w) /\ w.pre = tree
               /\ w.post = Rewarded(tree, a, FirstVoters)
               /\ Ordered(w.post)
               /\ \A p \in Positions : w.post[p].key = tree[p].key
<1> DEFINE paid == Paid(tree[a], AggregatorReward)
           after == [tree EXCEPT ![a] = paid]
           Credit(k) == Paid(Credited(after, k - 1)[k - 1], ValidatorReward)
           rest == [k \in 1..NumAccounts |-> Claim(Credited(after, k - 1), k - 1, Credit(k))]
           first == [tree |-> tree, p |-> a, leaf |-> tree[a], after |-> paid]
           claims == <<first>> \o rest
           w == [pre |-> tree, post |-> Credited(after, NumAccounts), claims |-> claims]
<1>1. /\ tree[a] \in Account /\ tree[a].index = a
      /\ [tree[a] EXCEPT !.balance = 0] = tree[a]
    <2>1. tree[a] \in Account /\ tree[a].index = a
        BY DEF Ordered
    <2>2. tree[a] = [index |-> tree[a].index, key |-> tree[a].key, balance |-> tree[a].balance]
        BY <2>1 DEF Account
    <2>3. [[index |-> tree[a].index, key |-> tree[a].key, balance |-> tree[a].balance]
             EXCEPT !.balance = 0]
            = [index |-> tree[a].index, key |-> tree[a].key, balance |-> 0]
        OBVIOUS
    <2> QED BY <2>1, <2>2, <2>3
<1>2. paid \in Account /\ paid.index = a /\ paid.key = tree[a].key
    BY <1>1, PaidOnce
<1>3. /\ WriteAccount(tree, paid) = after /\ RootFromPath(tree, a, paid) = after
      /\ Ordered(after) /\ \A p \in Positions : after[p].key = tree[p].key
    <2> HIDE DEF paid
    <2> QED BY <1>2, WriteBack
<1>4. AggregationWitness(tree, a) = w
    <2> HIDE DEF paid, after
    <2>1. AssignValidatorConstraints(after).tree = Credited(after, NumAccounts)
        BY <1>3, ValidatorsAssigned
    <2>2. AssignValidatorConstraints(after).claims = rest
        BY <1>3, ValidatorsAssigned
    <2>3. [tree[a] EXCEPT !.balance = 0] = tree[a] /\ Paid([tree[a] EXCEPT !.balance = 0], AggregatorReward) = paid
        BY <1>1 DEF paid
    <2>4. WriteAccount(tree, Paid(tree[a], AggregatorReward)) = after
        BY <1>3 DEF paid
    <2> HIDE DEF rest
    <2> QED BY <2>1, <2>2, <2>3, <2>4 DEF AggregationWitness
<1>5. /\ Len(claims) = NumAccounts + 1 /\ DOMAIN claims = 1..NumAccounts + 1
      /\ claims[1] = first
      /\ \A k \in 1..NumAccounts : claims[k + 1] = rest[k]
    <2> DEFINE S == {first} \cup {rest[k] : k \in 1..NumAccounts}
    <2>1. rest \in [1..NumAccounts -> S] /\ first \in S /\ NumAccounts \in Nat
        BY CommitteeSize
    <2> HIDE DEF rest, first, S
    <2>2. rest \in Seq(S) /\ Len(rest) = NumAccounts
        BY <2>1
    <2> QED BY <2>1, <2>2, Prefixed
<1>6. \A k \in 1..NumAccounts :
        /\ claims[k + 1].tree = Credited(after, k - 1) /\ claims[k + 1].p = k - 1
        /\ claims[k + 1].leaf = Credited(after, k - 1)[k - 1] /\ claims[k + 1].after = Credit(k)
    <2> HIDE DEF after, first, claims, Credit
    <2>1. \A k \in 1..NumAccounts :
            claims[k + 1] = Claim(Credited(after, k - 1), k - 1, Credit(k))
        BY <1>5
    <2> HIDE DEF rest
    <2>2. \A k \in 1..NumAccounts :
            LET c == Claim(Credited(after, k - 1), k - 1, Credit(k))
            IN  /\ c.tree = Credited(after, k - 1) /\ c.p = k - 1
                /\ c.leaf = Credited(after, k - 1)[k - 1] /\ c.after = Credit(k)
        BY DEF Claim
    <2> QED BY <2>1, <2>2
<1>7. \A k \in 1..NumAccounts : RootFromPath(Credited(after, k - 1), k - 1, Credit(k)) = Credited(after, k)
    <2> HIDE DEF after
    <2> QED BY <1>3, CreditOne
<1>8. /\ claims[1].tree = tree /\ claims[1].p = a /\ claims[1].leaf = tree[a] /\ claims[1].after = paid
    <2> HIDE DEF claims, paid
    <2> QED BY <1>5
<1>9. Credited(after, 0) = after
    <2>1. 1 \in 1..NumAccounts
        BY CommitteeSize
    <2> HIDE DEF after
    <2> QED BY <1>3, <2>1, CreditOne
<1>10. Chained(w)
    <2> DEFINE Left(n) == RootFromPath(claims[n].tree, claims[n].p, claims[n].after)
    <2> HIDE DEF claims, after, paid, Credit
    <2>1. \A n \in 1..NumAccounts + 1 : n = 1 \/ (n - 1 \in 1..NumAccounts /\ (n - 1) + 1 = n)
        BY CommitteeSize
    <2>2. ASSUME NEW n \in DOMAIN claims PROVE claims[n].tree[claims[n].p] = claims[n].leaf
        <3>1. CASE n = 1
            BY <1>8, <3>1
        <3>2. CASE n # 1
            <4>1. n - 1 \in 1..NumAccounts /\ (n - 1) + 1 = n
                BY <1>5, <2>1, <3>2
            <4>2. claims[n].tree = Credited(after, n - 2) /\ claims[n].p = n - 2
                  /\ claims[n].leaf = Credited(after, n - 2)[n - 2]
                <5>1. (n - 1) - 1 = n - 2
                    BY <4>1
                <5> HIDE DEF claims
                <5> QED BY <1>6, <4>1, <5>1
            <4> QED BY <4>2
        <3> QED BY <3>1, <3>2
    <2>3. Left(1) = after
        BY <1>3, <1>8
    <2>4. \A k \in 1..NumAccounts : Left(k + 1) = Credited(after, k)
        BY <1>6, <1>7
    <2>5. ASSUME NEW n \in 1..NumAccounts PROVE claims[n + 1].tree = Left(n)
        <3>1. claims[n + 1].tree = Credited(after, n - 1)
            BY <1>6
        <3>2. CASE n = 1
            BY <1>9, <2>3, <3>1, <3>2
        <3>3. CASE n # 1
            <4>1. n - 1 \in 1..NumAccounts /\ (n - 1) + 1 = n
                BY <3>3, CommitteeSize
            <4> QED BY <2>4, <3>1, <4>1
        <3> QED BY <3>2, <3>3
    <2>6. NumAccounts \in 1..NumAccounts /\ (NumAccounts + 1) - 1 = NumAccounts
        BY CommitteeSize
    <2>7. w.post = Left(Len(claims)) /\ w.pre = tree /\ w.claims = claims
        BY <1>5, <2>4, <2>6
    <2> QED BY <1>5, <1>8, <2>2, <2>5, <2>6, <2>7 DEF Chained
<1>11. Credited(after, NumAccounts) = Rewarded(tree, a, FirstVoters)
    <2> DEFINE V == FirstVoters
    <2>1. ASSUME NEW p \in Positions
          PROVE  Credited(after, NumAccounts)[p]
                    = [tree[p] EXCEPT !.balance = @ + (AggregatorShare(a, p) + ValidatorShare(V, p))]
        <3> DEFINE s == AggregatorShare(a, p)
                   t == ValidatorShare(V, p)
        <3>1. t = IF p < NumAccounts THEN ValidatorReward ELSE 0
            <4>1. p < NumAccounts <=> \E n \in 1..NumAccounts : n - 1 = p
                <5>1. p \in Nat
                    BY DEF Positions
                <5>2. p < NumAccounts => p + 1 \in 1..NumAccounts /\ (p + 1) - 1 = p
                    BY <5>1, CommitteeSize
                <5> QED BY <5>1, <5>2, CommitteeSize
            <4> QED BY <4>1 DEF ValidatorShare, FirstVoters
        <3>2. s \in Nat /\ t \in Nat
            BY DEF AggregatorShare, ValidatorShare
        <3>3. after[p] = Paid(tree[p], s)
            <4>1. CASE p = a
                BY <4>1 DEF AggregatorShare, Ordered
            <4>2. CASE p # a
                <5>1. after[p] = tree[p] /\ s = 0 /\ tree[p] \in Account
                    BY <4>2 DEF AggregatorShare, Ordered
                <5> QED BY <5>1, PaidOnce
            <4> QED BY <4>1, <4>2
        <3>4. Credited(after, NumAccounts)[p] = Paid(after[p], t)
            BY <3>1 DEF Credited
        <3>5. tree[p] \in Account
            BY DEF Ordered
        <3> HIDE DEF s, t, after
        <3>6. Credited(after, NumAccounts)[p] = Paid(tree[p], s + t)
            BY <3>2, <3>3, <3>4, <3>5, PaidTwice
        <3> QED BY <3>6 DEF Paid, s, t
    <2>2. Credited(after, NumAccounts) = [p \in Positions |-> Credited(after, NumAccounts)[p]]
        BY DEF Credited
    <2> HIDE DEF after, V
    <2> QED BY <2>1, <2>2 DEF Rewarded, V
<1>12. /\ Ordered(Credited(after, NumAccounts))
       /\ \A p \in Positions : Credited(after, NumAccounts)[p].key = tree[p].key
    <2>1. NumAccounts \in 0..NumAccounts
        BY CommitteeSize
    <2> HIDE DEF after
    <2> QED BY <1>3, <2>1, CreditedOrdered
<1> HIDE DEF after, claims
<1> QED BY <1>4, <1>10, <1>11, <1>12

\* The witness of a slash: account 0 is emptied, then account 1 is paid.
SlashingWitness(tree) ==
    LET slashed == AssignSlashedValidatorConstraints(tree)
        emptied == WriteAccount(tree, slashed.after)
        slasher == AssignSlasherConstraints(emptied, tree[0].balance) IN
    [pre |-> tree, post |-> WriteAccount(emptied, slasher.after), claims |-> <<slashed, slasher>>]

LEMMA SlashingChained ==
    ASSUME NEW tree, Ordered(tree)
    PROVE  LET w == SlashingWitness(tree)
           IN  /\ Chained(w) /\ w.pre = tree
               /\ w.post = SlashedRoot(tree, 0, 1)
               /\ Ordered(w.post)
               /\ \A p \in Positions : w.post[p].key = tree[p].key
<1> DEFINE empty == [tree[0] EXCEPT !.balance = 0]
           emptied == [tree EXCEPT ![0] = empty]
           paid == Paid(emptied[1], tree[0].balance)
           post == [emptied EXCEPT ![1] = paid]
           w == [pre |-> tree, post |-> post,
                 claims |-> <<Claim(tree, 0, empty), Claim(emptied, 1, paid)>>]
<1>1. tree[0] \in Account /\ tree[0].index = 0 /\ tree[0].balance \in Nat /\ 0 \in Positions /\ 1 \in Positions
    BY CommitteeSize DEF Ordered, Account
<1>2. empty \in Account /\ empty.index = 0 /\ empty.key = tree[0].key
    BY <1>1 DEF Account
<1>3. /\ WriteAccount(tree, empty) = emptied /\ RootFromPath(tree, 0, empty) = emptied
      /\ Ordered(emptied) /\ \A p \in Positions : emptied[p].key = tree[p].key
    <2> HIDE DEF empty
    <2> QED BY <1>1, <1>2, WriteBack
<1>4. paid \in Account /\ paid.index = 1 /\ paid.key = emptied[1].key
    <2>1. emptied[1] \in Account /\ emptied[1].index = 1
        BY <1>1, <1>3 DEF Ordered
    <2> HIDE DEF emptied
    <2> QED BY <1>1, <2>1, PaidOnce
<1>5. /\ WriteAccount(emptied, paid) = post /\ RootFromPath(emptied, 1, paid) = post
      /\ Ordered(post) /\ \A p \in Positions : post[p].key = emptied[p].key
    <2> HIDE DEF emptied, paid
    <2> QED BY <1>1, <1>3, <1>4, WriteBack
<1>6. SlashingWitness(tree) = w
    <2>1. AssignSlashedValidatorConstraints(tree) = Claim(tree, 0, empty)
        BY DEF AssignSlashedValidatorConstraints
    <2>2. AssignSlasherConstraints(emptied, tree[0].balance) = Claim(emptied, 1, paid)
        BY DEF AssignSlasherConstraints
    <2> HIDE DEF empty, emptied, paid, post
    <2>3. Claim(tree, 0, empty).after = empty /\ Claim(emptied, 1, paid).after = paid
        BY DEF Claim
    <2> QED BY <1>3, <1>5, <2>1, <2>2, <2>3 DEF SlashingWitness
<1>7. Chained(w)
    <2> HIDE DEF empty, emptied, paid, post
    <2>1. Len(w.claims) = 2 /\ DOMAIN w.claims = 1..2 /\ w.pre = tree /\ w.post = post
        OBVIOUS
    <2>2. w.claims[1] = Claim(tree, 0, empty) /\ w.claims[2] = Claim(emptied, 1, paid)
        OBVIOUS
    <2> HIDE DEF w
    <2>3. \A n \in 1..2 : n = 1 \/ n = 2
        OBVIOUS
    <2>4. \A n \in 1..2 - 1 : n = 1
        OBVIOUS
    <2>5. /\ w.claims[1].tree = tree /\ w.claims[1].p = 0 /\ w.claims[1].leaf = tree[0] /\ w.claims[1].after = empty
          /\ w.claims[2].tree = emptied /\ w.claims[2].p = 1 /\ w.claims[2].leaf = emptied[1] /\ w.claims[2].after = paid
        BY <2>2 DEF Claim
    <2>6. 1 + 1 = 2
        OBVIOUS
    <2> QED BY <1>3, <1>5, <2>1, <2>3, <2>4, <2>5, <2>6 DEF Chained
<1>8. post = SlashedRoot(tree, 0, 1)
    <2>1. tree \in [Positions -> Account]
        BY DEF Ordered
    <2>2. emptied = [tree EXCEPT ![0].balance = 0]
        BY <1>1, <2>1
    <2>3. post = [emptied EXCEPT ![1].balance = @ + tree[0].balance]
        BY <1>1, <2>1 DEF Paid
    <2> HIDE DEF emptied, post
    <2> QED BY <2>2, <2>3 DEF SlashedRoot
<1> HIDE DEF emptied, post
<1> QED BY <1>3, <1>5, <1>6, <1>7, <1>8 DEF w

\* Which step of which script an action is.
LEMMA Places ==
    ASSUME mode \in Simulations,
           at \in IF mode = "OnlyContractCosts" THEN 1..Len(SimulateContracts) ELSE 1..2
    PROVE  LET contracts == mode = "OnlyContractCosts" IN
           /\ Simulate[at] = "RegisterAccounts" => contracts /\ at = 1
           /\ Simulate[at] = "RequestBlockByNumber" => contracts /\ at = 2
           /\ Simulate[at] = "AssignVariables" =>
                IF contracts THEN at = 3 ELSE mode = "OnlyAggregationProof" /\ at = 1
           /\ Simulate[at] = "Prove" <=> IF contracts THEN at \in {4, 7} ELSE at = 2
           /\ Simulate[at] = "SubmitBlock" => contracts /\ at = 5
           /\ Simulate[at] = "AssignVariablesSlashing" =>
                IF contracts THEN at = 6 ELSE mode = "OnlySlashingProof" /\ at = 1
           /\ Simulate[at] = "Slash" => contracts /\ at = 8
           /\ Simulate[at] = "ReplaceAccount" <=> contracts /\ at = 9
           /\ Simulate[at] = "ExitAccounts" <=> contracts /\ at = 10
           /\ Simulate[at] = "WithDrawAccounts" <=> contracts /\ at = 11
           /\ Len(SimulateContracts) = 11
           /\ contracts => Len(Simulate) = 11
<1>1. Len(SimulateContracts) = 11
    BY DEF SimulateContracts
<1>2. CASE mode = "OnlyContractCosts"
    <2>1. Simulate = SimulateContracts
        BY <1>2 DEF Simulate
    <2>2. at \in 1..11
        BY <1>1, <1>2
    <2>3. at \in {1, 2, 3, 4, 5, 6, 7, 8, 9, 10, 11}
        BY <2>2
    <2> QED BY <1>1, <1>2, <2>1, <2>3 DEF SimulateContracts
<1>3. CASE mode = "OnlyAggregationProof"
    <2>1. Simulate = SimulateAggregation /\ at \in {1, 2}
        BY <1>3 DEF Simulate
    <2> QED BY <1>1, <1>3, <2>1 DEF SimulateAggregation
<1>4. CASE mode = "OnlySlashingProof"
    <2>1. Simulate = SimulateSlashing /\ at \in {1, 2}
        BY <1>4 DEF Simulate
    <2> QED BY <1>1, <1>4, <2>1 DEF SimulateSlashing
<1> QED BY <1>2, <1>3, <1>4 DEF Simulations

LEMMA CreatedOrdered ==
    ASSUME privateKeys \in [Positions -> Keys]
    PROVE  /\ Ordered(Created)
           /\ \A p \in Positions : /\ Created[p].index = p
                                  /\ Created[p].key = privateKeys[p]
                                  /\ Created[p].balance = 0
BY DEF Ordered, Created, createAccounts, Account

LEMMA SimInitInv == SimInit => SimInv
<1> SUFFICES ASSUME SimInit PROVE SimInv
    OBVIOUS
<1>1. mode \in Simulations /\ at = 1 /\ turn = 0 /\ outcome = "running"
      /\ privateKeys \in [Positions -> Keys] /\ state = Created
    BY SimulationAssumption DEF SimInit, Simulations, generatePrivateKeys, Created
<1>2. Ordered(state) /\ \A p \in Positions : state[p].key = privateKeys[p]
    BY <1>1, CreatedOrdered
<1>3. inserted = <<>> /\ root = InsertedRoot(<<>>) /\ Enrolled(0) = <<>>
    BY DEF SimInit, Init, EmptyRoot, Enrolled
<1>4. at \in 1..Len(SimulateContracts) /\ 0 \in Positions
    BY <1>1, CommitteeSize DEF SimulateContracts
<1>5. ContractInv /\ ProofInv
    BY <1>1, <1>2, <1>3, <1>4 DEF ContractInv, ProofInv
<1>6. Simulate[at] # "Prove"
    BY <1>1, <1>4, Places
<1>7. Client
    BY <1>1, <1>2, <1>5 DEF Client
<1> QED BY <1>1, <1>6, <1>7 DEF SimInv, Provable

\* The place of a running client.
LEMMA RunningPlace ==
    ASSUME SimInv, outcome = "running"
    PROVE  /\ mode \in Simulations
           /\ at \in IF mode = "OnlyContractCosts" THEN 1..Len(SimulateContracts) ELSE 1..2
BY DEF SimInv, Client, ContractInv, ProofInv

\* Where a proof is made next, and of which circuit.
AtProof == IF mode = "OnlyContractCosts" THEN at \in {4, 7} ELSE at = 2
Aggregates == IF mode = "OnlyContractCosts" THEN at = 4 ELSE mode = "OnlyAggregationProof"

\* What the witness must be.
WitnessHolds ==
    /\ Chained(witness)
    /\ IF Aggregates
       THEN /\ AggregationProof(witness.pre, votes, 0, Honest, aggregatorIndex,
                                aggregatorIndex, FirstVoters)
            /\ witness.post = Rewarded(witness.pre, aggregatorIndex, FirstVoters)
       ELSE /\ SlashingProof(witness.pre, votes, 0, Honest, 0, 1)
            /\ witness.post = SlashedRoot(witness.pre, 0, 1)

LEMMA ProvableParts ==
    ASSUME mode \in Simulations, AtProof
    PROVE  WitnessHolds => Provable
<1>1. Simulate[at - 1] = "AssignVariables" <=> Aggregates
    <2>1. CASE mode = "OnlyContractCosts"
        <3>1. Simulate = SimulateContracts /\ at \in {4, 7}
            BY <2>1 DEF Simulate, AtProof
        <3> QED BY <2>1, <3>1 DEF SimulateContracts, Aggregates
    <2>2. CASE mode = "OnlyAggregationProof"
        <3>1. Simulate = SimulateAggregation /\ at = 2
            BY <2>2 DEF Simulate, AtProof
        <3> QED BY <2>2, <3>1 DEF SimulateAggregation, Aggregates
    <2>3. CASE mode = "OnlySlashingProof"
        <3>1. Simulate = SimulateSlashing /\ at = 2
            BY <2>3 DEF Simulate, AtProof
        <3> QED BY <2>3, <3>1 DEF SimulateSlashing, Aggregates
    <2> QED BY <2>1, <2>2, <2>3 DEF Simulations
<1>2. Simulate[at] = "Prove"
    <2>1. at \in IF mode = "OnlyContractCosts" THEN 1..Len(SimulateContracts) ELSE 1..2
        BY DEF AtProof, SimulateContracts
    <2> QED BY <2>1, Places DEF AtProof
<1>3. Satisfied <=> /\ Chained(witness)
                    /\ IF Aggregates
                       THEN AggregationProof(witness.pre, votes, 0, Honest, aggregatorIndex,
                                             aggregatorIndex, FirstVoters)
                       ELSE SlashingProof(witness.pre, votes, 0, Honest, 0, 1)
    BY <1>1 DEF Satisfied, Chained, FirstVoters
<1> QED BY <1>1, <1>2, <1>3 DEF Provable, WitnessHolds, FirstVoters

\* AssignVariables: the accounts are new or as the contract has them, so the
\* aggregator's balance is the zero that the circuit takes it for.
LEMMA AssignVariablesStep ==
    ASSUME SimInv, AssignVariables
    PROVE  SimInv'
<1> DEFINE V == FirstVoters
           w == AggregationWitness(state, aggregatorIndex)
<1>1. /\ outcome = "running" /\ Simulate[at] = "AssignVariables"
      /\ aggregatorIndex \in DOMAIN privateKeys
      /\ witness' = w /\ state' = w.post
      /\ votes' = votes \cup {Vote([index |-> p, key |-> privateKeys[p]], 0, Honest)
                              : p \in 0..NumAccounts - 1}
      /\ at' = at + 1 /\ mode' = mode /\ outcome' = outcome /\ privateKeys' = privateKeys
      /\ aggregatorIndex' = aggregatorIndex
    BY DEF AssignVariables, AggregationWitness, Doing, Proceed, AssignAggregatorConstraints
<1>2. /\ mode \in Simulations /\ privateKeys \in [Positions -> Keys] /\ Ordered(state)
      /\ aggregatorIndex \in Positions /\ state = Created
      /\ IF mode = "OnlyContractCosts" THEN at = 3 ELSE mode = "OnlyAggregationProof" /\ at = 1
    <2>1. IF mode = "OnlyContractCosts" THEN at = 3 ELSE mode = "OnlyAggregationProof" /\ at = 1
        BY <1>1, RunningPlace, Places
    <2> QED BY <1>1, <2>1 DEF SimInv, Client, ContractInv, ProofInv
<1>3. \A p \in Positions : /\ state[p].index = p /\ state[p].key = privateKeys[p]
                              /\ state[p].balance = 0
    BY <1>2, CreatedOrdered
<1>4. /\ Chained(w) /\ w.pre = state /\ w.post = Rewarded(state, aggregatorIndex, V)
      /\ Ordered(w.post) /\ \A p \in Positions : w.post[p].key = state[p].key
    <2>1. state[aggregatorIndex].balance = 0
        BY <1>2, <1>3
    <2> HIDE DEF w
    <2> QED BY <1>2, <2>1, AggregationChained DEF w
<1>5. AggregationProof(state, votes', 0, Honest, aggregatorIndex, aggregatorIndex, V)
    <2>1. \A p \in Positions : p \in Occupied(state) /\ state[p].index = p
        BY <1>2, <1>3 DEF Occupied
    <2>2. \A n \in 1..NumAccounts : V[n] = n - 1 /\ n - 1 \in Positions
        BY CommitteeSize DEF FirstVoters
    <2>3. Unlike(state, V)
        <3> HIDE DEF V
        <3> QED BY <2>1, <2>2 DEF Unlike
    <2>4. ASSUME NEW n \in 1..NumAccounts PROVE Vote(state[V[n]], 0, Honest) \in votes'
        <3>1. n - 1 \in 0..NumAccounts - 1
            BY CommitteeSize
        <3>2. Vote([index |-> n - 1, key |-> privateKeys[n - 1]], 0, Honest) \in votes'
            BY <1>1, <3>1
        <3>3. V[n] = n - 1 /\ state[n - 1].index = n - 1 /\ state[n - 1].key = privateKeys[n - 1]
            BY <1>3, <2>2
        <3> HIDE DEF V
        <3> QED BY <3>2, <3>3 DEF Vote
    <2> HIDE DEF V
    <2> QED BY <1>2, <2>1, <2>2, <2>3, <2>4 DEF AggregationProof
<1> HIDE DEF w
<1>6. Client'
    <2>1. \A p \in Positions : state'[p].key = privateKeys'[p]
        BY <1>1, <1>3, <1>4
    <2>2. IF mode' = "OnlyContractCosts" THEN at' = 4 ELSE at' = 2
        BY <1>1, <1>2
    <2>3. Ordered(state') /\ privateKeys' \in [Positions -> Keys] /\ state' = witness'.post
        BY <1>1, <1>2, <1>4
    <2>4. Len(SimulateContracts) = 11
        BY DEF SimulateContracts
    <2> QED BY <2>1, <2>2, <2>3, <2>4 DEF Client, ContractInv, ProofInv
<1>7. Provable'
    <2>1. mode' \in Simulations /\ AtProof' /\ Aggregates'
        BY <1>1, <1>2 DEF AtProof, Aggregates
    <2>2. Chained(witness')
        BY <1>1, <1>4
    <2>3. WitnessHolds'
        BY <1>1, <1>4, <1>5, <2>1, <2>2 DEF WitnessHolds
    <2>4. (mode \in Simulations)'
        BY <2>1
    <2> QED BY <2>1, <2>3, <2>4, ProvableParts, PTL
<1> QED BY <1>1, <1>2, <1>6, <1>7 DEF SimInv

\* AssignVariablesSlashing: seat 0 signed another hash than the answer.
LEMMA AssignSlashingStep ==
    ASSUME SimInv, AssignVariablesSlashing
    PROVE  SimInv'
<1> DEFINE w == SlashingWitness(state)
<1>1. /\ outcome = "running" /\ Simulate[at] = "AssignVariablesSlashing"
      /\ witness' = w /\ state' = w.post
      /\ votes' = votes \cup {Vote([index |-> 0, key |-> privateKeys[0]], 0, Dissenting)}
      /\ at' = at + 1 /\ mode' = mode /\ outcome' = outcome /\ privateKeys' = privateKeys
    BY DEF AssignVariablesSlashing, SlashingWitness, Doing, Proceed, SlashedHash
<1>2. /\ mode \in Simulations /\ privateKeys \in [Positions -> Keys] /\ Ordered(state)
      /\ IF mode = "OnlyContractCosts" THEN at = 6 ELSE mode = "OnlySlashingProof" /\ at = 1
      /\ \A p \in Positions : state[p].key = privateKeys[p]
    <2>1. IF mode = "OnlyContractCosts" THEN at = 6 ELSE mode = "OnlySlashingProof" /\ at = 1
        BY <1>1, RunningPlace, Places
    <2>2. mode \in Simulations /\ privateKeys \in [Positions -> Keys] /\ Ordered(state)
        BY <1>1 DEF SimInv, Client
    <2>3. CASE mode = "OnlyContractCosts"
        BY <1>1, <2>1, <2>2, <2>3 DEF SimInv, Client, ContractInv
    <2>4. CASE mode # "OnlyContractCosts"
        <3>1. state = Created
            BY <1>1, <2>1, <2>4 DEF SimInv, Client, ProofInv
        <3> QED BY <2>1, <2>2, <2>4, <3>1, CreatedOrdered
    <2> QED BY <2>1, <2>2, <2>3, <2>4
<1>3. /\ Chained(w) /\ w.pre = state /\ w.post = SlashedRoot(state, 0, 1)
      /\ Ordered(w.post) /\ \A p \in Positions : w.post[p].key = state[p].key
    <2> HIDE DEF w
    <2> QED BY <1>2, SlashingChained DEF w
<1>4. SlashingProof(state, votes', 0, Honest, 0, 1)
    <2>1. {0, 1} \subseteq Occupied(state)
        BY <1>2, CommitteeSize DEF Occupied
    <2> DEFINE v == Vote([index |-> 0, key |-> privateKeys[0]], 0, Dissenting)
    <2>2. v \in votes' /\ v.hash # Honest
        BY <1>1, SimulationAssumption DEF Vote
    <2>3. v = Vote(state[0], 0, v.hash)
        <3>1. state[0].index = 0 /\ state[0].key = privateKeys[0]
            BY <1>2, CommitteeSize DEF Ordered
        <3> QED BY <3>1 DEF Vote
    <2> HIDE DEF v
    <2> QED BY <2>1, <2>2, <2>3 DEF SlashingProof
<1> HIDE DEF w
<1>5. Client'
    <2>1. \A p \in Positions : state'[p].key = privateKeys'[p]
        BY <1>1, <1>2, <1>3
    <2>2. IF mode' = "OnlyContractCosts" THEN at' = 7 ELSE at' = 2
        BY <1>1, <1>2
    <2>3. Ordered(state') /\ privateKeys' \in [Positions -> Keys] /\ state' = witness'.post
        BY <1>1, <1>2, <1>3
    <2>4. Len(SimulateContracts) = 11
        BY DEF SimulateContracts
    <2> QED BY <2>1, <2>2, <2>3, <2>4 DEF Client, ContractInv, ProofInv
<1>6. Provable'
    <2>1. mode' \in Simulations /\ AtProof' /\ ~Aggregates'
        BY <1>1, <1>2 DEF AtProof, Aggregates
    <2>2. Chained(witness')
        BY <1>1, <1>3
    <2>3. WitnessHolds'
        BY <1>1, <1>3, <1>4, <2>1, <2>2 DEF WitnessHolds
    <2>4. (mode \in Simulations)'
        BY <2>1
    <2> QED BY <2>1, <2>3, <2>4, ProvableParts, PTL
<1> QED BY <1>1, <1>2, <1>5, <1>6 DEF SimInv

\* Before a step that needs no proof, the client only has to be as it must be.
LEMMA ClientEnough ==
    ASSUME mode \in Simulations, outcome = "running" => Client /\ ~AtProof
    PROVE  SimInv
<1>1. CASE outcome = "running"
    <2>1. Client /\ ~AtProof
        BY <1>1
    <2>2. at \in IF mode = "OnlyContractCosts" THEN 1..Len(SimulateContracts) ELSE 1..2
        BY <2>1 DEF Client, ContractInv, ProofInv
    <2>3. Simulate[at] # "Prove"
        BY <2>1, <2>2, Places DEF AtProof
    <2> QED BY <2>1, <2>3 DEF SimInv, Provable
<1>2. CASE outcome # "running"
    BY <1>2 DEF SimInv, Provable
<1> QED BY <1>1, <1>2

LEMMA ClientKept ==
    ASSUME mode' \in Simulations, outcome' = "running" => Client' /\ ~AtProof'
    PROVE  SimInv'
<1>1. (mode \in Simulations)' /\ (outcome = "running" => Client /\ ~AtProof)'
    OBVIOUS
<1> QED BY <1>1, ClientEnough, PTL

\* Prove leaves the client as it is, or starts over with new accounts.
LEMMA ProveStep ==
    ASSUME SimInv, Prove
    PROVE  SimInv'
<1>1. outcome = "running" /\ Simulate[at] = "Prove"
    BY DEF Prove, Doing
<1>2. mode \in Simulations /\ Client /\ IF mode = "OnlyContractCosts" THEN at \in {4, 7} ELSE at = 2
    BY <1>1, RunningPlace, Places DEF SimInv
<1>3. CASE mode = "OnlyContractCosts"
    <2>1. /\ at' = at + 1 /\ mode' = mode /\ privateKeys' = privateKeys
          /\ state' = state /\ witness' = witness
        BY <1>3 DEF Prove, Proceed
    <2>2. at' \in {5, 8} /\ ~AtProof'
        BY <1>2, <1>3, <2>1 DEF AtProof
    <2>3. Client'
        BY <1>2, <1>3, <2>1, <2>2 DEF Client, ContractInv, SimulateContracts
    <2> QED BY <1>2, <2>1, <2>2, <2>3, ClientKept
<1>4. CASE mode # "OnlyContractCosts"
    <2>1. mode' = mode
        BY <1>4 DEF Prove
    <2>2. CASE run' < Runs
        <3>1. at' = 1 /\ privateKeys' \in [Positions -> Keys] /\ state' = Created'
            BY <1>4, <2>2 DEF Prove, generatePrivateKeys, Created
        <3>2. (privateKeys \in [Positions -> Keys])'
            BY <3>1
        <3>3. Ordered(Created)'
            BY <3>2, CreatedOrdered, PTL
        <3>4. Ordered(state')
            BY <3>1, <3>3
        <3>5. Client' /\ ~AtProof'
            BY <1>4, <2>1, <3>1, <3>4 DEF Client, ProofInv, AtProof
        <3> QED BY <1>2, <2>1, <3>5, ClientKept
    <2>3. CASE ~(run' < Runs)
        <3>1. outcome' = "done"
            BY <1>4, <2>3 DEF Prove
        <3> QED BY <1>2, <2>1, <3>1, ClientKept
    <2> QED BY <2>2, <2>3
<1> QED BY <1>3, <1>4

\* RegisterAccounts: after its last turn the tree holds the created accounts.
LEMMA RegisterAccountsStep ==
    ASSUME SimInv, RegisterAccounts
    PROVE  SimInv'
<1>1. outcome = "running" /\ Simulate[at] = "RegisterAccounts"
    BY DEF RegisterAccounts, Doing
<1>2. mode = "OnlyContractCosts" /\ at = 1 /\ mode \in Simulations /\ Client /\ ContractInv
    <2>1. mode = "OnlyContractCosts" /\ at = 1
        BY <1>1, RunningPlace, Places
    <2> QED BY <1>1, <2>1 DEF SimInv, Client
<1>3. /\ mode' = mode /\ privateKeys' = privateKeys /\ state' = state /\ outcome' = outcome
      /\ IF turn + 1 < committeeSize THEN turn' = turn + 1 /\ at' = 1 ELSE turn' = 0 /\ at' = 2
    BY <1>2 DEF RegisterAccounts, Loop
<1>4. /\ turn \in Positions /\ turn \in Nat /\ inserted = Enrolled(turn)
      /\ privateKeys \in [Positions -> Keys] /\ state = Created /\ Ordered(state)
    BY <1>2 DEF ContractInv, Client, Positions
<1>5. inserted' = Enrolled(turn + 1)
    <2>1. inserted' = Append(inserted, [index |-> Len(inserted), key |-> privateKeys[turn], balance |-> 0])
        BY DEF RegisterAccounts, register, nextIndex
    <2>2. inserted \in Seq(Account) /\ Len(inserted) = turn
        <3>1. \A j \in 1..turn : Created[j - 1] \in Account
            <4>1. \A j \in 1..turn : j - 1 \in Positions
                BY <1>4 DEF Positions
            <4> QED BY <1>4, <4>1 DEF Ordered
        <3>2. inserted \in [1..turn -> Account]
            BY <1>4, <3>1 DEF Enrolled
        <3> QED BY <1>4, <3>2
    <2>3. Created[turn] = [index |-> turn, key |-> privateKeys[turn], balance |-> 0]
        BY <1>4 DEF Created, createAccounts
    <2>4. inserted' = [j \in 1..turn + 1 |-> IF j = turn + 1 THEN Created[turn] ELSE inserted[j]]
        <3> DEFINE e == Created[turn]
        <3>1. inserted' = Append(inserted, e) /\ e \in Account
            BY <1>4, <2>1, <2>2, <2>3 DEF Ordered
        <3> HIDE DEF e
        <3>2. Len(Append(inserted, e)) = turn + 1 /\ Append(inserted, e) \in Seq(Account)
            BY <2>2, <3>1
        <3> DEFINE grown == Append(inserted, e)
        <3>3. grown = [j \in 1..Len(grown) |-> grown[j]]
            <4>1. grown \in Seq(Account)
                BY <3>2
            <4> HIDE DEF grown
            <4> QED BY <4>1, SequenceTable
        <3> HIDE DEF grown
        <3>4. \A j \in 1..turn + 1 : Append(inserted, e)[j] = IF j = turn + 1 THEN e ELSE inserted[j]
            BY <2>2, <3>1, <1>4
        <3> QED BY <3>1, <3>2, <3>3, <3>4 DEF e, grown
    <2>5. \A j \in 1..turn + 1 :
            (IF j = turn + 1 THEN Created[turn] ELSE inserted[j]) = Created[j - 1]
        <3>1. \A j \in 1..turn + 1 : j = turn + 1 => j - 1 = turn
            BY <1>4
        <3>2. \A j \in 1..turn + 1 : j # turn + 1 => j \in 1..turn
            BY <1>4
        <3> QED BY <1>4, <3>1, <3>2 DEF Enrolled
    <2> QED BY <2>4, <2>5 DEF Enrolled
<1>6. Created' = Created
    BY <1>3 DEF Created
<1>7. root' = InsertedRoot(inserted')
    BY DEF RegisterAccounts, register
<1>8. CASE turn + 1 < committeeSize
    <2>1. turn' = turn + 1 /\ at' = 1 /\ turn' \in Positions
        BY <1>3, <1>4, <1>8, CommitteeSize DEF Positions
    <2>2. inserted' = Enrolled(turn)'
        BY <1>5, <1>6, <2>1 DEF Enrolled
    <2>3. Client' /\ ~AtProof'
        BY <1>2, <1>3, <1>4, <1>6, <1>7, <2>1, <2>2 DEF Client, ContractInv, AtProof
    <2> QED BY <1>2, <1>3, <2>3, ClientKept
<1>9. CASE ~(turn + 1 < committeeSize)
    <2>1. at' = 2 /\ turn + 1 = Capacity
        BY <1>3, <1>4, <1>9, CommitteeSize DEF Positions
    <2>2. root' = Created
        <3>1. Len(inserted') = Capacity
            BY <1>5, <2>1, CommitteeSize DEF Enrolled
        <3>2. \A p \in Positions : p < Capacity /\ p + 1 \in 1..Capacity /\ (p + 1) - 1 = p
            BY DEF Positions
        <3>3. \A p \in Positions : inserted'[p + 1] = Created[p]
            BY <1>5, <2>1, <3>2 DEF Enrolled
        <3>4. Created = [p \in Positions |-> Created[p]]
            BY DEF Created, createAccounts
        <3> QED BY <1>7, <3>1, <3>2, <3>3, <3>4 DEF InsertedRoot
    <2>3. \A p \in Positions : state'[p].key = privateKeys'[p]
        BY <1>3, <1>4, CreatedOrdered
    <2>4. Client' /\ ~AtProof'
        BY <1>2, <1>3, <1>4, <1>6, <2>1, <2>2, <2>3 DEF Client, ContractInv, AtProof, SimulateContracts
    <2> QED BY <1>2, <1>3, <2>4, ClientKept
<1> QED BY <1>8, <1>9

\* RequestBlockByNumber reads who was drawn, be it an account or not.
LEMMA RequestBlockStep ==
    ASSUME SimInv, RequestBlockByNumber
    PROVE  SimInv'
<1>1. outcome = "running" /\ Simulate[at] = "RequestBlockByNumber"
    BY DEF RequestBlockByNumber, Doing
<1>2. mode = "OnlyContractCosts" /\ at = 2 /\ mode \in Simulations /\ Client
    BY <1>1, RunningPlace, Places DEF SimInv
<1>3. /\ mode' = mode /\ at' = 3 /\ privateKeys' = privateKeys /\ state' = state
      /\ witness' = witness /\ root' = root
    BY <1>2 DEF RequestBlockByNumber, getBlockByNumber, Proceed
<1>4. Created' = Created
    BY <1>3 DEF Created
<1>5. Client' /\ ~AtProof'
    BY <1>2, <1>3, <1>4 DEF Client, ContractInv, AtProof, SimulateContracts
<1> QED BY <1>2, <1>3, <1>5, ClientKept

\* SubmitBlock and Slash leave the root that the proof ends with, which the
\* client already has.
LEMMA SubmitBlockStep ==
    ASSUME SimInv, SubmitBlock
    PROVE  SimInv'
<1>1. outcome = "running" /\ Simulate[at] = "SubmitBlock"
    BY DEF SubmitBlock, Doing
<1>2. mode = "OnlyContractCosts" /\ at = 5 /\ mode \in Simulations /\ Client
    BY <1>1, RunningPlace, Places DEF SimInv
<1>3. /\ mode' = mode /\ at' = 6 /\ privateKeys' = privateKeys /\ state' = state
      /\ witness' = witness /\ root' = witness.post
    BY <1>2 DEF SubmitBlock, Proceed
<1>4. Client' /\ ~AtProof'
    BY <1>2, <1>3 DEF Client, ContractInv, AtProof, SimulateContracts
<1> QED BY <1>2, <1>3, <1>4, ClientKept

LEMMA SlashSeatStep ==
    ASSUME SimInv, Slash
    PROVE  SimInv'
<1>1. outcome = "running" /\ Simulate[at] = "Slash"
    BY DEF Slash, Doing
<1>2. mode = "OnlyContractCosts" /\ at = 8 /\ mode \in Simulations /\ Client
    BY <1>1, RunningPlace, Places DEF SimInv
<1>3. /\ mode' = mode /\ at' = 9 /\ privateKeys' = privateKeys /\ state' = state
      /\ witness' = witness /\ root' = witness.post
    BY <1>2 DEF Slash, Proceed
<1>4. Client' /\ ~AtProof'
    BY <1>2, <1>3 DEF Client, ContractInv, AtProof, SimulateContracts
<1> QED BY <1>2, <1>3, <1>4, ClientKept

\* ReplaceAccount writes the same account to the same seat of both trees.
LEMMA ReplaceAccountStep ==
    ASSUME SimInv, ReplaceAccount
    PROVE  SimInv'
<1>1. outcome = "running" /\ Simulate[at] = "ReplaceAccount"
    BY DEF ReplaceAccount, Doing
<1>2. /\ mode = "OnlyContractCosts" /\ at = 9 /\ mode \in Simulations
      /\ Client /\ Ordered(state) /\ state = root
    <2>1. mode = "OnlyContractCosts" /\ at = 9
        BY <1>1, RunningPlace, Places
    <2> QED BY <1>1, <2>1 DEF SimInv, Client, ContractInv
<1>3. PICK key \in Keys :
        /\ replace(Admin, key, NewBalance, state[0], 0)
        /\ state' = WriteAccount(state, [index |-> 0, key |-> key, balance |-> NewBalance])
    BY DEF ReplaceAccount
<1> DEFINE account == [index |-> 0, key |-> key, balance |-> NewBalance]
<1>4. account \in Account /\ account.index = 0 /\ 0 \in Positions /\ state[0].index = 0
    BY <1>2, CommitteeSize, SimulationAssumption DEF Account, Ordered
<1>5. root' = RootFromPath(root, 0, account)
    BY <1>3, <1>4 DEF replace
<1>6. state' = root' /\ Ordered(state')
    BY <1>2, <1>3, <1>4, <1>5 DEF WriteAccount, RootFromPath, Ordered
<1>7. mode' = mode /\ at' = 10 /\ privateKeys' = privateKeys
    BY <1>2 DEF ReplaceAccount, Proceed
<1>8. Client' /\ ~AtProof'
    BY <1>2, <1>6, <1>7 DEF Client, ContractInv, AtProof, SimulateContracts
<1> QED BY <1>2, <1>7, <1>8, ClientKept

LEMMA ExitAccountsStep ==
    ASSUME SimInv, ExitAccounts
    PROVE  SimInv'
<1>1. outcome = "running" /\ Simulate[at] = "ExitAccounts"
    BY DEF ExitAccounts, Doing
<1>2. mode = "OnlyContractCosts" /\ at = 10 /\ mode \in Simulations /\ Client
    BY <1>1, RunningPlace, Places DEF SimInv
<1>3. /\ mode' = mode /\ at' \in {10, 11} /\ privateKeys' = privateKeys /\ state' = state
      /\ root' = root
    BY <1>2 DEF ExitAccounts, exit, Loop
<1>4. Client' /\ ~AtProof'
    BY <1>2, <1>3 DEF Client, ContractInv, AtProof, SimulateContracts
<1> QED BY <1>2, <1>3, <1>4, ClientKept

\* WithDrawAccounts empties the same seat of both trees.
LEMMA WithdrawAccountsStep ==
    ASSUME SimInv, WithDrawAccounts
    PROVE  SimInv'
<1>1. outcome = "running" /\ Simulate[at] = "WithDrawAccounts"
    BY DEF WithDrawAccounts, Doing
<1>2. /\ mode = "OnlyContractCosts" /\ at = 11 /\ mode \in Simulations
      /\ privateKeys \in [Positions -> Keys] /\ Ordered(state) /\ state = root
      /\ Len(Simulate) = 11
    <2>1. mode = "OnlyContractCosts" /\ at = 11
        BY <1>1, RunningPlace, Places
    <2>2. Len(Simulate) = 11
        BY <1>1, <2>1, RunningPlace, Places
    <2> QED BY <1>1, <2>1, <2>2 DEF SimInv, Client, ContractInv
<1>3. /\ turn \in Positions
      /\ root' = RootFromPath(root, turn, [root[turn] EXCEPT !.balance = 0])
      /\ state' = WriteAccount(state, [state[turn] EXCEPT !.balance = 0])
    BY DEF WithDrawAccounts, withdraw, Withdrawn, Occupied
<1>4. /\ mode' = mode /\ at' \in {11, 12} /\ privateKeys' = privateKeys
      /\ outcome' = IF at' > 11 THEN "done" ELSE outcome
    BY <1>2 DEF WithDrawAccounts, Loop
<1> DEFINE account == [state[turn] EXCEPT !.balance = 0]
<1>5. account \in Account /\ account.index = turn
    <2>1. state[turn] \in Account /\ state[turn].index = turn
        BY <1>2, <1>3 DEF Ordered
    <2> QED BY <2>1 DEF Account
<1>6. state' = root' /\ Ordered(state')
    <2>1. state' = WriteAccount(state, account) /\ root' = RootFromPath(state, turn, account)
        BY <1>2, <1>3
    <2>2. turn \in Positions /\ Ordered(state)
        BY <1>2, <1>3
    <2> HIDE DEF account
    <2> QED BY <1>5, <2>1, <2>2 DEF WriteAccount, RootFromPath, Ordered
<1>7. outcome' = "running" => Client' /\ ~AtProof'
    <2>1. 12 > 11
        OBVIOUS
    <2>2. outcome' = "running" => at' = 11
        BY <1>4, <2>1
    <2> QED BY <1>2, <1>4, <1>6, <2>2 DEF Client, ContractInv, AtProof, SimulateContracts
<1> QED BY <1>2, <1>4, <1>7, ClientKept

\* An error, whatever made it happen, ends the program.
LEMMA PanicStep ==
    ASSUME SimInv, Panic
    PROVE  SimInv'
<1>1. outcome' = "failed" /\ mode' = mode
    BY DEF Panic
<1> QED BY <1>1, ClientKept DEF SimInv

\* What neither the client nor the contract changes.
LEMMA SimUnchanged ==
    ASSUME SimInv, UNCHANGED <<simVars, root, inserted, votes>>
    PROVE  SimInv'
<1>1. UNCHANGED <<mode, at, turn, outcome, privateKeys, state, aggregatorIndex, witness,
                  root, inserted, votes>>
    BY DEF simVars
<1>2. Simulate' = Simulate /\ Created' = Created
    BY <1>1 DEF Simulate, Created
<1>3. Enrolled(turn)' = Enrolled(turn)
    BY <1>1, <1>2 DEF Enrolled
<1>4. ContractInv' = ContractInv /\ ProofInv' = ProofInv
    BY <1>1, <1>2, <1>3 DEF ContractInv, ProofInv
<1>5. Satisfied' = Satisfied
    BY <1>1, <1>2 DEF Satisfied
<1>6. Provable' = Provable
    BY <1>1, <1>2, <1>5 DEF Provable
<1>7. Client' = Client
    BY <1>1, <1>4 DEF Client
<1> QED BY <1>1, <1>6, <1>7 DEF SimInv

LEMMA SimNextInv == SimInv /\ [SimNext]_allVars => SimInv'
<1> SUFFICES ASSUME SimInv, [SimNext]_allVars PROVE SimInv'
    OBVIOUS
<1>1. CASE AssignVariables
    BY <1>1, AssignVariablesStep
<1>2. CASE AssignVariablesSlashing
    BY <1>2, AssignSlashingStep
<1>3. CASE Prove
    BY <1>3, ProveStep
<1>4. CASE RegisterAccounts
    BY <1>4, RegisterAccountsStep
<1>5. CASE RequestBlockByNumber
    BY <1>5, RequestBlockStep
<1>6. CASE SubmitBlock
    BY <1>6, SubmitBlockStep
<1>7. CASE Slash
    BY <1>7, SlashSeatStep
<1>8. CASE ReplaceAccount
    BY <1>8, ReplaceAccountStep
<1>9. CASE ExitAccounts
    BY <1>9, ExitAccountsStep
<1>10. CASE WithDrawAccounts
    BY <1>10, WithdrawAccountsStep
<1>11. CASE Panic
    BY <1>11, PanicStep
<1>12. CASE Mine /\ UNCHANGED simVars
    <2>1. UNCHANGED <<simVars, root, inserted, votes>>
        BY <1>12 DEF Mine, seatVars
    <2> QED BY <2>1, SimUnchanged
<1>13. CASE UNCHANGED allVars
    <2>1. UNCHANGED <<simVars, root, inserted, votes>>
        BY <1>13 DEF allVars, vars, seatVars
    <2> QED BY <2>1, SimUnchanged
<1> QED BY <1>1, <1>2, <1>3, <1>4, <1>5, <1>6, <1>7, <1>8, <1>9, <1>10, <1>11, <1>12, <1>13
    DEF SimNext, Go

\* The inductive invariant of the simulator.
THEOREM SimulatorInvariance == SimSpec => []SimInv
BY SimInitInv, SimNextInv, PTL DEF SimSpec

\* Whenever the simulator replaces, leaves or withdraws a seat, the State it
\* keeps is the contract's tree, after rewards and the slash.
THEOREM ClientInStep == SimSpec => []InStep
<1>1. SimInv => InStep
    <2> SUFFICES ASSUME SimInv, outcome = "running",
                        Simulate[at] \in {"ReplaceAccount", "ExitAccounts", "WithDrawAccounts"}
                 PROVE  state = root
        BY DEF InStep
    <2>1. mode = "OnlyContractCosts" /\ at \in {9, 10, 11}
        BY RunningPlace, Places
    <2> QED BY <2>1 DEF SimInv, Client, ContractInv
<1> QED BY <1>1, SimulatorInvariance, PTL

\* The witness that the simulator assigns satisfies its circuit, claim after
\* claim, and ends with the root that the contract's relation demands.
THEOREM WitnessesProvable == SimSpec => []Provable
<1>1. SimInv => Provable
    BY DEF SimInv
<1> QED BY <1>1, SimulatorInvariance, PTL
============================================================================
