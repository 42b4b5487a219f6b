------------------------------ MODULE ZKAudit ------------------------------
(***************************************************************************)
(* The contract ZKAudit.sol with the token and the account tree it          *)
(* inherits.  One action is one transaction that commits; a transaction     *)
(* that reverts is a stuttering step.  Paths and proofs that users compute  *)
(* off chain are chosen by \E and checked as the contract checks them.      *)
(* votes and the signing of them stand for the oracle nodes.                *)
(***************************************************************************)
EXTENDS Circuits, Functions

CONSTANTS
    Addresses,      \* externally owned accounts, the deployer included
    Admin,          \* the deployer: admin role, and the payee of stakes
    NoAddress,      \* address(0)
    Hashes,         \* block hashes other than zero
    NoHash,         \* bytes32(0)
    Numbers,        \* block numbers a client asks for
    Amounts,        \* balances that register and replace name
    Supplies,       \* amounts that are minted and burned
    InitialSupply,
    Genesis,        \* timestamp of block 0, in blocks
    SeedOrder,      \* order of the group of points that keys and seed are in
    MaxRequests,    \* bound: requests that are issued
    MaxHeight,      \* bound: blocks that are mined
    MaxSupply,      \* bound: tokens that are minted
    MaxStake        \* bound: stake that replace brings the seats to

ASSUME AddressAssumption == Admin \in Addresses /\ NoAddress \notin Addresses
ASSUME HashAssumption == NoHash \notin Hashes
ASSUME AmountAssumption == Amounts \cup Supplies \subseteq Nat /\ Numbers \subseteq Nat
ASSUME BoundAssumption ==
    /\ {InitialSupply, Genesis, MaxRequests, MaxHeight, MaxSupply, MaxStake} \subseteq Nat

\* A key is named by its secret, the logarithm of the point that is registered.
ASSUME SeedAssumption == SeedOrder \in Nat \ {0} /\ Keys \subseteq Nat

VARIABLES
    root,               \* the leaves the stored root commits to
    inserted,           \* the leaves as filledSubtrees remembers them
    accountNumber,
    accounts,           \* seat -> owner
    exitTimes,          \* owner -> time
    exits,              \* seats that exited
    ipAddr,             \* seat -> the operator whose host is listed
    nextRequest,
    requests,           \* request -> block number
    requestAggregators, \* request -> seat
    blocks,             \* request -> block hash
    illegalBlocks,
    illegalAggregators,
    seed,               \* the multiple of the constructor's point that it is
    balances,           \* ERC-20 balances
    totalSupply,
    height,             \* block.number
    votes               \* messages that validators signed

ledgerVars  == <<nextRequest, requests, requestAggregators, blocks,
                 illegalBlocks, illegalAggregators, seed>>
seatVars    == <<accountNumber, accounts, ipAddr, inserted>>
exitVars    == <<exitTimes, exits>>
tokenVars   == <<balances, totalSupply>>
vars == <<root, ledgerVars, seatVars, exitVars, tokenVars, height, votes>>

\* Request numbers; the last one is never issued within the bound.
Requests == 0..MaxRequests
\* Seat numbers that getRandomNumber or a registration can name.
Seats == 0..Capacity

nextIndex == Len(inserted)
timestamp == Genesis + height
exitDelay == 0
getAggregator(r) == requestAggregators[r]

TypeOK ==
    /\ root \in Roots
    /\ inserted \in Seq(Account) /\ Len(inserted) <= Capacity
    /\ accountNumber = Len(inserted)
    /\ accounts \in [Seats -> Addresses \cup {NoAddress}]
    /\ exitTimes \in [Addresses -> Nat]
    /\ exits \in SUBSET Seats
    /\ ipAddr \in [Seats -> Addresses \cup {NoAddress}]
    /\ nextRequest \in 0..MaxRequests
    /\ requests \in [Requests -> Numbers \cup {0}]
    /\ requestAggregators \in [Requests -> Seats]
    /\ blocks \in [Requests -> Hashes \cup {NoHash}]
    /\ illegalBlocks \in Seq(Hashes)
    /\ illegalAggregators \in SUBSET Seats
    /\ seed \in 0..SeedOrder - 1
    /\ balances \in [Addresses -> Nat]
    /\ totalSupply \in Int
    /\ height \in 0..MaxHeight
    /\ votes \subseteq [index : Positions, key : Keys, request : Requests, hash : Hashes]

Init ==
    /\ root = EmptyRoot
    /\ inserted = <<>>
    /\ accountNumber = 0
    /\ accounts = [i \in Seats |-> NoAddress]
    /\ exitTimes = [a \in Addresses |-> 0]
    /\ exits = {}
    /\ ipAddr = [i \in Seats |-> NoAddress]
    /\ nextRequest = 0
    /\ requests = [r \in Requests |-> 0]
    /\ requestAggregators = [r \in Requests |-> 0]
    /\ blocks = [r \in Requests |-> NoHash]
    /\ illegalBlocks = <<>>
    /\ illegalAggregators = {}
    /\ seed = 1 % SeedOrder
    /\ balances = [a \in Addresses |-> IF a = Admin THEN InitialSupply ELSE 0]
    /\ totalSupply = InitialSupply
    /\ height = 0
    /\ votes = {}
----------------------------------------------------------------------------
(* The token. *)

\* _transfer of OpenZeppelin's ERC20.
CanTransfer(b, from, to, amount) == to # NoAddress /\ b[from] >= amount

Transferred(b, from, to, amount) ==
    [[b EXCEPT ![from] = @ - amount] EXCEPT ![to] = @ + amount]

Mint(to, amount) ==
    /\ totalSupply + amount <= MaxSupply
    /\ totalSupply' = totalSupply + amount
    /\ balances' = [balances EXCEPT ![to] = @ + amount]
    /\ UNCHANGED <<root, ledgerVars, seatVars, exitVars, height, votes>>

Burn(from, amount) ==
    /\ balances[from] >= amount
    /\ totalSupply' = totalSupply - amount
    /\ balances' = [balances EXCEPT ![from] = @ - amount]
    /\ UNCHANGED <<root, ledgerVars, seatVars, exitVars, height, votes>>
----------------------------------------------------------------------------
(* Requests and answers. *)

\* getRandomNumber % accountNumber + 1 is any of 1..accountNumber, and no
\* value when there is no account.  It returns the same number each time it
\* is called within a transaction, so a draw that the loop condition rejects
\* never ends and the transaction runs out of gas.
Drawable == (1..accountNumber) \ (illegalAggregators \cup exits)

getBlockByNumber(number) ==
    /\ nextRequest < MaxRequests
    /\ \E aggregator \in Drawable :
        requestAggregators' = [requestAggregators EXCEPT ![nextRequest] = aggregator]
    /\ requests' = [requests EXCEPT ![nextRequest] = number]
    /\ nextRequest' = nextRequest + 1
    /\ UNCHANGED <<root, blocks, illegalBlocks, illegalAggregators, seed,
                   seatVars, exitVars, tokenVars, height, votes>>

\* Mutated form of Pending: the check for an earlier answer is missing.
PendingIgnored(r) == r \in Requests

Pending(r) == blocks[r] = NoHash

\* The circuit multiplies the seed by the aggregator's secret.
NextSeed(s, key) == (s * key) % SeedOrder

\* msg.sender owns the seat that was drawn for r.
FromAggregator(r) == accounts[getAggregator(r)] # NoAddress

submitBlock(r, hash, illegal) ==
    /\ FromAggregator(r)
    /\ Pending(r)
    /\ \E a \in Positions, V \in Validators :
        /\ AggregationProof(root, votes, r, hash, getAggregator(r), a, V)
        /\ root' = Rewarded(root, a, V)
        /\ seed' = NextSeed(seed, root[a].key)
    /\ blocks' = [blocks EXCEPT ![r] = hash]
    /\ illegalBlocks' = IF illegal THEN Append(illegalBlocks, hash) ELSE illegalBlocks
    /\ UNCHANGED <<nextRequest, requests, requestAggregators, illegalAggregators,
                   seatVars, exitVars, tokenVars, height, votes>>

\* The else branch of submitBlock marks the aggregator and then reverts, which
\* takes back the mark and the answer it has already stored.
submitInvalidProof(r) ==
    /\ FromAggregator(r) /\ Pending(r)
    /\ UNCHANGED vars

slash(r, accused, slasher) ==
    /\ ~Pending(r)
    /\ SlashingProof(root, votes, r, blocks[r], accused, slasher)
    /\ root' = SlashedRoot(root, accused, slasher)
    /\ UNCHANGED <<ledgerVars, seatVars, exitVars, tokenVars, height, votes>>

\* Mutated form of Requested: a validator answers what was never asked.
RequestedIgnored(r) == r \in Requests

\* The event BlockRequested of r has been emitted.
Requested(r) == r < nextRequest

\* A validator node signs the hash it sees for a request, once per request.
Sign(p, r, hash) ==
    /\ p \in Occupied(root)
    /\ Requested(r)
    /\ ~\E v \in votes : v = Vote(root[p], r, v.hash)
    /\ votes' = votes \cup {Vote(root[p], r, hash)}
    /\ UNCHANGED <<root, ledgerVars, seatVars, exitVars, tokenVars, height>>
----------------------------------------------------------------------------
(* Seats. *)

\* Mutated form of HasRoom: off by one.
HasRoomAfter == nextIndex <= Capacity

\* insert: the tree is not full.
HasRoom == nextIndex # Capacity

register(sender, key, balance) ==
    LET account == [index |-> nextIndex, key |-> key, balance |-> balance] IN
    /\ HasRoom
    /\ inserted' = Append(inserted, account)
    /\ root' = InsertedRoot(inserted')
    /\ accounts' = [accounts EXCEPT ![nextIndex] = sender]
    /\ ipAddr' = [ipAddr EXCEPT ![nextIndex] = sender]
    /\ accountNumber' = accountNumber + 1
    /\ UNCHANGED <<ledgerVars, exitVars, tokenVars, height, votes>>

Stake(leaves) == SumFunction([p \in Positions |-> leaves[p].balance])

\* The parts of update and verify that require something of the tree.
Full == nextIndex = Capacity

\* Mutated forms of Payee and Price: the stake of a replaced seat goes to the
\* admin, or its owner is paid what the new owner stakes.
PayeeAdmin(claim) == Admin
PriceNew(claim, balance) == balance

\* Whom replace pays for the seat, and how much.
Payee(claim) == accounts[claim.index]
Price(claim, balance) == claim.balance

\* claim is the account the caller names, p the position its path leads to.
replace(sender, key, balance, claim, p) ==
    LET owner == Payee(claim)
        price == Price(claim, balance)
        deposited == Transferred(balances, sender, Admin, balance) IN
    /\ Full
    /\ Stake(root) + balance <= MaxStake
    /\ claim.index \notin illegalAggregators =>
        balance >= claim.balance /\ Verify(root, p, claim)
    /\ CanTransfer(balances, sender, Admin, balance)
    /\ CanTransfer(deposited, sender, owner, price)
    /\ root' = RootFromPath(root, p, [index |-> claim.index, key |-> key, balance |-> balance])
    /\ balances' = Transferred(deposited, sender, owner, price)
    /\ accounts' = [accounts EXCEPT ![claim.index] = sender]
    /\ UNCHANGED <<ledgerVars, accountNumber, ipAddr, inserted, exitVars,
                   totalSupply, height, votes>>

exit(sender, p) ==
    LET account == root[p] IN
    /\ p \in Occupied(root)
    /\ accounts[account.index] = sender
    /\ exits' = exits \cup {account.index}
    /\ exitTimes' = [exitTimes EXCEPT ![sender] = timestamp + exitDelay]
    /\ UNCHANGED <<root, ledgerVars, seatVars, tokenVars, height, votes>>

withdraw(sender, p) ==
    LET account == root[p] IN
    /\ p \in Occupied(root)
    /\ height < exitTimes[sender]
    /\ accounts[account.index] = sender
    /\ Full
    /\ CanTransfer(balances, Admin, sender, account.balance)
    /\ balances' = Transferred(balances, Admin, sender, account.balance)
    /\ accounts' = [accounts EXCEPT ![account.index] = NoAddress]
    /\ root' = RootFromPath(root, p, [account EXCEPT !.balance = 0])
    /\ UNCHANGED <<ledgerVars, accountNumber, ipAddr, inserted, exitVars,
                   totalSupply, height, votes>>

\* The chain mines a block.
Mine ==
    /\ height < MaxHeight
    /\ height' = height + 1
    /\ UNCHANGED <<root, ledgerVars, seatVars, exitVars, tokenVars, votes>>
----------------------------------------------------------------------------
Answering ==
    \/ \E number \in Numbers : getBlockByNumber(number)
    \/ \E p \in Positions, r \in Requests, hash \in Hashes : Sign(p, r, hash)
    \/ \E r \in Requests, hash \in Hashes, illegal \in BOOLEAN : submitBlock(r, hash, illegal)
    \/ \E r \in Requests : submitInvalidProof(r)
    \/ \E r \in Requests, accused, slasher \in Positions : slash(r, accused, slasher)

Seating ==
    \/ \E sender \in Addresses, key \in Keys, balance \in Amounts :
        register(sender, key, balance)
    \/ \E sender \in Addresses, key \in Keys, balance \in Amounts,
          q \in Occupied(root), p \in Positions : replace(sender, key, balance, root[q], p)
    \/ \E sender \in Addresses, p \in Positions : exit(sender, p)
    \/ \E sender \in Addresses, p \in Positions : withdraw(sender, p)

Supplying ==
    \/ \E to \in Addresses, amount \in Supplies : Mint(to, amount)
    \/ \E from \in Addresses, amount \in Supplies : Burn(from, amount)

Next == Answering \/ Seating \/ Supplying \/ Mine

Spec == Init /\ [][Next]_vars
----------------------------------------------------------------------------
(* Properties. *)

\* Seat i is the leaf at position i: register, replace, rewards and slashes
\* never move an account, leave a hole or put one index at two positions.
SeatsInOrder ==
    \A p \in Positions :
        IF p < nextIndex THEN root[p] \in Account /\ root[p].index = p
                         ELSE root[p] = ZeroLeaf

\* An answer the contract stores carries the votes of NumAccounts different
\* seats for exactly that request and hash, whoever has taken over, left or
\* been slashed since.
QuorumBacked ==
    \A r \in Requests : blocks[r] # NoHash =>
        \E V \in Validators :
            /\ \A i, j \in 1..NumAccounts : i # j => V[i] # V[j]
            /\ \A i \in 1..NumAccounts : \E k \in Keys :
                [index |-> V[i], key |-> k, request |-> r, hash |-> blocks[r]] \in votes

\* Only issued requests are answered.  The mapping requestAggregators gives
\* seat 0 for a request that was never issued, so submitBlock itself does not
\* refuse it; that no validator signs for it is what protects it.
OnlyIssuedAnswered ==
    \A r \in Requests : blocks[r] # NoHash => r < nextRequest

\* What a client has read for a request, and who may answer it, is final.
AnswersFinal ==
    [][\A r \in Requests :
        /\ blocks[r] # NoHash => blocks'[r] = blocks[r]
        /\ r < nextRequest => requestAggregators'[r] = requestAggregators[r]]_vars

\* A withdrawn seat is never taken again: replace pays the seat's owner, and
\* the token refuses to pay address(0).
SeatsStayEmpty ==
    [][\A i \in Seats : i < nextIndex /\ accounts[i] = NoAddress
                        => accounts'[i] = NoAddress]_vars

\* An answer mints exactly the aggregator's and the validators' rewards, also
\* when the aggregator is one of its validators; a slash mints nothing, also
\* when a seat slashes itself.
RewardsExact ==
    [][/\ blocks' # blocks => Stake(root') = Stake(root) + AggregatorReward
                                             + NumAccounts * ValidatorReward
       /\ \A r \in Requests, accused, slasher \in Positions :
            slash(r, accused, slasher) => Stake(root') = Stake(root)]_vars

\* The seat at p keeps its key and owner in this step but loses stake.
LosesStake(p) ==
    /\ accounts'[p] = accounts[p]
    /\ root'[p].key = root[p].key
    /\ root'[p].balance < root[p].balance

\* The account at p signed another hash than the one stored for a request.
Contradicted(p) ==
    \E v \in votes : /\ v = Vote(root[p], v.request, v.hash)
                     /\ blocks[v.request] \notin {NoHash, v.hash}

\* Once the tree is full, a seat that stays with its owner and key loses
\* stake only if it voted against an answer that was stored.
OnlyDissentersLoseStake ==
    [][\A p \in Positions : Full /\ LosesStake(p) => Contradicted(p)]_vars

\* Who gives up a seat, by withdrawing it or because another user replaces
\* him, is paid what it holds at that moment, rewards included.  The admin is
\* left out: stakes are paid into and out of his account.
LeaverPaid ==
    [][\A p \in Positions :
        LET owner == accounts[p] IN
        owner \notin {NoAddress, Admin} /\ accounts'[p] # owner
            => balances'[owner] = balances[owner] + root[p].balance]_vars

\* The contract with its validators implements the promise to its clients.
Ledger == INSTANCE AuditLedger WITH
    NumSeats <- Capacity,
    issued   <- nextRequest,
    signed   <- {<<v.index, v.request, v.hash>> : v \in votes},
    answer   <- blocks

\* Requests are issued in order, and each gets at most one answer, for which
\* NumAccounts different seats signed, while seats come and go.
ImplementsLedger == Ledger!Spec

(* Statements of comments and tests that the code does not keep. *)

\* ZKAudit.sol:87: the aggregator drawn for a request is a registered seat.
AggregatorIsRegistered ==
    \A r \in Requests : r < nextRequest => getAggregator(r) < accountNumber

\* aggregationCircuit.go:93, 135: aggregator and validators are rewarded, so
\* only a dissenter loses stake, whether or not the tree is full.
RewardsKept ==
    [][\A p \in Positions : LosesStake(p) => Contradicted(p)]_vars
============================================================================
