# A formal model of zkOracle

TLA+ modules, TLC runs and TLAPS proofs about the oracle in this repository: a
contract that takes requests for block hashes (`contracts/zkAuditContracts/`)
and the nodes that vote on them, aggregate the votes in a zk-SNARK and submit
the answer (`node/pkg/zkAudit/`).

    tlc -config ZKAuditAnswers.cfg MCZKAudit     # a run
    tlapm ZKAuditProofs.tla                      # a proof module

## The system

| Part | State | Operations | Interacts with |
| --- | --- | --- | --- |
| Audit contract, `ZKAudit.sol` | requests, drawn aggregators, answers, seats and their owners, exits and exit times, seed | `getBlockByNumber`, `submitBlock`, `slash`, `register`, `replace`, `exit`, `withdraw` | inherits token and account tree, asks the two verifiers, emits events to the nodes |
| Token, `RWAToken.sol` | balances, supply | `mint`, `burn`, transfers | pays stakes in `replace` and `withdraw` |
| Account tree, `MerkleTree.sol` | one root, `filledSubtrees`, `nextIndex` | `insert`, `update`, `verify`, `setRoot` | its leaves are hashes of accounts; only the root is stored |
| Aggregation circuit | none | checks and credits one aggregator and `NumAccounts` validators | its statement is what `submitBlock` accepts |
| Slashing circuit | none | moves the stake of a contradicted validator | its statement is what `slash` accepts |
| Verifiers and hash, `*Verifier.sol`, `Pairing.sol`, `MiMC.sol` | none | `verifyProof`, `hash` | called by the contract and the tree; must agree with `proof.go` and the node's hash |
| Validator, `validator.go` | none | on `BlockRequested`: read the header, sign, send the vote | reads the chain, calls the aggregator's `SendVote` |
| Vote pool, `votepool.go` | votes and counters per request | `add`, `getVotes` | wakes the aggregator over a channel |
| Aggregator, `aggregator.go` | none of its own | `Aggregate`, `ProcessVotes` | reads pool and state, writes state, proves, submits |
| State and synchronisation, `state.go`, `sync.go`, `event.go` | accounts and their hashes as bytes | reads, writes, Merkle proofs; replay of past logs, two watchers | shared by the aggregator, the watchers and the RPC |
| Node, `node.go` | configuration file | `Register`, `Run` | starts the goroutines and the server |
| Simulator, `simulator.go` | its own copy of the accounts | three scripts of calls and proofs | plays every role against a fresh contract |

What makes it hard:

* Answers, registrations, replacements, slashes and withdrawals interleave
  freely on one root that nobody can read back: the contract trusts paths and
  proofs computed off chain.
* Rewards and slashes act on stakes by replacing the root, insertions by
  rebuilding it from remembered subtrees, updates along a path.
* A transaction that reverts takes back all it wrote.
* A proof takes its time: it speaks of the root and the seed it was started
  with, and the contract goes on.
* In a node, RPC handlers, the aggregator's goroutine and two watchers share
  the pool and the accounts; the aggregator writes rewards ahead of its proof
  and takes them back; the wake-up of the aggregator can be missed; an error
  ends a goroutine, a panic the process.
* Events are replayed from the chain and then watched, by goroutines that
  nothing orders; subscriptions fail, nodes restart, the chain reorganises
  between two calls of one handler.

The correctness properties of the parts: an answer is final, was asked for and
carries a quorum of different seats; an account stays where its index says;
rewards and slashes move exactly the amounts they name, and only dissenters
lose stake; who leaves a seat is paid what it holds; a root stands for the leaves
and a path for one leaf; a circuit accepts what its statement says, a verifier
what its equation says; a batch that is proved is provable and sent once; a
stale proof does nothing; a node handles an event once, and its store is what
the events make of it; a validator signs a request once, and what it signs
stays in the chain; a start costs at most one seat. The hazards behind them are listed
in `PROJECT.json`, each at its line.

### A note on the sources

The repository is in the middle of a renaming from `ZKOracle` to `ZKAudit`, and
the generated Go binding is of an older contract (no argument of
`getAggregator`, no balance in `register`, no flag in `submitBlock`). The
contract is modelled from the Solidity source, the node from the Go source,
and the answer of a node is taken to reach the contract in today's interface.
The binding does not know the events that today's contract inherits with its
token: the constructor's `Transfer` and `RoleGranted`, and the `Transfer` of a
mint, a replacement or a withdrawal. A node that replays one of them
(`sync.go:71`) ends `Synchronize` there, before its watchers start; `Run` logs
the error and goes on. With today's contract deployed in one of the first fifty
blocks this is what every node does. `NodeState` has the error (`UnknownEvent`);
what it shows beyond it is about a log in which such an event comes late or
never, as with the contract the binding was made for.
`NewNode` creates its account store with no accounts (`node.go:111`), and the
slices never grow: the first event is an index out of range and ends the
process. The node is modelled with a store that has room for the seats, as the
constructor of the store provides for. The contract is deployed with ten levels
(`deploy.ts:27`) while the circuits have paths of four: the models take one
`Capacity` for both. In particular the simulator is modelled with a committee
that fills the tree, `Capacity = committeeSize`, which an assumption states:
with the ten levels of `deploy.ts` its first `replace` would revert and end the
program, as `Panic` may at any step.

## Modules

| Module | Models | Depends on |
| --- | --- | --- |
| `AccountTree` | the tree as the vector of its leaves: `insert`, `verify`, `computeRootFromPath` | |
| `Circuits` | the statements of both circuits and their effect on the leaves | `AccountTree` |
| `ZKAudit` | the contract, one action per transaction | `Circuits` |
| `AuditLedger` | what the oracle promises: the abstract specification | |
| `Witness` | the public inputs and leaves both circuits start from | `Circuits` |
| `AggregationCircuit` | the loop of `Define`, one action per block of constraints | `Witness` |
| `MerkleTree` | `MerkleTree.sol` on hash terms | |
| `VotePool` | the vote pool and the goroutine `Aggregate` | |
| `OracleNetwork` | proofs that are in flight while the contract goes on | `ZKAudit` |
| `SlashingCircuit` | the constraints of `Define`, one action per block of constraints | `Witness` |
| `NodeState` | the account store, its synchronisation and the aggregator's use of it | |
| `StateLock` | the locks of the store and its one hash object, call by call | |
| `Validator` | the validator's goroutine on a chain that reorganises | |
| `Registration` | the start of several nodes, their files and transactions | |
| `Verifier` | `verifyProof` and the encoding of a proof, on a small curve | |
| `MiMC` | `MiMC.sol` round by round, beside the node's digest | |
| `Simulator` | the three scripts of the simulator against the contract | `ZKAudit` |
| `DataLemmas` | lemmas about sums over finite sets, recursive functions and remainders | |
| `ZKAuditProofs` | theorems about `ZKAudit`, `OracleNetwork` and `Simulator` | `OracleNetwork`, `Simulator`, `DataLemmas` |
| `MerkleTreeProofs` | theorems about `MerkleTree` | `MerkleTree`, `DataLemmas` |
| `FoundationsProofs` | theorems about `MCFoundations`: hash, trees, circuits and verifier | `MCFoundations`, `MerkleTreeProofs`, `DataLemmas` |
| `NodeStateProofs` | theorems about `NodeState` | `NodeState`, `DataLemmas` |
| other `...Proofs` | theorems | the module they name |
| `MCZKAudit`, `MCOracleNetwork` | instances for TLC: symmetry sets | the module they name |
| `MCFoundations` | one specification whose behaviours are those of both circuits, the verifier, the hash and two trees, side by side | the modules it names |

The modules form layers. `MerkleTree` shows that the hash root stands for
a vector of leaves and that a path opens one leaf, which is the view
`AccountTree` takes. `AggregationCircuit` shows that the circuit's loop accepts
the relation `AggregationProof` and computes `Rewarded`, which is what
`ZKAudit` uses in `submitBlock`, and `SlashingCircuit` the same for `slash`.
`ZKAudit` implements `AuditLedger`; `OracleNetwork`, in which a proof is not
submitted where it is found, implements `ZKAudit`. `VotePool`, `NodeState` and
`Validator` look at one node each: the votes it pools, the accounts it keeps,
the votes it gives. `Verifier` and `MiMC` justify what the others assume
of proofs and hashes as far as the code of this repository is concerned.

### ZKAudit

An action is a transaction that commits; one that reverts is a stuttering step.
`submitBlock` with an invalid proof is kept as the action `submitInvalidProof`,
because it writes the answer and a mark before it reverts. The witness of a
proof and the path of a caller are chosen with `\E` and checked as the verifier
or the contract checks them. The set `votes` holds every message a validator
has signed; `Sign` is the validator of `validator.go`, which signs once per
request and key.

* `root` is the vector of leaves. `inserted` is what `filledSubtrees` remembers.
* A key is named by its secret, the logarithm of the point that is registered,
  and `seed` is the logarithm of the seed point to the base of the one that the
  constructor was given. `NextSeed` multiplies it by the aggregator's secret in
  a group of `SeedOrder` points, as the circuit does (`aggregationCircuit.go:72`).
  Anybody may register any key, so a seed may stay as it is or come back, and
  the root with it. The point in `deploy.ts` lies in the subgroup of prime
  order that the base point of the curve generates, so one group holds both.
* `Drawable` is the set of draws that let `getBlockByNumber` end: the
  pseudo-random number does not change within a transaction, so a rejected
  draw repeats until the gas is used up, which is a revert.
* `timestamp` is `Genesis + height`: `withdraw` compares a time with a block
  number, and both have to be there.
* Roles, `payable` and the black list, which is never read, are left out.
  Balances are natural numbers; the field of the circuits and 256-bit
  overflow are not modelled (ERC-20 and Solidity 0.8 revert on overflow).
* Hashes exclude zero. `submitBlock` would treat a zero hash as no answer, and
  validators sign the hash of a block.

### AggregationCircuit

Public inputs and witness are chosen in `Init`, over every tree, ordered or
not; `Witness` holds this for both circuits. Each block of constraints is an action that is enabled when its
constraints can be satisfied. Balances are natural numbers far below the
modulus; the bits are taken modulo `SNARK_SCALAR_FIELD`, which has room for one
bit of each seat (`FieldAssumption`), as it has for the eight seats that paths
of `Depth` four reach. `Pow` squares and multiplies digit by digit as `pow`
does; leading zeros leave the output at one and are left out. The digits
themselves are a hint of the solver, of which the circuit asks only that they
are bits and that their weighted sum is the index in the field. There are 256
of them and the field has 254, so digits of the index plus a multiple of the
modulus pass as well: `Digits` is what a prover may choose from, and `digits`
remembers the choice. `BitsNameValidators` is about the canonical digits
(`CanonicalDigits`), which are those that the node's own solver computes;
without that condition TLC finds an accepted witness whose bits name other
seats. What the contract does with the bits is to emit them.

### MerkleTree

A hash is the term of its preimage: equal hashes have equal preimages, and
nothing else is assumed. `committed` is the vector of leaves the root should
stand for. `setRoot` is applied to roots a proof can lead to, the tree with
another leaf at a registered position.

### VotePool

`add` is one step because it runs under the pool's lock; its send on the
unbuffered channel succeeds only while the goroutine is blocked at the channel
(`phase = "waiting"`), and is otherwise dropped. `getVotes` is a step of its
own, so votes can arrive in between. `credits` are the rewards written to the
account store ahead of the chain: they are put back on success and left on an
error. A batch larger than the array of validators is an index out of range,
and ends the process (`up`). A restart begins in `Init`: the pool is not
stored.

### OracleNetwork

`ProcessVotes` finds a proof against the root and the seed of the moment and
keeps it in `proofs`; `submitProof` is `submitBlock` with such a proof, at any
later time and any number of times, accepted only if `Verifies`: root and seed
are public inputs that the contract fills in. Slashing proofs likewise, with
the stored answer as public input. A proof that is never submitted is that of
a node that crashed or was late.

### SlashingCircuit

As `AggregationCircuit`: public inputs and witness in `Init`, an action per
block of constraints. The signed hash is a witness, compared with the stored
one only at the end.

### NodeState

A step is one critical section of `State`, so everything may happen between
the `ReadAccount` and the `WriteAccount` of a credit. `log` and `tree` are the
contract: its events, and the balances a proof has to be about. `data` and
`hData` are the two byte slices; a slot holds an account or `Zero`, which is
what `Deserialize` makes of bytes never written. The log also holds events that
change no leaf, one that the binding knows and does not handle and one that it
does not know (`OtherEvents`). `FilterLogs` fails or gives the replay what was
mined up to `ReplayTo` (block 50). The replay handles an event (`Update`), passes
it (`Skip`) or ends with an error (`UnknownEvent`), after which there is no
watcher: `phase = "failed"`. Otherwise the two watchers subscribe, in any
order, or end because they cannot, and are given what is mined afterwards.
The aggregator copies both slices without the lock (`Copies`: a slot shows the
old or the new), writes its rewards through the same `ReadAccount` and
`WriteAccount`, proves, puts both slices back one after the other, and
submits. A transaction that is mined but reverts counts as done (`Reverted`):
the receipt's status is not looked at (`aggregator.go:247`). `Restart` loses
everything but the chain; restarts and failing subscriptions together are
bounded by `MaxIncidents`. A registration resets the rewards in `tree`, as
`insert` does. A block holds one event, so `ReplayTo` counts events.

Three history variables state the properties: `handled`; `orderly`, which an
answer that is handled before its seats are known makes false; `overlapped`,
which a handler that runs while the aggregator uses the store makes true.

### StateLock

A call of `State` is the script of its calls of the hash object; a step is one
of these. A hash is the list of what was written since the last reset.
Writers exclude everybody, readers only writers.

### Validator

`chain` has one record per block: the fork it came with and the block it asks
for, if any. `Reorganise` replaces up to `ReorgDepth` blocks by one more than
it removes, and delivers the logs of removed and new blocks, both of which the
watcher handles. A handler's two reads of the chain are two steps, and the
chain may reorganise between them; the history variable `torn` remembers the
votes whose header had been replaced when the head was read. Every call that
fails, and a vote whose answer is lost, ends the goroutine.

### Registration

`WaitFails`, `Exit` and `Stop` are all the ways in which a start ends early, at
each point. `Listeners` is what makes `WaitEvent` take anybody's event. What a
process serves is `config`, read at its start; what it writes is `file`.
The history variable `serial` says that no node was started while another one
was on its way to a seat (`Settled`).

### Verifier, MiMC

The curve of the contracts, `y^2 = x^3 + 3`, over the field of 7 elements has 13
points, a prime number; the first group and its arithmetic are computed, the
second group and the pairing are taken by logarithms. `MiMC` hashes two
messages at once, so that "different words differ after each round" is an
invariant. `Digest` is the library's definition, which the node uses.

### Simulator

The script of a mode is a sequence of the functions it calls; `at` is the next
one and `i` the turn of a loop. Calls of the contract are the actions of
`ZKAudit` with the values the program sends. `witness` holds what is assigned
for a proof, each leaf with the tree its path was read from. `Panic` is every
error: of a call, of the wait for its transaction, of a transaction that would
revert, of a file, a key or an index, so it may follow any step. Files and cost
measurements are left out, and the calls are those of today's contract, though
the binding in the repository is of an older one.

## Runs

| Run | Instance | What it shows |
| --- | --- | --- |
| `answers` | 3 seats, 2 votes per answer, 2 hashes, 1 request | the contract implements the ledger; an answer was asked for and has a quorum; rewards and slashes are exact; only dissenters lose stake |
| `stakes` | 2 users, 2 seats, an answer with rewards, minting and burning, a block | accounts stay at their position; a withdrawn seat stays empty; who withdraws a seat or is replaced is paid what it holds; types |
| `oracle_network` | 2 seats, 1 vote, 2 requests, 2 proofs and 1 accusation in flight | late, repeated and lost proofs do nothing the contract with instant proofs could not do, also on a root and a seed that have returned; an answer is final |
| `simulator` | committee of 4, 3 votes, 2 keys, 2 proofs per mode | the client's tree follows the contract's, all it assigns is provable, and it ends, whichever call fails |
| `foundations` | all trees of 3 leaves with 2 validators or an accused and a slasher; 13 points, 2 inputs of 5 words; field of 7, words of 5 bits, 2 rounds; trees of 4 and 8 leaves with 2 changes | each circuit accepts its relation and nothing else, and the bits of canonical digits name the credited seats; the verifier accepts what satisfies the equation, on canonical words; rounds lose nothing, contract and node agree on the hash; a path opens one leaf, the root stands for the leaves |
| `vote_pool` | 3 seats, 2 hashes, 2 requests, 2 votes | a batch that is proved is a quorum, sent once; no unpaid reward while waiting; a wake-up is served, unless an error or a panic ends it |
| `node_state` | 2 seats, 3 events, replay of 2, 1 batch, 1 restart or failing subscription | no event is handled twice; what is mined after the subscription is handled, and what is fetched with no unknown event before it; the store is what the events make of it |
| `validator` | 2 confirmations, 5 blocks, 2 requests, 2 forks of depth 2, 1 restart | a request is signed once unless the chain reorganised, and answered; what was signed stays in the chain unless it was gone between the two reads |
| `registration` | 2 nodes, 4 seats, 3 starts each | a start costs at most one seat; a node's file names its own seat if nodes start one at a time; who has subscribed comes to serve |
| `unregistered_aggregator` | 1 vote, 1 request | violation: the draw names a seat nobody holds |
| `early_reward` | 3 seats, 1 vote | violation: a registration takes rewards back |
| `state_lock` | 1 proof and 1 root | violation: a proof that was just built does not verify |

`foundations` is one run of six independent parts: `part` is chosen in the
initial state, and a step is one of that part. Its properties are named for the
part they are about; `Four` and `Eight` are the two trees.

The bounds. Three seats and a quorum of two are the least at which a dissenter
stays outside a quorum, the aggregator may or may not be one of the
validators, and a slasher differs from the accused; two hashes are the least
that contradict each other; two requests are the least of which one is not
issued yet. `MaxStake` limits what `replace` brings to a full tree, and leaves
room for a replacement at the price of a rewarded seat. Blocks are mined
and tokens minted and burned only in `stakes`, whose properties are about time
and balances. Eight leaves have paths that turn at every height. The pool needs as many
votes as two quorums and one more hold, which three seats and two hashes give.
Two proofs for two requests are the least of which one becomes stale by the
other, and a slash or replacement between them may bring the root back; the key
of this run is 1, under which the seed never moves, so a late proof is refused
for its root alone, and one is accepted after an answer in between when the root
is back. That other keys do no more harm is proved. In `foundations`, four
digits over a field of 13 let an index be spelled in two ways. In
`node_state`, three events let handlers of both kinds, the replay and the
aggregator meet; a replay of two leaves the third event to a subscription or to
nobody. The difference of two
block numbers is taken in 4 bits, which hold every height; that it never wraps is
part of the proof. A reorganisation as deep as the confirmations is the deepest
that leaves a signature alone, and two of them meet a chain that has grown. Three
starts of two nodes are more than the seats, so a full tree occurs. In
`state_lock`, two leaves have both ways for a path to turn. Words of the hash are taken in, at and above the field and at
the largest value; the assumption `3 * localQ < 2^Width` holds of the real
modulus and 256 bits as well, and so does `PowerAssumption`, that different
elements have different fifth powers, because five does not divide the order of
the field less one.
A property checked for few seats here is proved for any number below, with the
exceptions named there.

Deadlock is not checked: users may have done all that the bounds allow, a
witness that fails a constraint stops there, a panic ends the process, a call
or a program comes to its end.

Every property has a mutant in `PROJECT.json`: an operator beside the original
with a plausible bug in it, under which the run finds the property violated.

### What the violations show

* `AggregatorIsRegistered`: `random % accountNumber + 1` (`ZKAudit.sol:186`)
  draws from 1 on, seats are numbered from 0. The seat `accountNumber` has no
  owner, and a request that drew it cannot be answered. In a full tree it never
  gets one.
* `RewardsKept`: `insert` rebuilds the root from `filledSubtrees`
  (`MerkleTree.sol:52`), which `setRoot` does not touch. While the tree fills,
  each registration undoes all rewards and slashes. Once it is full, the
  property holds for everyone who did not dissent, and
  `OnlyDissentersLoseStake` is checked and proved in that form.
* `ProofVerifies`: `Root` and `MerkleProof` hold the lock for reading
  (`state.go:77`, `:89`) and use one hash object. A proof that mixes with a root
  does not verify, and the error ends the aggregator.

Other properties hold under a condition, and the condition is the disagreement:

* `SignedStays` leaves out the votes whose header was replaced between the
  validator's two reads (`validator.go:44` and `:49`), by the history variable
  `torn`: what is compared is heights, and such a reorganisation leaves the
  height and replaces the block. All other votes stay, whenever the chain
  reorganises.
* `BitsNameValidators` is about provers that take the canonical digits of an
  index (`CanonicalDigits`).
* `Delivered` promises an event of the replay only when no unknown one comes
  before it, and says nothing of the node whose replay has failed.
* `StateRestored` is about an aggregator that goes on: after an error it ends
  and leaves the rewards it wrote ahead (`aggregator.go:217`).
* `WokenServed` begins with a wake-up that was received: the send on the channel
  does not wait for the aggregator (`votepool.go:70`).
* `SignedOnce` concerns a chain without forks: logs of removed blocks are
  delivered again and handled like new ones.
* `StoreFollows` excludes runs in which a handler met the aggregator
  (`overlapped`): it puts the store back as it was before the proof
  (`aggregator.go:218`), and with it every event that was handled since. It
  also excludes those in which an answer was handled before its seats were
  known (`orderly`).
* `LeaverPaid` says what a withdrawal pays, not that the seat had exited: exit
  times belong to addresses (`ZKAudit.sol:269`), seats to indices, and a block
  number is compared with a time in the sense opposite to the message "time
  not passed". An owner of two seats exits one and withdraws the other.
* `OwnSeat` assumes that nodes are started one at a time (`serial`), because
  `WaitEvent` takes the first registration of anybody.

### Fairness

`ZKAudit` states safety only: no user has to act. In `AggregationCircuit` a
constraint that can be satisfied is solved, `WF_vars(Next)`: the prover has no
other choice. In `VotePool`, `WF_vars(Aggregate)`: a goroutine that can run is
scheduled, proving ends, and `WaitMined` returns. Nothing is assumed of
validators, and failure stays possible at each step. `NodeState` has one
`WF_vars` for each goroutine that the Go scheduler runs: the replay, each
watcher's subscription and its handling of events, each access to the store;
none for the chain, the aggregator, failures or restarts. `Validator` has it
for the subscription and the handler. In `Registration` a started process and
its waiting goroutine run on and a transaction that was sent is mined; nobody
has to start, stop or restart a node. `SlashingCircuit` is like
`AggregationCircuit`, and the simulator is one thread that runs on by itself.
`OracleNetwork`, `StateLock`, `Verifier` and `MiMC` state safety only.

## Proofs

All proofs are checked by TLAPS without fingerprints; they assume what the
constants' named assumptions say and nothing else.

**ZKAuditProofs.** `IInv` is `TypeOK`, `SeatsInOrder` and `QuorumBacked`, with
three strengthenings. A quorum is counted over the
indices in the leaves, so it is one of different seats only when an index is
its position: `SeatsInOrder`. A registration rebuilds the tree, so the leaves
it remembers have to be in order as well: `InsertedInOrder`. `replace` skips
the check of its path for marked seats, so it has to say that nobody is marked,
which holds because the transaction that marks always reverts. A stored
answer concerns an issued request because votes do: `VotesForIssued`. On this
invariant rest the state properties, the action properties `AnswersFinal`,
`SeatsStayEmpty`, `OnlyDissentersLoseStake` and `LeaverPaid`, and the refinement
`ImplementsLedger`: `getBlockByNumber` maps to `Issue`, `Sign` to `Sign`,
`submitBlock` to `Answer`, everything else to a stutter. `LeaverPaid` needs one
more invariant, `Vacant`: a seat that is not registered yet has no owner, so a
registration takes none from anybody. The stake that is paid is the one in the
leaf because `replace` verifies the account the caller names.

`RewardsMinted` is about sums over all seats. `Stake` is the sum that a fold
computes; `DataLemmas` shows what such a sum is when one summand changes, and an
answer changes two, or one twice. That each credited seat is a leaf, and a
different one from the others, is `QuorumBacked` once more.

In `OracleNetwork` a proof in flight satisfied the relation when it was
found, and goes on doing so for its own root, because votes are never taken
back: `ProofsHold`, `AccusationsHold`. When the contract accepts it, root and
seed are those it was found with, be it that they never moved or that they came
back, so the step is one of `ZKAudit`. Hence `LateProofsImplement`, and with it
`LateAnswersBacked` from the theorem about the contract.

`InStep` and `Provable` of the simulator are not inductive: a turn may find the
client ahead of the contract. `SimInv` says for each place of the script what
the client's tree is: the contract's, or after a witness was assigned the one
its proof turns the contract's into; and that its seats still hold the keys the
script signs with. The contract's own state is followed from the roots that
`insert` rebuilds turn by turn (`Enrolled`). A witness is provable because the
script picks votes of different seats and starts from a balance that is there.

**DataLemmas.** The provers cannot instantiate the library's induction
theorems, which take an operator. Here induction is stated with a set in place
of the operator: a set of naturals that holds 0 and with `n` also `n + 1` holds
all of them (`Induction`), and a set of finite sets likewise (`SetInduction`).
From these follow the existence of sums over finite sets and of functions
defined by recursion on the naturals (`Recursion`), which is what allows a
recursive function of a model to be unfolded. `FoldTotal` is the same sum for the
community modules' fold.

**MerkleTreeProofs**, for a tree of any height. `TreeInv` has the root and, at
each height, what `filledSubtrees` holds (`FilledExact`): where the path of the
next leaf comes from the right, the hash of the sibling on the left, over the
leaves as inserted. An insert changes a height only where the path comes from
the left; at the others the sibling is out of its reach (`NodeLocal`: a node
depends on the leaves below it). With it the path of an insert climbs through
the nodes of the new tree, the right siblings being empty, and ends at its root
(`RootStands`). For `PathsVerifyExactly`, `PathUp` says that the path of
`MerkleProof` leads to the root, and `PathDown` that a path which leads to the
root agrees with the tree's nodes at every height, because a hash has one
preimage; which child is which is what the helper bit says, so position and bits
determine each other (`EveryPath`).

**FoundationsProofs.** Its hash section unrolls contract and digest side by
side. `HashInv` says that after `i` words the contract holds the digest of these,
and within a word what the cipher makes of it after the rounds passed. The
contract reduces at other places than the library, so each round is a lemma
about remainders, and so is the step of the chain, where the words need not be
in the field. `RoundsLoseNothing` compares two messages: adding a constant and
the key is injective in the field, and the fifth power by `PowerAssumption`.
The theorems of `MerkleTreeProofs` hold in both trees, through two instances of that module.
`LoopInv`, for the aggregation circuit, says that after `n` validators the
intermediate root is the initial one plus the aggregator's reward and the first
`n` validators' rewards. That the next validator is not among them is what the
check for duplicates gives; that the aggregator may be is why the sum is
written as two shares. `BitsName` is about the number that the circuit adds up
for the event. That `pow` gives a power of two (`PowDoubles`) is shown against
repeated doubling, and `SetBit` that such a power, added where the word has no
bit, sets this bit and carries nowhere. The word so far has no bit at or above
`Capacity` (`BitsBelow`), so it stays below the modulus (`BelowField`). `BitsInv` says that the bits so far are
those of the validators so far, so the next one's bit is free because of the
check for duplicates. `StageInv`, for the slashing circuit, says what the
constraints so far make of `leaf` and `root`. Accused and slasher may be one
leaf, where the credit is added to a balance already emptied.

`VerifierInv` says that after `k` inputs `vk_x` is the multiple of the generator
that the key's first element and the first `k` weighted inputs add up to
(`UpTo`), and that the words are those that were sent. The four pairings
multiply to one exactly when the sum of products of logarithms is zero modulo
the order (`PairingProduct`, `PairingEquation`), which is the equation. An
encoding with a second word for the same coordinate is outside the field, and
the contract reverts. `GroupAssumption` says that the multiples of the generator
are a group and that a point's coordinates tell it from others; TLC evaluates it
on the small curve. Of the key the proof uses only that its logarithms are in
range.

**VotePoolProofs.** The argument counts. The counters are the numbers of pooled
votes, because a vote is counted once. At a wake-up the pool holds a quorum for
one hash, the batch read later still does, and one that fits the witness has
room for nothing else. A second wake-up for a request means two quorums, which
do not fit, so it ends in the panic and not in a second transaction.

**NodeStateProofs.** `IInv` says who handled an event: the replay those it was
given and has passed, a watcher those of its kind between its subscription and
its position. The replay was given its events before anybody subscribes, so the
two never meet. `StoreFollows` speaks of moments at which nobody changes the
store; `StoreInv` has to speak of all others. In `Expected` an account has what
the handled answers earned it less what is `Due`, the credits that replay or
watcher still has to write (`Owed`); rewards are naturals (`RewardAssumption`).
An answer adds as much to the one as to the other (`CreditsOwed`, `PaidMore`), a
written credit takes its reward off `Due`. What a handler holds between its read
and its write is still in the store: replay and watcher have credits in
different phases (`OneWorks`), and a registration makes an account of which
nothing is due, because a seat is registered once and no event is handled twice.
While the aggregator proves, the store is left to it, and the expected accounts
are those it has copied.

**RegistrationProofs.** A start without a registered file pays for one
transaction, and it is sent at most once: the seats and pending transactions
of a node, and one for a process that is still to send, are no more than its
starts. That a registered process never gets to send is why the configuration
has to agree with the file. For `SeatIsOwn`, when one node at a time is
active, only its transaction is pending, so the event it hears is its own.

**ValidatorProofs.** `Deep` says that a block is in the chain under at least
`CONFIRMATIONS` others. What is confirmed or signed is deep; a reorganisation
no deeper than the confirmations leaves it and makes the chain longer. The
theorem assumes `ReorgDepth <= CONFIRMATIONS` and nothing of when the chain
reorganises: a header that is the chain's when the head is read is deep then,
and one that is not makes its vote `torn`. `NoOverflow` is why the unsigned difference is the
real one: the header's number is no greater than the head's. For `SignsOnce`,
`OnceInv` orders the requests: votes, then the one being handled, then the
inbox, by strictly rising numbers below the number of requests in the chain. A
block that is mined adds at most the next number (`LastLogs`), and a
subscription, also that of a restarted node, starts with what is mined after it.

**Only proved.** `FileFinal`, that a registered file never changes
(`FilesFinal`), supports the other proofs and is in no run.

**Only model-checked.** `Complete`, `SlashingComplete`, `WokenServed`,
`Delivered`, `Answered`, `Returns` and `SimulationEnds` are liveness, which is
not within reach of the provers.

## Not modelled

* `ownership.go`, which is called from nowhere; the setup compiler and the
  deployment script, which have no state; configuration values and logging.
* Generated code, except for the subscriptions the node uses: `contract.go` and
  the two `pb.go` files pack and unpack arguments.
* In the vote API, the read of the sender's account: the votes that reach the
  pool are those of seats the store knows.
* Cryptography as such: that Groth16 is sound for its equation, that MiMC does
  not collide, that a signature is its signer's, and the pairing and the
  second group of the curve.
* The bytes of an account, and the slice inside the hash object: its calls are
  atomic in `StateLock`, which the library does not promise.
* Answers of the Ethereum node that are wrong or out of order.
