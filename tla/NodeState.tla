----------------------------- MODULE NodeState -----------------------------
(***************************************************************************)
(* A node's copy of the account tree (state.go) and the goroutines that     *)
(* share it: Update replays past events, two watchers handle new ones       *)
(* (sync.go, event.go), and the aggregator writes rewards ahead of its      *)
(* proof and puts its copy of the store back (aggregator.go).  One step is  *)
(* one critical section of State.  The contract mines one event a block.    *)
(***************************************************************************)
EXTENDS Integers, Sequences, FiniteSets

CONSTANTS
    NumSeats,           \* leaves of the contract's tree
    StoreSize,          \* accounts the store was made for
    NumAccounts,        \* votes in an answer
    AggregatorReward,
    ValidatorReward,
    Self,               \* the node's own seat
    ReplayTo,           \* last block that Update asks for
    MaxEvents,          \* bound: events that are mined
    MaxIncidents        \* bound: batches the node aggregates, restarts of the node
                        \* and subscriptions that fail, taken together

ASSUME SeatAssumption == NumSeats \in Nat /\ StoreSize \in Nat /\ Self \in 0..NumSeats - 1
ASSUME ReplayAssumption == ReplayTo \in Nat
ASSUME RewardAssumption ==
    NumAccounts \in Nat /\ AggregatorReward \in Nat /\ ValidatorReward \in Nat

VARIABLES
    log,            \* events in the order they were mined
    tree,           \* the balances in the contract's tree, one per registered seat
    up,             \* the process runs
    incidents,
    data,           \* slot -> account
    hData,          \* slot -> the account its hash was made of
    phase,          \* of Synchronize: filter, replay, done or failed
    fetched,        \* events that Update was given
    watcher,        \* watcher -> none, on or stopped
    next,           \* goroutine -> the event it looks at next
    first,          \* watcher -> the first event of its subscription
    work,           \* goroutine -> credits it still has to write
    held,           \* goroutine -> account it has read, or <<>>
    stage,          \* of the aggregator
    saved,          \* what the aggregator copied, and what it proves
    handled,        \* history: events in the order their handling began
    orderly,        \* history: no answer was handled before its seats were known
    overlapped      \* history: a handler ran while the aggregator used the store

chainVars == <<log, tree>>
storeVars == <<data, hData>>
syncVars  == <<phase, fetched, watcher, next, first>>
aggVars   == <<stage, saved>>
runVars   == <<up, incidents>>
pastVars  == <<handled, orderly>>
vars == <<chainVars, storeVars, syncVars, aggVars, runVars, pastVars, work, held, overlapped>>

Slots    == 0..StoreSize - 1
Watchers == {"Registered", "BlockSubmitted"}
Handlers == Watchers \cup {"Update"}
Routines == Handlers \cup {"Aggregate"}

\* What Deserialize makes of bytes that were never written.
Zero == [index |-> 0, known |-> FALSE, balance |-> 0]

Voters == {V \in SUBSET DOMAIN tree : Cardinality(V) = NumAccounts}

NodeInit ==
    /\ data = [s \in Slots |-> Zero]
    /\ hData = [s \in Slots |-> Zero]
    /\ phase = "filter" /\ fetched = 0
    /\ watcher = [w \in Watchers |-> "none"]
    /\ next = [h \in Handlers |-> 1]
    /\ first = [w \in Watchers |-> 1]
    /\ work = [g \in Routines |-> <<>>]
    /\ held = [g \in Routines |-> <<>>]
    /\ stage = "idle" /\ saved = [V |-> {}]
    /\ handled = <<>> /\ orderly = TRUE /\ overlapped = FALSE

Init ==
    /\ log = <<>> /\ tree = <<>>
    /\ up = TRUE /\ incidents = 0
    /\ NodeInit
----------------------------------------------------------------------------
(* The contract.  A registration rebuilds the tree from the registered      *)
(* leaves, as MerkleTree.insert does, without the rewards.                  *)

Credited(leaves, submitter, V) ==
    [s \in DOMAIN leaves |->
        leaves[s] + (IF s = submitter THEN AggregatorReward ELSE 0)
                  + (IF s \in V THEN ValidatorReward ELSE 0)]

Registers ==
    /\ Len(log) < MaxEvents /\ Cardinality(DOMAIN tree) < NumSeats
    /\ tree' = [s \in 0..Cardinality(DOMAIN tree) |-> 0]
    /\ log' = Append(log, [name |-> "Registered", seat |-> Cardinality(DOMAIN tree)])
    /\ UNCHANGED <<storeVars, syncVars, aggVars, runVars, pastVars, work, held, overlapped>>

Answer(submitter, V) ==
    /\ tree' = Credited(tree, submitter, V)
    /\ log' = Append(log, [name |-> "BlockSubmitted", submitter |-> submitter, V |-> V])

OtherAnswers ==
    /\ Len(log) < MaxEvents
    /\ \E submitter \in DOMAIN tree \ {Self}, V \in Voters : Answer(submitter, V)
    /\ UNCHANGED <<storeVars, syncVars, aggVars, runVars, pastVars, work, held, overlapped>>
\* Logs that change no leaf: of an event that the node's binding knows but does
\* not handle, and of one that the binding, which is older than the contract,
\* does not know.  The constructor of today's contract begins with the latter.
OtherEvents ==
    /\ Len(log) < MaxEvents
    /\ \E name \in {"BlockRequested", "Transfer"} : log' = Append(log, [name |-> name])
    /\ UNCHANGED <<tree, storeVars, syncVars, aggVars, runVars, pastVars, work, held, overlapped>>
----------------------------------------------------------------------------
(* The store. *)

\* The aggregator is between the first copy of the store and the last reset.
UsesStore == stage \in {"copying", "copied", "kept", "proving", "proved", "restored"}

\* The goroutine reads the account it credits next; out of range ends the
\* process.
ReadAccount(g) ==
    /\ up /\ work[g] # <<>> /\ held[g] = <<>>
    /\ LET seat == Head(work[g]).seat IN
        IF seat \in Slots
        THEN held' = [held EXCEPT ![g] = <<data[seat]>>] /\ up' = up
        ELSE held' = held /\ up' = FALSE
    /\ overlapped' = (overlapped \/ (g # "Aggregate" /\ UsesStore))
    /\ UNCHANGED <<chainVars, storeVars, syncVars, aggVars, incidents, pastVars, work>>

\* An account is written where its own index says.
Written(slots, account) == [slots EXCEPT ![account.index] = account]

\* The goroutine writes the account it has read, credited.
WriteAccount(g) ==
    /\ up /\ held[g] # <<>>
    /\ LET account == [held[g][1] EXCEPT !.balance = @ + Head(work[g]).reward] IN
        /\ data' = Written(data, account)
        /\ hData' = Written(hData, account)
    /\ held' = [held EXCEPT ![g] = <<>>]
    /\ work' = [work EXCEPT ![g] = Tail(@)]
    /\ overlapped' = (overlapped \/ (g # "Aggregate" /\ UsesStore))
    /\ UNCHANGED <<chainVars, syncVars, aggVars, runVars, pastVars>>
----------------------------------------------------------------------------
(* Synchronisation. *)

Idle(g) == work[g] = <<>>

\* The credits of an answer: its submitter and, of the seats that voted, those
\* whose bit is among the first NumAccounts.
Credits(event) ==
    LET Bit(n) == IF n \in event.V THEN <<[seat |-> n, reward |-> ValidatorReward]>> ELSE <<>>
        bits[n \in 0..NumAccounts] == IF n = 0 THEN <<>> ELSE bits[n - 1] \o Bit(n - 1)
    IN  <<[seat |-> event.submitter, reward |-> AggregatorReward]>> \o bits[NumAccounts]

HandleRegisteredEvent(event) ==
    LET account == [index |-> event.seat, known |-> TRUE, balance |-> 0] IN
    /\ IF event.seat \in Slots
       THEN data' = Written(data, account) /\ hData' = Written(hData, account) /\ up' = up
       ELSE up' = FALSE /\ UNCHANGED storeVars
    /\ UNCHANGED <<work, orderly>>

HandleBlockSubmittedEvent(g, event) ==
    /\ work' = [work EXCEPT ![g] = Credits(event)]
    /\ orderly' = (orderly /\ \A n \in DOMAIN Credits(event) :
                                LET seat == Credits(event)[n].seat
                                IN  seat \in Slots => data[seat].known)
    /\ up' = up /\ UNCHANGED storeVars

\* Handler g takes up the event n.
Handle(g, n) ==
    /\ handled' = Append(handled, n)
    /\ next' = [next EXCEPT ![g] = n + 1]
    /\ \/ log[n].name = "Registered" /\ HandleRegisteredEvent(log[n])
       \/ log[n].name = "BlockSubmitted" /\ HandleBlockSubmittedEvent(g, log[n])
    /\ overlapped' = (overlapped \/ UsesStore)
    /\ UNCHANGED <<chainVars, phase, fetched, watcher, first, aggVars, incidents, held>>

\* The call may fail, and Synchronize with it.
FilterLogs ==
    /\ up /\ phase = "filter"
    /\ \/ /\ phase' = "replay"
          /\ fetched' = IF Len(log) < ReplayTo THEN Len(log) ELSE ReplayTo
       \/ phase' = "failed" /\ fetched' = fetched
    /\ UNCHANGED <<chainVars, storeVars, watcher, next, first, aggVars, runVars, pastVars,
                   work, held, overlapped>>

\* EventByID finds the log of event n.
Known(n) == log[n].name # "Transfer"

\* The replay has credited what it handled last and looks at the next log.
Replays == up /\ phase = "replay" /\ Idle("Update") /\ next["Update"] <= fetched

Update ==
    /\ Replays /\ log[next["Update"]].name \in Watchers
    /\ Handle("Update", next["Update"])

\* An event that is known but not handled.
Skip ==
    /\ Replays /\ Known(next["Update"]) /\ log[next["Update"]].name \notin Watchers
    /\ next' = [next EXCEPT !["Update"] = @ + 1]
    /\ UNCHANGED <<chainVars, storeVars, phase, fetched, watcher, first, aggVars, runVars,
                   pastVars, work, held, overlapped>>

\* An event that is not known is an error: Synchronize returns it before it
\* starts the watchers, and the rest of the node goes on.
UnknownEvent ==
    /\ Replays /\ ~Known(next["Update"])
    /\ phase' = "failed"
    /\ UNCHANGED <<chainVars, storeVars, fetched, watcher, next, first, aggVars, runVars,
                   pastVars, work, held, overlapped>>

Synchronize ==
    /\ up /\ phase = "replay" /\ Idle("Update") /\ next["Update"] > fetched
    /\ phase' = "done"
    /\ UNCHANGED <<chainVars, storeVars, fetched, watcher, next, first, aggVars, runVars,
                   pastVars, work, held, overlapped>>

\* Mutated form of Since: the subscription asks for the past as well.
SinceStart == 1

\* A subscription delivers what is mined after it.
Since == Len(log) + 1

\* The watchers are goroutines of their own and subscribe one after the other;
\* one that cannot subscribe ends.
Subscribe(w) ==
    /\ up /\ phase = "done" /\ watcher[w] = "none"
    /\ \E outcome \in {"on", "stopped"} : watcher' = [watcher EXCEPT ![w] = outcome]
    /\ next' = [next EXCEPT ![w] = Since]
    /\ first' = [first EXCEPT ![w] = Since]
    /\ UNCHANGED <<chainVars, storeVars, phase, fetched, aggVars, runVars, pastVars,
                   work, held, overlapped>>

\* Mutated form of Matching: a watcher sees only the newest event.
MatchingLast(w) == {n \in next[w]..Len(log) : n = Len(log) /\ log[n].name = w}

\* The events of its kind that the subscription has not delivered yet.
Matching(w) == {n \in next[w]..Len(log) : log[n].name = w}

\* The watcher takes the oldest event that was delivered.
WatchEvent(w) ==
    /\ up /\ watcher[w] = "on" /\ Idle(w)
    /\ \E n \in Matching(w) : (\A m \in Matching(w) : n <= m) /\ Handle(w, n)

\* The subscription fails and the watcher ends.
SubscriptionError(w) ==
    /\ up /\ watcher[w] = "on" /\ Idle(w) /\ incidents < MaxIncidents
    /\ watcher' = [watcher EXCEPT ![w] = "stopped"]
    /\ incidents' = incidents + 1
    /\ UNCHANGED <<chainVars, storeVars, phase, fetched, next, first, aggVars, up,
                   pastVars, work, held, overlapped>>
----------------------------------------------------------------------------
(* The aggregator. *)

\* The votes were verified with keys of the store.
Aggregate ==
    /\ up /\ stage = "idle" /\ incidents < MaxIncidents
    /\ \E V \in Voters :
        /\ \A s \in V : s \in Slots /\ data[s].known
        /\ saved' = [V |-> V, data |-> data]
    /\ stage' = "copying" /\ incidents' = incidents + 1
    /\ overlapped' = (overlapped \/ \E h \in Handlers : ~Idle(h))
    /\ UNCHANGED <<chainVars, storeVars, syncVars, up, pastVars, work, held>>

\* Both copies are made without the lock: each slot may show what is written
\* while they are made, or what was there before.
Copies(before, now) ==
    {[s \in Slots |-> IF s \in fresh THEN now[s] ELSE before[s]] : fresh \in SUBSET Slots}

CopyData ==
    /\ up /\ stage = "copying"
    /\ \E copy \in Copies(saved.data, data) :
        saved' = [V |-> saved.V, data |-> copy, hData |-> hData]
    /\ stage' = "copied"
    /\ UNCHANGED <<chainVars, storeVars, syncVars, runVars, pastVars, work, held,
                   overlapped>>

CopyHData ==
    /\ up /\ stage = "copied"
    /\ \E copy \in Copies(saved.hData, hData) : saved' = [saved EXCEPT !.hData = copy]
    /\ stage' = "kept"
    /\ UNCHANGED <<chainVars, storeVars, syncVars, runVars, pastVars, work, held,
                   overlapped>>

\* The credits of the aggregator itself, then one per vote.
MerkleProof ==
    LET Votes == {[seat |-> s, reward |-> ValidatorReward] : s \in saved.V} IN
    /\ up /\ stage = "kept"
    /\ \E votes \in [1..NumAccounts -> Votes] :
        /\ {votes[n] : n \in 1..NumAccounts} = Votes
        /\ work' = [work EXCEPT !["Aggregate"] =
                        <<[seat |-> Self, reward |-> AggregatorReward]>> \o votes]
    /\ saved' = [V |-> saved.V, data |-> saved.data, hData |-> saved.hData, pre |-> hData]
    /\ stage' = "proving"
    /\ UNCHANGED <<chainVars, storeVars, syncVars, runVars, pastVars, held, overlapped>>

\* The post root proves only if it is the pre root with the rewards.
Provable ==
    /\ Self \in Slots /\ saved.pre[Self].known
    /\ LET earned == Credited([s \in Slots |-> 0], Self, saved.V)
       IN  hData = [s \in Slots |-> [saved.pre[s] EXCEPT !.balance = @ + earned[s]]]

\* After an error the aggregator ends and leaves the store as it is.
Prove ==
    /\ up /\ stage = "proving" /\ Idle("Aggregate")
    /\ stage' = IF Provable THEN "proved" ELSE "failed"
    /\ UNCHANGED <<chainVars, storeVars, syncVars, runVars, pastVars, saved, work, held,
                   overlapped>>

SetData ==
    /\ up /\ stage = "proved"
    /\ data' = saved.data
    /\ stage' = "restored"
    /\ UNCHANGED <<chainVars, hData, syncVars, runVars, pastVars, saved, work, held,
                   overlapped>>

\* Mutated form of Restored: the hashes keep the rewards.
RestoredKept == hData

Restored == saved.hData

SetHData ==
    /\ up /\ stage = "restored"
    /\ hData' = Restored
    /\ stage' = "submitting"
    /\ UNCHANGED <<chainVars, data, syncVars, runVars, pastVars, saved, work, held,
                   overlapped>>

\* The accounts of the contract's tree, as a store of this size has them.
Leaves ==
    [s \in Slots |-> IF s \in DOMAIN tree
                     THEN [index |-> s, known |-> TRUE, balance |-> tree[s]] ELSE Zero]

\* The contract accepts only a proof about its present tree.
Submit ==
    /\ up /\ stage = "submitting" /\ Len(log) < MaxEvents
    /\ saved.pre = Leaves
    /\ Answer(Self, saved.V)
    /\ stage' = "idle" /\ saved' = [V |-> {}]
    /\ UNCHANGED <<storeVars, syncVars, runVars, pastVars, work, held, overlapped>>

\* The transaction is mined but reverted; its receipt is not looked at, and the
\* aggregator goes on.
Reverted ==
    /\ up /\ stage = "submitting"
    /\ stage' = "idle" /\ saved' = [V |-> {}]
    /\ UNCHANGED <<chainVars, storeVars, syncVars, runVars, pastVars, work, held, overlapped>>

\* The seed cannot be read, or the transaction is refused when its gas is
\* estimated, and the aggregator ends.
Refused ==
    /\ up /\ stage \in {"kept", "submitting"}
    /\ stage' = "ended"
    /\ UNCHANGED <<chainVars, storeVars, syncVars, runVars, pastVars, saved, work, held,
                   overlapped>>
----------------------------------------------------------------------------
\* The process is killed, or ended by a panic, and starts again.
Restart ==
    /\ incidents < MaxIncidents
    /\ incidents' = incidents + 1 /\ up' = TRUE
    /\ data' = [s \in Slots |-> Zero] /\ hData' = [s \in Slots |-> Zero]
    /\ phase' = "filter" /\ fetched' = 0
    /\ watcher' = [w \in Watchers |-> "none"]
    /\ next' = [h \in Handlers |-> 1] /\ first' = [w \in Watchers |-> 1]
    /\ work' = [g \in Routines |-> <<>>] /\ held' = [g \in Routines |-> <<>>]
    /\ stage' = "idle" /\ saved' = [V |-> {}]
    /\ handled' = <<>> /\ orderly' = TRUE /\ overlapped' = FALSE
    /\ UNCHANGED chainVars

Chain == Registers \/ OtherAnswers \/ OtherEvents

Access(g) == ReadAccount(g) \/ WriteAccount(g)

Synchronizing == FilterLogs \/ Update \/ Skip \/ UnknownEvent \/ Synchronize

Aggregating == \/ Aggregate \/ CopyData \/ CopyHData \/ MerkleProof \/ Prove \/ SetData \/ SetHData
               \/ Submit \/ Reverted \/ Refused

Next ==
    \/ Chain
    \/ Synchronizing
    \/ \E w \in Watchers : Subscribe(w) \/ WatchEvent(w) \/ SubscriptionError(w)
    \/ \E g \in Routines : Access(g)
    \/ Aggregating
    \/ Restart

\* The Go scheduler runs every goroutine that can go on.
Spec ==
    /\ Init /\ [][Next]_vars
    /\ WF_vars(Synchronizing)
    /\ \A w \in Watchers : WF_vars(Subscribe(w)) /\ WF_vars(WatchEvent(w))
    /\ \A g \in Routines : WF_vars(Access(g))
----------------------------------------------------------------------------
(* Properties. *)

Handled == {handled[n] : n \in DOMAIN handled}

\* No event is handled twice, though the replay, two subscriptions and the
\* chain go on at the same time: an answer handled twice would pay twice.
HandledOnce == \A m, n \in DOMAIN handled : handled[m] = handled[n] => m = n

\* What the handled answers pay seat s; a vote pays if its bit is read.
Earned(s) ==
    LET answers == {n \in Handled : log[n].name = "BlockSubmitted"}
        submitted == {n \in answers : log[n].submitter = s}
        voted == {n \in answers : s \in log[n].V /\ s < NumAccounts}
    IN  AggregatorReward * Cardinality(submitted) + ValidatorReward * Cardinality(voted)

Registered(s) == \E n \in Handled : log[n].name = "Registered" /\ log[n].seat = s

\* No goroutine is in the middle of changing the store.
Quiet == (\A g \in Routines : Idle(g)) /\ ~UsesStore /\ stage # "failed"

\* The store is what the handled events make of it, and the hashes are those
\* of the accounts.
Follows ==
    /\ hData = data
    /\ \A s \in Slots :
        data[s] = IF Registered(s) THEN [index |-> s, known |-> TRUE, balance |-> Earned(s)]
                                  ELSE Zero

\* Handlers that run between each other, a proof that is made and taken back,
\* and restarts leave no reward out, pay none twice and keep none that was not
\* paid, as long as no handler ran while the aggregator used the store and
\* every answer found its seats registered.
StoreFollows == up /\ Quiet /\ orderly /\ ~overlapped => Follows

\* An event that Update was given, with none before it that Update does not
\* know, or that was mined after the subscription of its watcher is handled,
\* unless the process or the watcher ends.
Delivered ==
    \A n \in 1..MaxEvents :
        /\ (/\ up /\ phase = "replay" /\ n <= fetched
            /\ log[n].name \in Watchers /\ \A m \in 1..n : Known(m))
                ~> (n \in Handled \/ ~up \/ phase = "filter")
        /\ \A w \in Watchers :
            (/\ up /\ watcher[w] = "on" /\ first[w] <= n
             /\ n <= Len(log) /\ log[n].name = w)
                ~> (n \in Handled \/ ~up \/ watcher[w] # "on")
============================================================================
