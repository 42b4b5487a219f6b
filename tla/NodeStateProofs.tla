-------------------------- MODULE NodeStateProofs --------------------------
(***************************************************************************)
(* No event is handled twice, and the store follows the events, for every   *)
(* number of seats, votes, events, restarts and failing subscriptions.  The *)
(* first invariant says which goroutine handled an event: the replay those  *)
(* that it was given, a watcher those of its kind from its subscription on. *)
(* The second says what the store is while credits are still due, and where *)
(* the aggregator keeps what it will put back.                              *)
(***************************************************************************)
EXTENDS NodeState, DataLemmas, TLAPS

\* The parts of the type of the variables that the argument needs.
PositionType ==
    /\ \E Events : log \in Seq(Events)
    /\ handled \in Seq(Nat)
    /\ fetched \in Nat /\ fetched <= Len(log)
    /\ phase \in {"filter", "replay", "done", "failed"}
    /\ watcher \in [Watchers -> {"none", "on", "stopped"}]
    /\ next \in [Handlers -> Nat]
    /\ first \in [Watchers -> Nat]

\* The replay was given event n and has passed it.
Replayed(n) == n <= fetched /\ n < next["Update"]

\* The watcher w was subscribed when event n was mined and has passed it.
Watched(w, n) ==
    /\ watcher[w] # "none"
    /\ first[w] <= n /\ n < next[w]
    /\ log[n].name = w

PassedOnce ==
    \A m \in DOMAIN handled :
        /\ handled[m] \in 1..Len(log)
        /\ Replayed(handled[m]) \/ \E w \in Watchers : Watched(w, handled[m])

\* Nothing is handled before the logs are fetched, and nobody subscribes
\* before they are replayed.
InPhase ==
    /\ phase = "filter" => handled = <<>>
    /\ \A w \in Watchers : watcher[w] # "none" =>
        phase = "done" /\ fetched < first[w] /\ first[w] <= next[w]
    /\ next["Update"] >= 1

IInv == PositionType /\ PassedOnce /\ InPhase /\ HandledOnce

LEMMA InitInv == Init => IInv
<1> SUFFICES ASSUME Init PROVE IInv
    OBVIOUS
<1>1. log \in Seq({}) /\ Len(log) = 0 /\ handled \in Seq(Nat) /\ DOMAIN handled = {}
    BY DEF Init, NodeInit
<1>2. PositionType
    BY <1>1 DEF Init, NodeInit, PositionType, Handlers, Watchers
<1>3. PassedOnce /\ HandledOnce
    BY <1>1 DEF PassedOnce, HandledOnce
<1>4. InPhase
    BY DEF Init, NodeInit, InPhase, Handlers, Watchers
<1> QED BY <1>2, <1>3, <1>4 DEF IInv

\* What the invariant looks at, all but the log.
positionVars == <<handled, fetched, phase, watcher, next, first>>

\* The log only grows, and what was mined stays.
LEMMA LogStep ==
    ASSUME IInv, UNCHANGED positionVars, NEW e, log' = Append(log, e) \/ log' = log
    PROVE  IInv'
<1>1. PICK Events : log \in Seq(Events)
    BY DEF IInv, PositionType
<1>2. /\ log' \in Seq(Events \cup {e})
      /\ Len(log) <= Len(log')
      /\ \A n \in 1..Len(log) : n \in 1..Len(log') /\ log'[n] = log[n]
    BY <1>1
<1>3. PositionType'
    <2>1. \E E : log' \in Seq(E)
        BY <1>2
    <2>2. Len(log) \in Nat /\ Len(log') \in Nat
        BY <1>1, <1>2
    <2> QED BY <1>2, <2>1, <2>2 DEF IInv, PositionType, positionVars
<1>4. PassedOnce'
    <2> SUFFICES ASSUME NEW m \in DOMAIN handled
                 PROVE  /\ handled[m] \in 1..Len(log')
                        /\ Replayed(handled[m])' \/ \E w \in Watchers : Watched(w, handled[m])'
        BY DEF PassedOnce, positionVars
    <2>1. handled[m] \in 1..Len(log) /\ log'[handled[m]] = log[handled[m]]
        BY <1>2 DEF IInv, PassedOnce
    <2> QED BY <1>2, <2>1 DEF IInv, PassedOnce, Replayed, Watched, positionVars
<1>5. InPhase' /\ HandledOnce'
    BY DEF IInv, InPhase, HandledOnce, positionVars
<1> QED BY <1>3, <1>4, <1>5 DEF IInv

\* Handler g takes up an event that nobody has handled.
LEMMA HandleStep ==
    ASSUME IInv, NEW g \in Handlers, NEW n \in 1..Len(log), Handle(g, n),
           next[g] <= n,
           phase # "filter",
           \A m \in DOMAIN handled : handled[m] # n,
           \/ g = "Update" /\ n <= fetched
           \/ g \in Watchers /\ watcher[g] # "none" /\ log[n].name = g
    PROVE  IInv'
<1>1. /\ handled' = Append(handled, n) /\ next' = [next EXCEPT ![g] = n + 1]
      /\ log' = log /\ fetched' = fetched /\ phase' = phase
      /\ watcher' = watcher /\ first' = first
    BY DEF Handle, chainVars
<1>2. Len(log) \in Nat /\ n \in Nat
    BY DEF IInv, PositionType
<1>3. /\ handled' \in Seq(Nat) /\ Len(handled') = Len(handled) + 1
      /\ \A m \in DOMAIN handled' : \/ m \in DOMAIN handled /\ handled'[m] = handled[m]
                                    \/ m = Len(handled) + 1 /\ handled'[m] = n
    BY <1>1, <1>2 DEF IInv, PositionType
<1>4. PositionType'
    BY <1>1, <1>2, <1>3 DEF IInv, PositionType
<1>5. \A h \in Handlers : next[h] \in Nat /\ next'[h] \in Nat /\ next[h] <= next'[h]
    <2> SUFFICES ASSUME NEW h \in Handlers
                 PROVE  next[h] \in Nat /\ next'[h] \in Nat /\ next[h] <= next'[h]
        OBVIOUS
    <2>1. next[h] \in Nat /\ next[g] \in Nat
        BY DEF IInv, PositionType
    <2>2. next'[h] = IF h = g THEN n + 1 ELSE next[h]
        BY <1>1 DEF IInv, PositionType
    <2> QED BY <1>2, <2>1, <2>2
<1>6. PassedOnce'
    <2> SUFFICES ASSUME NEW m \in DOMAIN handled', NEW k, k = handled'[m]
                 PROVE  /\ k \in 1..Len(log)
                        /\ Replayed(k)' \/ \E w \in Watchers : Watched(w, k)'
        BY <1>1 DEF PassedOnce
    <2>1. CASE m \in DOMAIN handled /\ k = handled[m]
        <3>1. k \in 1..Len(log)
            BY <2>1 DEF IInv, PassedOnce
        <3>2. CASE Replayed(k)
            <4>1. next["Update"] <= next'["Update"] /\ next["Update"] \in Nat /\ next'["Update"] \in Nat
                BY <1>5 DEF Handlers
            <4> QED BY <1>1, <2>1, <3>1, <3>2, <4>1 DEF Replayed
        <3>3. ASSUME NEW w \in Watchers, Watched(w, k)
              PROVE  Watched(w, k)'
            <4>1. next[w] <= next'[w] /\ next[w] \in Nat /\ next'[w] \in Nat
                BY <1>5 DEF Handlers
            <4>2. first[w] \in Nat
                BY DEF IInv, PositionType
            <4> QED BY <1>1, <2>1, <3>1, <3>3, <4>1 DEF Watched
        <3> QED BY <2>1, <3>1, <3>2, <3>3 DEF IInv, PassedOnce
    <2>2. CASE k = n
        <3>1. n < next'[g]
            BY <1>1, <1>2 DEF IInv, PositionType
        <3>2. CASE g = "Update"
            BY <1>1, <2>2, <3>1, <3>2 DEF Replayed, Watchers
        <3>3. CASE g \in Watchers
            <4>1. watcher[g] # "none" /\ log[n].name = g
                BY <3>3 DEF Watchers
            <4>2. first[g] <= n
                BY <1>2, <3>3, <4>1 DEF IInv, InPhase, PositionType, Handlers
            <4>3. Watched(g, n)'
                BY <1>1, <3>1, <4>1, <4>2 DEF Watched
            <4> QED BY <2>2, <3>3, <4>3
        <3> QED BY <2>2, <3>2, <3>3 DEF Handlers
    <2> QED BY <1>3, <2>1, <2>2
<1>7. InPhase'
    <2>1. \A w \in Watchers : watcher[w] # "none" =>
            phase = "done" /\ fetched < first[w] /\ first[w] <= next'[w]
        <3> SUFFICES ASSUME NEW w \in Watchers, watcher[w] # "none"
                     PROVE  phase = "done" /\ fetched < first[w] /\ first[w] <= next'[w]
            OBVIOUS
        <3>1. next[w] <= next'[w] /\ next[w] \in Nat /\ next'[w] \in Nat /\ first[w] \in Nat
            BY <1>4, <1>5 DEF IInv, PositionType, Handlers
        <3> QED BY <3>1 DEF IInv, InPhase
    <2>2. next'["Update"] >= 1
        BY <1>4, <1>5 DEF IInv, InPhase, PositionType, Handlers
    <2> QED BY <1>1, <2>1, <2>2 DEF InPhase
<1>8. HandledOnce'
    BY <1>3 DEF IInv, HandledOnce, PositionType
<1> QED BY <1>4, <1>6, <1>7, <1>8 DEF IInv

\* Nobody has handled the event n of the log.
Fresh(n) == n \in 1..Len(log) /\ \A m \in DOMAIN handled : handled[m] # n

\* The replay takes up an event that is new.
LEMMA UpdateFresh ==
    ASSUME IInv, Update
    PROVE  Fresh(next["Update"]) /\ next["Update"] <= fetched
<1> DEFINE n == next["Update"]
<1>1. n \in 1..Len(log) /\ n <= fetched
    BY DEF Update, Replays, IInv, PositionType, InPhase, Handlers
<1>2. \A w \in Watchers : watcher[w] = "none"
    BY DEF Update, Replays, IInv, InPhase
<1>3. \A m \in DOMAIN handled : handled[m] \in Nat /\ handled[m] < n
    BY <1>2 DEF IInv, PassedOnce, Replayed, Watched, PositionType
<1> QED BY <1>1, <1>3 DEF Fresh

LEMMA UpdateStep == ASSUME IInv, Update PROVE IInv'
<1> DEFINE n == next["Update"]
<1>1. Fresh(n) /\ n <= fetched
    BY UpdateFresh
<1>2. Handle("Update", n) /\ phase # "filter" /\ "Update" \in Handlers
    BY DEF Update, Replays, Handlers
<1>3. n \in 1..Len(log) /\ \A m \in DOMAIN handled : handled[m] # n
    BY <1>1 DEF Fresh
<1>4. n <= n
    BY <1>3
<1> HIDE DEF n
<1> QED BY <1>1, <1>2, <1>3, <1>4, HandleStep DEF n

\* So does a watcher.
LEMMA WatchFresh ==
    ASSUME IInv, NEW w \in Watchers, WatchEvent(w)
    PROVE  /\ watcher[w] # "none" /\ phase = "done"
           /\ \E n \in Matching(w) :
                Handle(w, n) /\ Fresh(n) /\ next[w] <= n /\ log[n].name = w
<1>1. PICK n \in Matching(w) : Handle(w, n)
    BY DEF WatchEvent
<1>2. n \in 1..Len(log) /\ n \in Nat /\ next[w] <= n /\ log[n].name = w
    <2>1. w \in Handlers /\ next[w] \in Nat /\ Len(log) \in Nat
        BY DEF IInv, PositionType, Handlers
    <2>2. watcher[w] # "none"
        BY DEF WatchEvent
    <2>3. fetched < first[w] /\ first[w] <= next[w] /\ fetched \in Nat /\ first[w] \in Nat
        BY <2>2 DEF IInv, InPhase, PositionType
    <2> QED BY <2>1, <2>3 DEF Matching
<1>3. watcher[w] # "none" /\ phase = "done" /\ fetched < next[w]
    <2>1. watcher[w] # "none"
        BY DEF WatchEvent
    <2>2. phase = "done" /\ fetched < first[w] /\ first[w] <= next[w]
        BY <2>1 DEF IInv, InPhase
    <2>3. fetched \in Nat /\ first[w] \in Nat /\ next[w] \in Nat
        BY DEF IInv, PositionType, Handlers
    <2> QED BY <2>1, <2>2, <2>3
<1>4. \A m \in DOMAIN handled : handled[m] # n
    <2> SUFFICES ASSUME NEW m \in DOMAIN handled, handled[m] = n PROVE FALSE
        OBVIOUS
    <2>1. ~Replayed(n)
        BY <1>2, <1>3 DEF Replayed, IInv, PositionType, Handlers
    <2>2. ~Watched(w, n)
        BY <1>2 DEF Watched, IInv, PositionType, Handlers
    <2>3. \A v \in Watchers \ {w} : ~Watched(v, n)
        BY <1>2 DEF Watched
    <2> QED BY <2>1, <2>2, <2>3 DEF IInv, PassedOnce
<1> QED BY <1>1, <1>2, <1>3, <1>4 DEF Fresh

LEMMA WatchStep == ASSUME IInv, NEW w \in Watchers, WatchEvent(w) PROVE IInv'
<1>1. PICK n \in Matching(w) : Handle(w, n) /\ Fresh(n) /\ next[w] <= n /\ log[n].name = w
    BY WatchFresh
<1>2. watcher[w] # "none" /\ phase # "filter" /\ w \in Handlers
    BY WatchFresh DEF Handlers
<1>3. n \in 1..Len(log) /\ \A m \in DOMAIN handled : handled[m] # n
    BY <1>1 DEF Fresh
<1> QED BY <1>1, <1>2, <1>3, HandleStep

\* The replay is given its events, is over, or fails.
LEMMA PhaseStep == ASSUME IInv, FilterLogs \/ UnknownEvent \/ Synchronize PROVE IInv'
<1>1. log' = log /\ handled' = handled /\ watcher' = watcher /\ next' = next /\ first' = first
    BY DEF FilterLogs, UnknownEvent, Synchronize, chainVars, pastVars
<1>2. CASE FilterLogs
    <2>1. handled = <<>> /\ \A w \in Watchers : watcher[w] = "none"
        BY <1>2 DEF FilterLogs, IInv, InPhase
    <2>2. fetched' \in Nat /\ fetched' <= Len(log)
        BY <1>2, <2>1, ReplayAssumption DEF FilterLogs, IInv, PositionType
    <2> QED BY <1>1, <1>2, <2>1, <2>2
            DEF FilterLogs, IInv, PositionType, PassedOnce, InPhase, HandledOnce
<1>3. CASE UnknownEvent \/ Synchronize
    <2>1. fetched' = fetched /\ phase = "replay" /\ phase' \in {"done", "failed"}
        BY <1>3 DEF UnknownEvent, Replays, Synchronize
    <2>2. PositionType' /\ PassedOnce'
        BY <1>1, <2>1 DEF IInv, PositionType, PassedOnce, Replayed, Watched
    <2>3. InPhase' /\ HandledOnce'
        BY <1>1, <2>1 DEF IInv, InPhase, HandledOnce
    <2> QED BY <2>2, <2>3 DEF IInv
<1> QED BY <1>2, <1>3

\* The replay passes an event that is not handled.
LEMMA SkipStep == ASSUME IInv, Skip PROVE IInv'
<1>1. /\ log' = log /\ handled' = handled /\ fetched' = fetched /\ phase' = phase
      /\ watcher' = watcher /\ first' = first
      /\ next' = [next EXCEPT !["Update"] = @ + 1]
    BY DEF Skip, chainVars, pastVars
<1>2. /\ next' \in [Handlers -> Nat] /\ next["Update"] \in Nat
      /\ next'["Update"] = next["Update"] + 1
      /\ \A w \in Watchers : next'[w] = next[w]
    BY <1>1 DEF IInv, PositionType, Handlers, Watchers
<1>3. PositionType'
    BY <1>1, <1>2 DEF IInv, PositionType
<1>4. PassedOnce'
    <2> SUFFICES ASSUME NEW m \in DOMAIN handled
                 PROVE  /\ handled[m] \in 1..Len(log)
                        /\ Replayed(handled[m])' \/ \E w \in Watchers : Watched(w, handled[m])'
        BY <1>1 DEF PassedOnce
    <2>1. handled[m] \in 1..Len(log) /\ Len(log) \in Nat
        BY DEF IInv, PassedOnce, PositionType
    <2>2. Replayed(handled[m]) => Replayed(handled[m])'
        BY <1>1, <1>2, <2>1 DEF Replayed
    <2>3. \A w \in Watchers : Watched(w, handled[m]) => Watched(w, handled[m])'
        BY <1>1, <1>2 DEF Watched
    <2> QED BY <2>1, <2>2, <2>3 DEF IInv, PassedOnce
<1>5. InPhase' /\ HandledOnce'
    BY <1>1, <1>2 DEF IInv, InPhase, HandledOnce
<1> QED BY <1>3, <1>4, <1>5 DEF IInv

\* A watcher subscribes to what is mined next, or ends.
LEMMA SubscribeStep == ASSUME IInv, NEW w \in Watchers, Subscribe(w) PROVE IInv'
<1>1. /\ log' = log /\ handled' = handled /\ fetched' = fetched /\ phase' = phase
      /\ phase = "done" /\ watcher[w] = "none"
      /\ \E outcome \in {"on", "stopped"} : watcher' = [watcher EXCEPT ![w] = outcome]
      /\ next' = [next EXCEPT ![w] = Since] /\ first' = [first EXCEPT ![w] = Since]
    BY DEF Subscribe, chainVars, pastVars
<1>2. Since \in Nat /\ fetched < Since
    BY DEF Since, IInv, PositionType
<1>3. PositionType'
    BY <1>1, <1>2 DEF IInv, PositionType
<1>4. next'["Update"] = next["Update"] /\ next'[w] = Since /\ first'[w] = Since
      /\ \A v \in Watchers \ {w} :
            next'[v] = next[v] /\ first'[v] = first[v] /\ watcher'[v] = watcher[v]
    BY <1>1 DEF IInv, PositionType, Handlers, Watchers
<1>5. PassedOnce'
    BY <1>1, <1>4 DEF IInv, PassedOnce, Replayed, Watched
<1>6. InPhase' /\ HandledOnce'
    BY <1>1, <1>2, <1>4 DEF IInv, InPhase, HandledOnce
<1> QED BY <1>3, <1>5, <1>6 DEF IInv

\* A subscription fails.
LEMMA DropStep == ASSUME IInv, NEW w \in Watchers, SubscriptionError(w) PROVE IInv'
<1>1. /\ log' = log /\ handled' = handled /\ fetched' = fetched /\ phase' = phase
      /\ next' = next /\ first' = first /\ watcher[w] = "on"
      /\ watcher' = [watcher EXCEPT ![w] = "stopped"]
    BY DEF SubscriptionError, chainVars, pastVars
<1>2. \A v \in Watchers : watcher'[v] # "none" <=> watcher[v] # "none"
    BY <1>1 DEF IInv, PositionType
<1>3. PositionType' /\ PassedOnce'
    BY <1>1, <1>2 DEF IInv, PositionType, PassedOnce, Replayed, Watched
<1>4. InPhase' /\ HandledOnce'
    BY <1>1, <1>2 DEF IInv, InPhase, HandledOnce
<1> QED BY <1>3, <1>4 DEF IInv

\* A restart forgets everything but the chain.
LEMMA RestartStep == ASSUME IInv, Restart PROVE IInv'
<1>1. /\ log' = log /\ handled' = <<>> /\ fetched' = 0 /\ phase' = "filter"
      /\ watcher' = [w \in Watchers |-> "none"]
      /\ next' = [h \in Handlers |-> 1] /\ first' = [w \in Watchers |-> 1]
    BY DEF Restart, chainVars
<1> QED BY <1>1 DEF IInv, PositionType, PassedOnce, InPhase, HandledOnce, Handlers

LEMMA NextInv == IInv /\ [Next]_vars => IInv'
<1> SUFFICES ASSUME IInv, [Next]_vars PROVE IInv'
    OBVIOUS
<1>1. CASE Chain
    BY <1>1, LogStep DEF Chain, Registers, OtherAnswers, OtherEvents, Answer, positionVars, syncVars,
                         pastVars
<1>2. CASE Synchronizing
    BY <1>2, PhaseStep, UpdateStep, SkipStep DEF Synchronizing
<1>3. CASE \E w \in Watchers : Subscribe(w) \/ WatchEvent(w) \/ SubscriptionError(w)
    BY <1>3, SubscribeStep, WatchStep, DropStep
<1>4. CASE \E g \in Routines : Access(g)
    BY <1>4, LogStep DEF Access, ReadAccount, WriteAccount, positionVars, syncVars, pastVars,
                         chainVars
<1>5. CASE Aggregating
    BY <1>5, LogStep DEF Aggregating, Aggregate, CopyData, CopyHData, MerkleProof, Prove, SetData, SetHData,
                         Submit, Reverted, Refused, Answer, positionVars, syncVars, pastVars, chainVars
<1>6. CASE Restart
    BY <1>6, RestartStep
<1>7. CASE UNCHANGED vars
    BY <1>7, LogStep DEF vars, positionVars, syncVars, pastVars, chainVars
<1> QED BY <1>1, <1>2, <1>3, <1>4, <1>5, <1>6, <1>7 DEF Next

\* Safety of the synchronisation: whatever is mined while a node replays the
\* past, subscribes, restarts or loses a subscription, it handles no event
\* twice and so pays no reward twice.
THEOREM NoEventTwice == Spec => []HandledOnce
<1>1. IInv => HandledOnce
    BY DEF IInv
<1> QED BY <1>1, InitInv, NextInv, PTL DEF Spec
----------------------------------------------------------------------------
(* What a list of credits pays. *)

Credit == [seat : Nat, reward : Nat]

\* What one credit pays seat s.
Pay(credit, s) == IF credit.seat = s THEN credit.reward ELSE 0

\* What the credits of a list pay seat s.
Owed(credits, s) ==
    LET paid[n \in 0..Len(credits)] == IF n = 0 THEN 0 ELSE paid[n - 1] + Pay(credits[n], s)
    IN  paid[Len(credits)]

\* f adds up the first m terms.
Adds(f, m, term) ==
    /\ f[0] \in Nat
    /\ \A n \in 1..m : term[n] \in Nat
    /\ \A n \in 0..m - 1 : f[n + 1] = f[n] + term[n + 1]

\* Two sums of the same terms differ by what they start with.
LEMMA SameTerms ==
    ASSUME NEW m \in Nat, NEW f, NEW g, NEW term, Adds(f, m, term), Adds(g, m, term)
    PROVE  f[m] \in Nat /\ g[m] \in Nat /\ f[m] + g[0] = g[m] + f[0]
<1> DEFINE Holds == {n \in Nat : n <= m => /\ f[n] \in Nat /\ g[n] \in Nat
                                           /\ f[n] + g[0] = g[n] + f[0]}
<1>1. 0 \in Holds
    BY DEF Adds
<1>2. ASSUME NEW n \in Nat, n \in Holds PROVE n + 1 \in Holds
    <2> SUFFICES ASSUME n + 1 <= m
                 PROVE  /\ f[n + 1] \in Nat /\ g[n + 1] \in Nat
                        /\ f[n + 1] + g[0] = g[n + 1] + f[0]
        OBVIOUS
    <2>1. n \in 0..m - 1 /\ n + 1 \in 1..m /\ n <= m
        OBVIOUS
    <2>2. /\ f[n + 1] = f[n] + term[n + 1] /\ g[n + 1] = g[n] + term[n + 1]
          /\ term[n + 1] \in Nat /\ f[0] \in Nat /\ g[0] \in Nat
        BY <2>1 DEF Adds
    <2>3. f[n] \in Nat /\ g[n] \in Nat /\ f[n] + g[0] = g[n] + f[0]
        BY <1>2, <2>1
    <2> QED BY <2>2, <2>3
<1>3. Nat \subseteq Holds
    <2>1. \A n \in Nat : n \in Holds => n + 1 \in Holds
        BY <1>2
    <2> HIDE DEF Holds
    <2> QED BY <1>1, <2>1, Induction
<1> QED BY <1>3

\* The terms of what a list pays.
Terms(credits, s) == [n \in 1..Len(credits) |-> Pay(credits[n], s)]

Sums(f, credits, s) == f[0] = 0 /\ Adds(f, Len(credits), Terms(credits, s))

LEMMA CreditTerms ==
    ASSUME NEW credits \in Seq(Credit), NEW s
    PROVE  /\ Len(credits) \in Nat
           /\ \A n \in 1..Len(credits) : /\ Terms(credits, s)[n] = Pay(credits[n], s)
                                         /\ Pay(credits[n], s) \in Nat
<1>1. ASSUME NEW n \in 1..Len(credits) PROVE credits[n].reward \in Nat
    <2>1. credits[n] \in Credit
        OBVIOUS
    <2> QED BY <2>1 DEF Credit
<1> QED BY <1>1 DEF Terms, Pay

LEMMA SumsExist ==
    ASSUME NEW credits \in Seq(Credit), NEW s
    PROVE  \E f : Sums(f, credits, s)
<1> DEFINE step == [n \in Nat |-> [x \in Nat |->
                        IF n < Len(credits) THEN x + Pay(credits[n + 1], s) ELSE x]]
<1>1. ASSUME NEW n \in Nat, NEW x \in Nat PROVE step[n][x] \in Nat
    <2>1. CASE n < Len(credits)
        <3>1. n + 1 \in 1..Len(credits)
            BY <2>1, CreditTerms
        <3>2. Pay(credits[n + 1], s) \in Nat
            BY <3>1, CreditTerms
        <3> QED BY <2>1, <3>2
    <2>2. CASE ~(n < Len(credits))
        BY <2>2
    <2> QED BY <2>1, <2>2
<1>2. PICK f : Recurs(f, Nat, 0, step)
    <2> HIDE DEF step
    <2> QED BY <1>1, Recursion
<1>3. ASSUME NEW n \in 0..Len(credits) - 1
      PROVE  f[n + 1] = f[n] + Terms(credits, s)[n + 1]
    <2>1. n \in Nat /\ n < Len(credits) /\ n + 1 \in 1..Len(credits)
        BY CreditTerms
    <2>2. f[n] \in Nat /\ f[n + 1] = step[n][f[n]]
        BY <1>2, <2>1 DEF Recurs
    <2> QED BY <2>1, <2>2, CreditTerms
<1>4. f[0] = 0
    BY <1>2 DEF Recurs
<1> QED BY <1>3, <1>4, CreditTerms DEF Sums, Adds

\* Any sum of what a list pays is what the list owes.
LEMMA OwedSums ==
    ASSUME NEW credits \in Seq(Credit), NEW s, NEW f, Sums(f, credits, s)
    PROVE  Owed(credits, s) = f[Len(credits)] /\ Owed(credits, s) \in Nat
<1> DEFINE m == Len(credits)
           Paid(g) == g = [n \in 0..m |-> IF n = 0 THEN 0 ELSE g[n - 1] + Pay(credits[n], s)]
           paid == CHOOSE g : Paid(g)
<1>1. m \in Nat
    BY CreditTerms
<1>2. \E g : Paid(g)
    <2> DEFINE g == [n \in 0..m |-> f[n]]
    <2>1. g[0] = 0
        BY <1>1 DEF Sums
    <2>2. ASSUME NEW n \in 0..m, n # 0 PROVE g[n] = g[n - 1] + Pay(credits[n], s)
        <3>1. n - 1 \in 0..m - 1 /\ n - 1 \in 0..m /\ n \in 1..m /\ (n - 1) + 1 = n
            BY <1>1, <2>2
        <3>2. f[n] = f[n - 1] + Terms(credits, s)[n]
            BY <3>1 DEF Sums, Adds
        <3> QED BY <3>1, <3>2, CreditTerms
    <2>3. g = [n \in 0..m |-> g[n]]
        OBVIOUS
    <2> HIDE DEF g
    <2>4. g = [n \in 0..m |-> IF n = 0 THEN 0 ELSE g[n - 1] + Pay(credits[n], s)]
        BY <2>1, <2>2, <2>3
    <2> QED BY <2>4
<1>3. Paid(paid)
    <2> HIDE DEF Paid
    <2> QED BY <1>2
<1>4. Owed(credits, s) = paid[m]
    BY DEF Owed
<1>5. Sums(paid, credits, s)
    <2> HIDE DEF paid
    <2>1. paid[0] = 0
        BY <1>1, <1>3
    <2>2. ASSUME NEW n \in 0..m - 1 PROVE paid[n + 1] = paid[n] + Terms(credits, s)[n + 1]
        <3>1. n + 1 \in 0..m /\ n + 1 # 0 /\ (n + 1) - 1 = n /\ n + 1 \in 1..m
            BY <1>1
        <3>2. paid[n + 1] = paid[n] + Pay(credits[n + 1], s)
            BY <1>3, <3>1
        <3> QED BY <3>1, <3>2, CreditTerms
    <2> QED BY <2>1, <2>2, CreditTerms DEF Sums, Adds
<1> HIDE DEF paid, Paid
<1>6. Adds(paid, m, Terms(credits, s)) /\ Adds(f, m, Terms(credits, s)) /\ paid[0] = 0 /\ f[0] = 0
    BY <1>5 DEF Sums
<1>7. paid[m] = f[m] /\ paid[m] \in Nat
    <2>1. paid[m] \in Nat /\ f[m] \in Nat /\ paid[m] + 0 = f[m] + 0
        BY <1>1, <1>6, SameTerms
    <2> QED BY <2>1
<1> QED BY <1>4, <1>7

\* A list without seat s owes it nothing.
LEMMA OwedNone ==
    ASSUME NEW credits \in Seq(Credit), NEW s, \A n \in 1..Len(credits) : credits[n].seat # s
    PROVE  Owed(credits, s) = 0
<1> DEFINE none == [n \in Nat |-> 0]
<1>1. Sums(none, credits, s)
    <2>1. \A n \in 1..Len(credits) : Terms(credits, s)[n] = 0
        BY CreditTerms DEF Pay
    <2> QED BY <2>1, CreditTerms DEF Sums, Adds
<1>2. Owed(credits, s) = none[Len(credits)]
    <2> HIDE DEF none
    <2> QED BY <1>1, OwedSums
<1> QED BY <1>2, CreditTerms

LEMMA OwedEmpty ==
    ASSUME NEW s
    PROVE  Owed(<<>>, s) = 0
<1>1. <<>> \in Seq(Credit) /\ 1..Len(<<>>) = {}
    OBVIOUS
<1> QED BY <1>1, OwedNone

\* One credit more at the end,
LEMMA OwedAppend ==
    ASSUME NEW credits \in Seq(Credit), NEW credit \in Credit, NEW s
    PROVE  Owed(Append(credits, credit), s) = Owed(credits, s) + Pay(credit, s)
<1> DEFINE more == Append(credits, credit)
           m == Len(credits)
<1>1. /\ more \in Seq(Credit) /\ Len(more) = m + 1 /\ m \in Nat
      /\ more[m + 1] = credit /\ \A n \in 1..m : more[n] = credits[n]
    OBVIOUS
<1> HIDE DEF more
<1>2. PICK f : Sums(f, more, s)
    BY <1>1, SumsExist
<1>3. Sums(f, credits, s)
    <2>1. \A n \in 1..m : Terms(credits, s)[n] = Terms(more, s)[n]
        <3> SUFFICES ASSUME NEW n \in 1..m PROVE Terms(credits, s)[n] = Terms(more, s)[n]
            OBVIOUS
        <3>1. n \in 1..Len(more) /\ more[n] = credits[n]
            BY <1>1
        <3>2. Terms(credits, s)[n] = Pay(credits[n], s)
            BY CreditTerms
        <3>3. Terms(more, s)[n] = Pay(more[n], s)
            BY <1>1, <3>1, CreditTerms
        <3> QED BY <3>1, <3>2, <3>3
    <2>2. \A n \in 0..m - 1 : n \in 0..Len(more) - 1 /\ n + 1 \in 1..m
        BY <1>1
    <2> QED BY <1>2, <2>1, <2>2, CreditTerms DEF Sums, Adds
<1>4. Owed(more, s) = f[m + 1] /\ Owed(credits, s) = f[m]
    BY <1>1, <1>2, <1>3, OwedSums
<1>5. f[m + 1] = f[m] + Pay(credit, s)
    <2>1. m \in 0..Len(more) - 1 /\ m + 1 \in 1..Len(more)
        BY <1>1
    <2>2. f[m + 1] = f[m] + Terms(more, s)[m + 1]
        BY <1>2, <2>1 DEF Sums, Adds
    <2>3. Terms(more, s)[m + 1] = Pay(credit, s)
        BY <1>1, <2>1, CreditTerms
    <2> QED BY <2>2, <2>3
<1> QED BY <1>4, <1>5 DEF more

\* and one at the beginning.
LEMMA OwedTail ==
    ASSUME NEW credits \in Seq(Credit), credits # <<>>, NEW s
    PROVE  /\ Owed(Tail(credits), s) \in Nat /\ Pay(Head(credits), s) \in Nat
           /\ Owed(credits, s) = Pay(Head(credits), s) + Owed(Tail(credits), s)
<1> DEFINE rest == Tail(credits)
           m == Len(rest)
<1>1. /\ rest \in Seq(Credit) /\ Len(credits) = m + 1 /\ m \in Nat
      /\ credits[1] = Head(credits) /\ \A n \in 1..m : rest[n] = credits[n + 1]
    OBVIOUS
<1> HIDE DEF rest
<1>2. PICK f : Sums(f, credits, s)
    BY SumsExist
<1>3. PICK g : Sums(g, rest, s)
    BY <1>1, SumsExist
<1> DEFINE h == [n \in 0..m |-> f[n + 1]]
<1>4. h[0] = Pay(Head(credits), s) /\ h[0] \in Nat
    <2>1. 0 \in 0..Len(credits) - 1 /\ 1 \in 1..Len(credits) /\ 0 + 1 = 1 /\ 0 \in 0..m
        BY <1>1
    <2>2. f[1] = 0 + Terms(credits, s)[1]
        BY <1>2, <2>1 DEF Sums, Adds
    <2>3. Terms(credits, s)[1] = Pay(Head(credits), s) /\ Pay(Head(credits), s) \in Nat
        BY <1>1, <2>1, CreditTerms
    <2> QED BY <2>1, <2>2, <2>3
<1>5. Adds(h, m, Terms(rest, s))
    <2>1. ASSUME NEW n \in 0..m - 1 PROVE h[n + 1] = h[n] + Terms(rest, s)[n + 1]
        <3>1. /\ n + 1 \in 0..Len(credits) - 1 /\ (n + 1) + 1 \in 1..Len(credits)
              /\ n \in 0..m /\ n + 1 \in 0..m /\ n + 1 \in 1..m
            BY <1>1
        <3>2. f[(n + 1) + 1] = f[n + 1] + Terms(credits, s)[(n + 1) + 1]
            BY <1>2, <3>1 DEF Sums, Adds
        <3>3. Terms(credits, s)[(n + 1) + 1] = Terms(rest, s)[n + 1]
            BY <1>1, <3>1, CreditTerms
        <3> QED BY <3>1, <3>2, <3>3
    <2>2. \A n \in 1..m : Terms(rest, s)[n] \in Nat
        BY <1>1, CreditTerms
    <2> HIDE DEF h
    <2> QED BY <1>4, <2>1, <2>2 DEF Adds
<1>6. h[m] = f[m + 1]
    BY <1>1
<1> HIDE DEF h
<1>7. Adds(g, m, Terms(rest, s)) /\ g[0] = 0
    BY <1>3 DEF Sums
<1>8. h[m] \in Nat /\ g[m] \in Nat /\ h[m] + 0 = g[m] + h[0]
    BY <1>1, <1>5, <1>7, SameTerms
<1>9. Owed(credits, s) = f[m + 1] /\ Owed(rest, s) = g[m]
    BY <1>1, <1>2, <1>3, OwedSums
<1> QED BY <1>4, <1>6, <1>8, <1>9 DEF rest
----------------------------------------------------------------------------
(* What an answer pays. *)

IsAnswer(event) == event.submitter \in Nat /\ event.V \subseteq Nat

\* The bit of seat n, as Credits reads it.
Bit(event, n) == IF n \in event.V THEN <<[seat |-> n, reward |-> ValidatorReward]>> ELSE <<>>

\* bits[n] lists the credits of the first n bits.
Bits(bits, event) ==
    /\ bits[0] = <<>>
    /\ \A n \in 0..NumAccounts - 1 : bits[n + 1] = bits[n] \o Bit(event, n)

\* What the first n bits pay seat s, and what the whole answer pays it.
BitsPay(event, s, n) == IF s \in event.V /\ s < n THEN ValidatorReward ELSE 0

AnswerPays(event, s) ==
    (IF event.submitter = s THEN AggregatorReward ELSE 0) + BitsPay(event, s, NumAccounts)

\* One bit more adds the credit of its seat.
LEMMA BitOwes ==
    ASSUME NEW event, IsAnswer(event), NEW n \in Nat, NEW credits \in Seq(Credit),
           NEW s \in Nat, Owed(credits, s) = BitsPay(event, s, n)
    PROVE  /\ credits \o Bit(event, n) \in Seq(Credit)
           /\ Owed(credits \o Bit(event, n), s) = BitsPay(event, s, n + 1)
<1>1. CASE n \in event.V
    <2> DEFINE credit == [seat |-> n, reward |-> ValidatorReward]
    <2>1. credit \in Credit /\ Pay(credit, s) = IF s = n THEN ValidatorReward ELSE 0
        BY RewardAssumption DEF Credit, Pay
    <2> HIDE DEF credit
    <2>2. credits \o <<credit>> = Append(credits, credit) /\ Append(credits, credit) \in Seq(Credit)
        BY <2>1
    <2>3. Bit(event, n) = <<credit>>
        BY <1>1 DEF Bit, credit
    <2>4. Owed(Append(credits, credit), s) = Owed(credits, s) + Pay(credit, s)
        BY <2>1, OwedAppend
    <2>5. BitsPay(event, s, n) + Pay(credit, s) = BitsPay(event, s, n + 1)
        BY <1>1, <2>1, RewardAssumption DEF BitsPay
    <2> QED BY <2>2, <2>3, <2>4, <2>5
<1>2. CASE n \notin event.V
    <2>1. credits \o Bit(event, n) = credits
        BY <1>2 DEF Bit
    <2>2. BitsPay(event, s, n + 1) = BitsPay(event, s, n)
        BY <1>2 DEF BitsPay
    <2> QED BY <2>1, <2>2
<1> QED BY <1>1, <1>2

LEMMA BitsOwe ==
    ASSUME NEW event, IsAnswer(event), NEW bits, Bits(bits, event), NEW s \in Nat
    PROVE  /\ bits[NumAccounts] \in Seq(Credit)
           /\ Owed(bits[NumAccounts], s) = BitsPay(event, s, NumAccounts)
<1> DEFINE Holds == {n \in Nat : n <= NumAccounts =>
                        bits[n] \in Seq(Credit) /\ Owed(bits[n], s) = BitsPay(event, s, n)}
<1>1. 0 \in Holds
    <2>1. bits[0] = <<>> /\ <<>> \in Seq(Credit) /\ Owed(<<>>, s) = 0 /\ BitsPay(event, s, 0) = 0
        BY OwedEmpty DEF Bits, BitsPay
    <2> QED BY <2>1
<1>2. ASSUME NEW n \in Nat, n \in Holds PROVE n + 1 \in Holds
    <2> SUFFICES ASSUME n + 1 <= NumAccounts
                 PROVE  /\ bits[n + 1] \in Seq(Credit)
                        /\ Owed(bits[n + 1], s) = BitsPay(event, s, n + 1)
        OBVIOUS
    <2>1. n <= NumAccounts /\ n \in 0..NumAccounts - 1
        BY RewardAssumption
    <2>2. bits[n] \in Seq(Credit) /\ Owed(bits[n], s) = BitsPay(event, s, n)
        BY <1>2, <2>1
    <2>3. bits[n + 1] = bits[n] \o Bit(event, n)
        BY <2>1 DEF Bits
    <2> QED BY <2>2, <2>3, BitOwes
<1>3. Nat \subseteq Holds
    <2>1. \A n \in Nat : n \in Holds => n + 1 \in Holds
        BY <1>2
    <2> HIDE DEF Holds
    <2> QED BY <1>1, <2>1, Induction
<1> QED BY <1>3, RewardAssumption

LEMMA BitType ==
    ASSUME NEW event, IsAnswer(event), NEW n \in Nat, NEW credits \in Seq(Credit)
    PROVE  credits \o Bit(event, n) \in Seq(Credit)
<1>1. CASE n \in event.V
    <2> DEFINE credit == [seat |-> n, reward |-> ValidatorReward]
    <2>1. credit \in Credit /\ Bit(event, n) = <<credit>>
        BY <1>1, RewardAssumption DEF Credit, Bit
    <2> HIDE DEF credit
    <2> QED BY <2>1
<1>2. CASE n \notin event.V
    BY <1>2 DEF Bit
<1> QED BY <1>1, <1>2

\* The credits of an answer pay what the answer pays.
LEMMA CreditsOwed ==
    ASSUME NEW event, IsAnswer(event), NEW s \in Nat
    PROVE  Credits(event) \in Seq(Credit) /\ Owed(Credits(event), s) = AnswerPays(event, s)
<1> DEFINE step == [n \in Nat |-> [c \in Seq(Credit) |-> c \o Bit(event, n)]]
           IsBits(b) == b = [n \in 0..NumAccounts |->
                                IF n = 0 THEN <<>> ELSE b[n - 1] \o Bit(event, n - 1)]
           bits == CHOOSE b : IsBits(b)
           submits == [seat |-> event.submitter, reward |-> AggregatorReward]
<1>1. PICK f : Recurs(f, Seq(Credit), <<>>, step)
    <2>1. \A n \in Nat, c \in Seq(Credit) : step[n][c] \in Seq(Credit)
        BY BitType
    <2>2. <<>> \in Seq(Credit)
        OBVIOUS
    <2> HIDE DEF step
    <2> QED BY <2>1, <2>2, Recursion
<1>2. \E b : IsBits(b)
    <2> DEFINE g == [n \in 0..NumAccounts |-> f[n]]
    <2>1. ASSUME NEW n \in 0..NumAccounts
          PROVE  g[n] = IF n = 0 THEN <<>> ELSE g[n - 1] \o Bit(event, n - 1)
        <3>1. CASE n = 0
            BY <1>1, <3>1, RewardAssumption DEF Recurs
        <3>2. CASE n # 0
            <4>1. n - 1 \in Nat /\ n - 1 \in 0..NumAccounts /\ (n - 1) + 1 = n
                BY <3>2, RewardAssumption
            <4>2. f[n] = step[n - 1][f[n - 1]] /\ f[n - 1] \in Seq(Credit)
                <5> HIDE DEF step
                <5> QED BY <1>1, <4>1 DEF Recurs
            <4> QED BY <3>2, <4>1, <4>2
        <3> QED BY <3>1, <3>2
    <2>2. g = [n \in 0..NumAccounts |-> g[n]]
        OBVIOUS
    <2> HIDE DEF g
    <2>3. IsBits(g)
        BY <2>1, <2>2
    <2> HIDE DEF IsBits
    <2> QED BY <2>3
<1>3. IsBits(bits)
    <2> HIDE DEF IsBits
    <2> QED BY <1>2
<1>4. Credits(event) = <<submits>> \o bits[NumAccounts]
    BY DEF Credits, Bit
<1>5. Bits(bits, event)
    <2> HIDE DEF bits
    <2>1. bits[0] = <<>>
        BY <1>3, RewardAssumption
    <2>2. ASSUME NEW n \in 0..NumAccounts - 1 PROVE bits[n + 1] = bits[n] \o Bit(event, n)
        <3>1. n + 1 \in 0..NumAccounts /\ n + 1 # 0 /\ (n + 1) - 1 = n
            BY RewardAssumption
        <3> QED BY <1>3, <3>1
    <2> QED BY <2>1, <2>2 DEF Bits
<1> HIDE DEF bits, IsBits
<1>6. /\ bits[NumAccounts] \in Seq(Credit)
      /\ Owed(bits[NumAccounts], s) = BitsPay(event, s, NumAccounts)
    BY <1>5, BitsOwe
<1>7. submits \in Credit
      /\ Pay(submits, s) = IF event.submitter = s THEN AggregatorReward ELSE 0
    BY RewardAssumption DEF IsAnswer, Credit, Pay
<1> HIDE DEF submits
<1>8. /\ Credits(event) \in Seq(Credit) /\ Credits(event) # <<>>
      /\ Head(Credits(event)) = submits /\ Tail(Credits(event)) = bits[NumAccounts]
    BY <1>4, <1>6, <1>7
<1>9. Owed(Credits(event), s) = Pay(submits, s) + Owed(bits[NumAccounts], s)
    BY <1>8, OwedTail
<1> QED BY <1>6, <1>7, <1>8, <1>9 DEF AnswerPays
----------------------------------------------------------------------------
(* What a set H of handled events pays. *)

SubmittedIn(H, events, s) ==
    {n \in H : events[n].name = "BlockSubmitted" /\ events[n].submitter = s}

VotedIn(H, events, s) ==
    {n \in H : events[n].name = "BlockSubmitted" /\ s \in events[n].V /\ s < NumAccounts}

Paid(H, events, s) == AggregatorReward * Cardinality(SubmittedIn(H, events, s))
                        + ValidatorReward * Cardinality(VotedIn(H, events, s))

\* What one event pays.
EventPays(event, s) == IF event.name = "BlockSubmitted" THEN AnswerPays(event, s) ELSE 0

LEMMA EarnedPaid ==
    ASSUME NEW s
    PROVE  /\ Earned(s) = Paid(Handled, log, s)
           /\ Earned(s)' = Paid(Handled', log', s)
<1>1. /\ SubmittedIn(Handled, log, s) =
            {n \in {m \in Handled : log[m].name = "BlockSubmitted"} : log[n].submitter = s}
      /\ VotedIn(Handled, log, s) =
            {n \in {m \in Handled : log[m].name = "BlockSubmitted"} :
                s \in log[n].V /\ s < NumAccounts}
    BY DEF SubmittedIn, VotedIn
<1>2. /\ SubmittedIn(Handled', log', s) =
            {n \in {m \in Handled' : log'[m].name = "BlockSubmitted"} : log'[n].submitter = s}
      /\ VotedIn(Handled', log', s) =
            {n \in {m \in Handled' : log'[m].name = "BlockSubmitted"} :
                s \in log'[n].V /\ s < NumAccounts}
    BY DEF SubmittedIn, VotedIn
<1> QED BY <1>1, <1>2 DEF Earned, Paid

\* Events that stay the same pay the same.
LEMMA PaidSame ==
    ASSUME NEW H, NEW events, NEW later, \A n \in H : later[n] = events[n], NEW s
    PROVE  Paid(H, later, s) = Paid(H, events, s)
<1>1. SubmittedIn(H, later, s) = SubmittedIn(H, events, s)
    BY DEF SubmittedIn
<1>2. VotedIn(H, later, s) = VotedIn(H, events, s)
    BY DEF VotedIn
<1> QED BY <1>1, <1>2 DEF Paid

LEMMA PaidType ==
    ASSUME NEW H, IsFiniteSet(H), NEW events, NEW s
    PROVE  Paid(H, events, s) \in Nat
<1>1. SubmittedIn(H, events, s) \subseteq H /\ VotedIn(H, events, s) \subseteq H
    BY DEF SubmittedIn, VotedIn
<1>2. /\ Cardinality(SubmittedIn(H, events, s)) \in Nat
      /\ Cardinality(VotedIn(H, events, s)) \in Nat
    BY <1>1, FS_Subset, FS_CardinalityType
<1> QED BY <1>2, RewardAssumption DEF Paid

LEMMA CountMore ==
    ASSUME NEW S, IsFiniteSet(S), NEW x, x \notin S
    PROVE  Cardinality(S \cup {x}) = Cardinality(S) + 1 /\ Cardinality(S) \in Nat
BY FS_AddElement, FS_CardinalityType

\* One event more pays what that event pays.
LEMMA PaidMore ==
    ASSUME NEW H, IsFiniteSet(H), NEW events, NEW n, n \notin H, NEW s
    PROVE  Paid(H \cup {n}, events, s) = Paid(H, events, s) + EventPays(events[n], s)
<1> DEFINE a == Cardinality(SubmittedIn(H, events, s))
           b == Cardinality(VotedIn(H, events, s))
           submits == events[n].name = "BlockSubmitted" /\ events[n].submitter = s
           votes == events[n].name = "BlockSubmitted" /\ s \in events[n].V /\ s < NumAccounts
<1>1. IsFiniteSet(SubmittedIn(H, events, s)) /\ IsFiniteSet(VotedIn(H, events, s))
    <2>1. SubmittedIn(H, events, s) \subseteq H /\ VotedIn(H, events, s) \subseteq H
        BY DEF SubmittedIn, VotedIn
    <2> QED BY <2>1, FS_Subset
<1>2. n \notin SubmittedIn(H, events, s) /\ n \notin VotedIn(H, events, s)
    BY DEF SubmittedIn, VotedIn
<1>3. /\ a \in Nat /\ Cardinality(SubmittedIn(H, events, s) \cup {n}) = a + 1
      /\ b \in Nat /\ Cardinality(VotedIn(H, events, s) \cup {n}) = b + 1
    BY <1>1, <1>2, CountMore
<1>4. /\ SubmittedIn(H \cup {n}, events, s) =
            IF submits THEN SubmittedIn(H, events, s) \cup {n} ELSE SubmittedIn(H, events, s)
      /\ VotedIn(H \cup {n}, events, s) =
            IF votes THEN VotedIn(H, events, s) \cup {n} ELSE VotedIn(H, events, s)
    <2>1. SubmittedIn(H \cup {n}, events, s) =
            IF submits THEN SubmittedIn(H, events, s) \cup {n} ELSE SubmittedIn(H, events, s)
        BY DEF SubmittedIn
    <2>2. VotedIn(H \cup {n}, events, s) =
            IF votes THEN VotedIn(H, events, s) \cup {n} ELSE VotedIn(H, events, s)
        BY DEF VotedIn
    <2> QED BY <2>1, <2>2
<1>5. /\ Cardinality(SubmittedIn(H \cup {n}, events, s)) = IF submits THEN a + 1 ELSE a
      /\ Cardinality(VotedIn(H \cup {n}, events, s)) = IF votes THEN b + 1 ELSE b
    BY <1>3, <1>4
<1>6. EventPays(events[n], s) = (IF submits THEN AggregatorReward ELSE 0)
                                    + (IF votes THEN ValidatorReward ELSE 0)
    BY RewardAssumption DEF EventPays, AnswerPays, BitsPay
<1>7. /\ AggregatorReward * (a + 1) = AggregatorReward * a + AggregatorReward
      /\ ValidatorReward * (b + 1) = ValidatorReward * b + ValidatorReward
      /\ AggregatorReward * a \in Nat /\ ValidatorReward * b \in Nat
    BY <1>3, RewardAssumption
<1>8. Paid(H, events, s) = AggregatorReward * a + ValidatorReward * b
    BY DEF Paid
<1>9. /\ AggregatorReward * (IF submits THEN a + 1 ELSE a)
            = AggregatorReward * a + (IF submits THEN AggregatorReward ELSE 0)
      /\ ValidatorReward * (IF votes THEN b + 1 ELSE b)
            = ValidatorReward * b + (IF votes THEN ValidatorReward ELSE 0)
    <2> HIDE DEF a, b, submits, votes
    <2> QED BY <1>7, RewardAssumption
<1>10. Paid(H \cup {n}, events, s) = AggregatorReward * (IF submits THEN a + 1 ELSE a)
                                        + ValidatorReward * (IF votes THEN b + 1 ELSE b)
    BY <1>5 DEF Paid
<1> HIDE DEF a, b, submits, votes
<1> QED BY <1>6, <1>7, <1>8, <1>9, <1>10, RewardAssumption
----------------------------------------------------------------------------
(* The store, as far as it can be trusted. *)

Trusted == up /\ orderly /\ ~overlapped /\ stage # "failed"

\* What the replay and the watcher still have to write to the account of seat s.
Due(s) == Owed(work["Update"], s) + Owed(work["BlockSubmitted"], s)

\* The account of seat s, as the handled events and the pending credits have it.
Account(s) == IF Registered(s)
              THEN [index |-> s, known |-> TRUE, balance |-> Earned(s) - Due(s)] ELSE Zero

Expected == [s \in Slots |-> Account(s)]

\* The events name seats, and a seat is registered once.
ChainInv ==
    /\ \E k \in Nat : DOMAIN tree = 0..k - 1
    /\ saved.V \subseteq Nat
    /\ \A n \in 1..Len(log) :
        \/ log[n].name = "Registered" /\ log[n].seat \in DOMAIN tree
        \/ log[n].name = "BlockSubmitted" /\ IsAnswer(log[n])
        \/ log[n].name \notin Watchers
    /\ \A m, n \in 1..Len(log) :
        log[m].name = "Registered" /\ log[n].name = "Registered" /\ log[m].seat = log[n].seat
            => m = n

\* The replay, the watcher and the aggregator have credits to write in
\* different phases only.
WorkInv ==
    /\ work \in [Routines -> Seq(Credit)]
    /\ \E Accounts : held \in [Routines -> Accounts]
    /\ work["Registered"] = <<>>
    /\ work["Update"] # <<>> => phase = "replay"
    /\ work["BlockSubmitted"] # <<>> => phase = "done"
    /\ work["Aggregate"] # <<>> => stage = "proving"
    /\ \A g \in Routines : held[g] # <<>> => work[g] # <<>>
    /\ stage = "copied" => saved = [V |-> saved.V, data |-> saved.data, hData |-> saved.hData]

\* Handlers credit registered seats, hold accounts that nobody else writes, and
\* run only while the aggregator does not use the store.
HandlersInv ==
    /\ \A g \in Handlers : \A n \in DOMAIN work[g] :
        work[g][n].seat \in Slots => Registered(work[g][n].seat)
    /\ \A g \in Handlers : held[g] # <<>> =>
        Head(work[g]).seat \in Slots /\ held[g] = <<data[Head(work[g]).seat]>>
    /\ \A s \in Slots : ~Registered(s) => Earned(s) = 0
    /\ UsesStore => \A g \in Handlers : Idle(g)

\* The store, or the copy that the aggregator will put back, is as expected.
DataInv ==
    /\ stage \notin {"proving", "proved"} => data = Expected
    /\ stage \notin {"proving", "proved", "restored"} => hData = Expected
    /\ stage \in {"copying", "copied", "kept", "proving", "proved"} => saved.data = Expected
    /\ stage \in {"copied", "kept", "proving", "proved", "restored"} => saved.hData = Expected

StoreInv == ChainInv /\ WorkInv /\ (Trusted => HandlersInv /\ DataInv)

\* Nobody but a restart brings trust back.
LEMMA TrustHandled ==
    ASSUME NEW g \in Handlers, NEW n, up, Handle(g, n), Trusted'
    PROVE  Trusted /\ ~UsesStore
<1>1. stage' = stage /\ overlapped' = (overlapped \/ UsesStore)
    BY DEF Handle, aggVars
<1>2. ~overlapped' /\ orderly' /\ stage' # "failed"
    BY DEF Trusted
<1>3. ~overlapped /\ ~UsesStore
    BY <1>1, <1>2, Zenon
<1>4. orderly
    <2>1. CASE HandleRegisteredEvent(log[n])
        <3>1. orderly' = orderly
            BY <2>1 DEF HandleRegisteredEvent
        <3> QED BY <1>2, <3>1, Zenon
    <2>2. CASE HandleBlockSubmittedEvent(g, log[n])
        BY <1>2, <2>2, Zenon DEF HandleBlockSubmittedEvent
    <2> QED BY <2>1, <2>2 DEF Handle
<1> QED BY <1>1, <1>2, <1>3, <1>4, Zenon DEF Trusted

LEMMA TrustUnchanged ==
    ASSUME UNCHANGED <<up, orderly, overlapped, stage>>, Trusted'
    PROVE  Trusted
<1>1. up' = up /\ orderly' = orderly /\ overlapped' = overlapped /\ stage' = stage
    OBVIOUS
<1>2. up' /\ orderly' /\ ~overlapped' /\ stage' # "failed"
    BY DEF Trusted
<1>3. up /\ orderly
    BY <1>1, <1>2
<1>4. ~overlapped
    BY <1>1, <1>2
<1>5. stage # "failed"
    BY <1>1, <1>2
<1> QED BY <1>3, <1>4, <1>5 DEF Trusted

\* The handled events are events of the log.
LEMMA HandledFinite ==
    ASSUME IInv
    PROVE  Handled \subseteq 1..Len(log) /\ IsFiniteSet(Handled) /\ Len(log) \in Nat
<1>1. Len(log) \in Nat
    BY DEF IInv, PositionType
<1>2. Handled \subseteq 1..Len(log)
    BY DEF Handled, IInv, PassedOnce
<1>3. IsFiniteSet(1..Len(log))
    BY <1>1, FS_Interval
<1> QED BY <1>1, <1>2, <1>3, FS_Subset

\* The log keeps the handled events.
LogKeeps == \A n \in 1..Len(log) : log'[n] = log[n]

LEMMA EventsSame ==
    ASSUME IInv, handled' = handled, LogKeeps
    PROVE  \A s : (Registered(s)' <=> Registered(s)) /\ Earned(s)' = Earned(s)
<1>1. Handled' = Handled
    BY DEF Handled
<1>2. \A n \in Handled : log'[n] = log[n]
    BY HandledFinite DEF LogKeeps
<1>3. ASSUME NEW s PROVE Registered(s)' <=> Registered(s)
    BY <1>1, <1>2 DEF Registered
<1>4. ASSUME NEW s PROVE Earned(s)' = Earned(s)
    <2>1. Earned(s) = Paid(Handled, log, s) /\ Earned(s)' = Paid(Handled', log', s)
        BY EarnedPaid
    <2>2. Paid(Handled, log', s) = Paid(Handled, log, s)
        BY <1>2, PaidSame
    <2> QED BY <1>1, <2>1, <2>2
<1> QED BY <1>3, <1>4

\* Nothing that the expected accounts depend on changes.
Unmoved ==
    /\ handled' = handled /\ LogKeeps
    /\ work'["Update"] = work["Update"] /\ work'["BlockSubmitted"] = work["BlockSubmitted"]

LEMMA ExpectedSame ==
    ASSUME IInv, Unmoved
    PROVE  /\ \A s : (Registered(s)' <=> Registered(s)) /\ Earned(s)' = Earned(s)
           /\ Expected' = Expected
<1>1. \A s : (Registered(s)' <=> Registered(s)) /\ Earned(s)' = Earned(s)
    BY EventsSame DEF Unmoved
<1>2. ASSUME NEW s PROVE Account(s)' = Account(s)
    <2>1. Due(s)' = Due(s)
        BY DEF Due, Unmoved
    <2> QED BY <1>1, <2>1 DEF Account
<1> QED BY <1>1, <1>2 DEF Expected

\* One event more is handled.
LEMMA EventsMore ==
    ASSUME IInv, NEW n, Fresh(n), handled' = Append(handled, n), log' = log
    PROVE  \A s : /\ Registered(s)' <=> Registered(s)
                            \/ (log[n].name = "Registered" /\ log[n].seat = s)
                  /\ Earned(s)' = Earned(s) + EventPays(log[n], s)
                  /\ Earned(s) \in Nat
<1>1. Handled' = Handled \cup {n}
    <2>1. n \in Nat /\ handled \in Seq(Nat)
        BY DEF Fresh, IInv, PositionType
    <2>2. /\ DOMAIN handled' = 1..Len(handled) + 1 /\ DOMAIN handled = 1..Len(handled)
          /\ Len(handled) \in Nat /\ handled'[Len(handled) + 1] = n
          /\ \A m \in 1..Len(handled) : handled'[m] = handled[m]
        BY <2>1
    <2>3. \A m : m \in 1..Len(handled) + 1 <=> m \in 1..Len(handled) \/ m = Len(handled) + 1
        BY <2>2
    <2> QED BY <2>2, <2>3 DEF Handled
<1>2. n \notin Handled
    BY DEF Handled, Fresh
<1>3. ASSUME NEW s
      PROVE  Registered(s)' <=> Registered(s)
                                    \/ (log[n].name = "Registered" /\ log[n].seat = s)
    BY <1>1 DEF Registered
<1>4. ASSUME NEW s
      PROVE  Earned(s)' = Earned(s) + EventPays(log[n], s) /\ Earned(s) \in Nat
    <2>1. Earned(s) = Paid(Handled, log, s) /\ Earned(s)' = Paid(Handled', log, s)
        BY EarnedPaid
    <2>2. IsFiniteSet(Handled)
        BY HandledFinite
    <2>3. Paid(Handled \cup {n}, log, s) = Paid(Handled, log, s) + EventPays(log[n], s)
        BY <1>2, <2>2, PaidMore
    <2>4. Paid(Handled, log, s) \in Nat
        BY <2>2, PaidType
    <2> QED BY <1>1, <2>1, <2>3, <2>4
<1> QED BY <1>3, <1>4
----------------------------------------------------------------------------
(* The chain and the order of the work. *)

LEMMA SeatsAreNumbers ==
    ASSUME ChainInv
    PROVE  /\ DOMAIN tree \subseteq Nat /\ Cardinality(DOMAIN tree) \in Nat
           /\ DOMAIN tree = 0..Cardinality(DOMAIN tree) - 1
<1>1. PICK k \in Nat : DOMAIN tree = 0..k - 1
    BY DEF ChainInv
<1>2. Cardinality(0..k - 1) = k
    <2>1. 0 \in Int /\ k - 1 \in Int
        OBVIOUS
    <2>2. Cardinality(0..k - 1) = IF 0 > k - 1 THEN 0 ELSE (k - 1) - 0 + 1
        BY <2>1, FS_Interval
    <2> QED BY <2>2
<1> QED BY <1>1, <1>2

LEMMA ChainKept ==
    ASSUME ChainInv, UNCHANGED <<log, tree>>, saved'.V \subseteq Nat
    PROVE  ChainInv'
BY DEF ChainInv

\* What an event adds to the log.
LEMMA LogAppend ==
    ASSUME IInv, NEW e, log' = Append(log, e)
    PROVE  /\ Len(log) \in Nat /\ Len(log') = Len(log) + 1 /\ log'[Len(log) + 1] = e
           /\ LogKeeps
<1>1. PICK Events : log \in Seq(Events)
    BY DEF IInv, PositionType
<1> QED BY <1>1 DEF LogKeeps

LEMMA ChainAnswered ==
    ASSUME IInv, ChainInv, NEW submitter \in Nat, NEW V \in SUBSET Nat, Answer(submitter, V),
           saved'.V \subseteq Nat
    PROVE  ChainInv'
<1> DEFINE e == [name |-> "BlockSubmitted", submitter |-> submitter, V |-> V]
<1>1. /\ Len(log) \in Nat /\ Len(log') = Len(log) + 1 /\ log'[Len(log) + 1] = e
      /\ \A n \in 1..Len(log) : log'[n] = log[n]
    BY LogAppend DEF Answer, LogKeeps
<1>2. DOMAIN tree' = DOMAIN tree
    BY DEF Answer, Credited
<1>3. e.name = "BlockSubmitted" /\ IsAnswer(e)
    BY DEF IsAnswer
<1> HIDE DEF e
<1>4. \A n \in 1..Len(log') : n \in 1..Len(log) \/ n = Len(log) + 1
    BY <1>1
<1>5. ASSUME NEW n \in 1..Len(log')
      PROVE  \/ log'[n].name = "Registered" /\ log'[n].seat \in DOMAIN tree'
             \/ log'[n].name = "BlockSubmitted" /\ IsAnswer(log'[n])
             \/ log'[n].name \notin Watchers
    <2>1. CASE n \in 1..Len(log)
        BY <1>1, <1>2, <2>1 DEF ChainInv
    <2>2. CASE n = Len(log) + 1
        BY <1>1, <1>3, <2>2
    <2> QED BY <1>4, <2>1, <2>2
<1>6. ASSUME NEW m \in 1..Len(log'), NEW n \in 1..Len(log'),
             log'[m].name = "Registered", log'[n].name = "Registered", log'[m].seat = log'[n].seat
      PROVE  m = n
    <2>1. m # Len(log) + 1 /\ n # Len(log) + 1
        BY <1>1, <1>3, <1>6
    <2>2. m \in 1..Len(log) /\ n \in 1..Len(log)
        BY <1>4, <2>1
    <2> QED BY <1>1, <1>6, <2>2 DEF ChainInv
<1> QED BY <1>2, <1>5, <1>6 DEF ChainInv

\* The seat that is registered next is new.
LEMMA ChainRegistered ==
    ASSUME IInv, ChainInv, Registers
    PROVE  ChainInv'
<1> DEFINE k == Cardinality(DOMAIN tree)
           e == [name |-> "Registered", seat |-> k]
<1>1. /\ Len(log) \in Nat /\ Len(log') = Len(log) + 1 /\ log'[Len(log) + 1] = e
      /\ \A n \in 1..Len(log) : log'[n] = log[n]
    BY LogAppend DEF Registers, LogKeeps
<1>2. k \in Nat /\ DOMAIN tree = 0..k - 1
    BY SeatsAreNumbers
<1>3. DOMAIN tree' = 0..k
    BY DEF Registers
<1>4. saved'.V \subseteq Nat
    BY DEF Registers, aggVars, ChainInv
<1>5. e.name = "Registered" /\ e.seat = k
    OBVIOUS
<1> HIDE DEF e, k
<1>6. \A n \in 1..Len(log') : n \in 1..Len(log) \/ n = Len(log) + 1
    BY <1>1
<1>7. k \notin DOMAIN tree /\ k \in DOMAIN tree' /\ DOMAIN tree \subseteq DOMAIN tree'
    BY <1>2, <1>3
<1>8. ASSUME NEW n \in 1..Len(log')
      PROVE  \/ log'[n].name = "Registered" /\ log'[n].seat \in DOMAIN tree'
             \/ log'[n].name = "BlockSubmitted" /\ IsAnswer(log'[n])
             \/ log'[n].name \notin Watchers
    <2>1. CASE n \in 1..Len(log)
        BY <1>1, <1>7, <2>1 DEF ChainInv
    <2>2. CASE n = Len(log) + 1
        BY <1>1, <1>5, <1>7, <2>2
    <2> QED BY <1>6, <2>1, <2>2
<1>9. ASSUME NEW m \in 1..Len(log'), NEW n \in 1..Len(log'),
             log'[m].name = "Registered", log'[n].name = "Registered", log'[m].seat = log'[n].seat
      PROVE  m = n
    <2>1. \A l \in 1..Len(log) : log'[l].name = "Registered" => log'[l].seat # k
        BY <1>1, <1>7 DEF ChainInv, Watchers
    <2>2. CASE m \in 1..Len(log) /\ n \in 1..Len(log)
        BY <1>1, <1>9, <2>2 DEF ChainInv
    <2>3. CASE m = Len(log) + 1 \/ n = Len(log) + 1
        BY <1>1, <1>5, <1>6, <1>9, <2>1, <2>3
    <2> QED BY <1>6, <2>2, <2>3
<1>10. \E j \in Nat : DOMAIN tree' = 0..j - 1
    <2>1. k + 1 \in Nat /\ 0..k = 0..(k + 1) - 1
        BY <1>2
    <2> QED BY <1>3, <2>1
<1> QED BY <1>4, <1>8, <1>9, <1>10 DEF ChainInv

\* An event of another kind names no seat.
LEMMA ChainOther ==
    ASSUME IInv, ChainInv, OtherEvents
    PROVE  ChainInv'
<1>1. PICK name \in {"BlockRequested", "Transfer"} : log' = Append(log, [name |-> name])
    BY DEF OtherEvents
<1> DEFINE e == [name |-> name]
<1>2. /\ Len(log) \in Nat /\ Len(log') = Len(log) + 1 /\ log'[Len(log) + 1] = e
      /\ \A n \in 1..Len(log) : log'[n] = log[n]
    BY <1>1, LogAppend DEF LogKeeps
<1>3. tree' = tree /\ saved' = saved
    BY DEF OtherEvents, aggVars
<1>4. e.name \notin Watchers /\ e.name # "Registered"
    BY DEF Watchers
<1> HIDE DEF e
<1>5. \A n \in 1..Len(log') : n \in 1..Len(log) \/ n = Len(log) + 1
    BY <1>2
<1>6. ASSUME NEW n \in 1..Len(log')
      PROVE  \/ log'[n].name = "Registered" /\ log'[n].seat \in DOMAIN tree
             \/ log'[n].name = "BlockSubmitted" /\ IsAnswer(log'[n])
             \/ log'[n].name \notin Watchers
    <2>1. CASE n \in 1..Len(log)
        BY <1>2, <2>1 DEF ChainInv
    <2>2. CASE n = Len(log) + 1
        BY <1>2, <1>4, <2>2
    <2> QED BY <1>5, <2>1, <2>2
<1>7. ASSUME NEW m \in 1..Len(log'), NEW n \in 1..Len(log'),
             log'[m].name = "Registered", log'[n].name = "Registered", log'[m].seat = log'[n].seat
      PROVE  m = n
    <2>1. m # Len(log) + 1 /\ n # Len(log) + 1
        BY <1>2, <1>4, <1>7
    <2>2. m \in 1..Len(log) /\ n \in 1..Len(log)
        BY <1>5, <2>1
    <2> QED BY <1>2, <1>7, <2>2 DEF ChainInv
<1> QED BY <1>3, <1>6, <1>7 DEF ChainInv

LEMMA ChainStep ==
    ASSUME IInv, ChainInv, WorkInv, [Next]_vars
    PROVE  ChainInv'
<1>0. saved.V \subseteq Nat
    BY DEF ChainInv
<1>1. CASE Chain
    <2>1. CASE Registers
        BY <2>1, ChainRegistered
    <2>2. CASE OtherAnswers
        <3>1. PICK submitter \in DOMAIN tree, V \in Voters : Answer(submitter, V)
            BY <2>2 DEF OtherAnswers
        <3>2. submitter \in Nat /\ V \in SUBSET Nat
            BY <3>1, SeatsAreNumbers DEF Voters
        <3>3. saved' = saved
            BY <2>2 DEF OtherAnswers, aggVars
        <3> QED BY <1>0, <3>1, <3>2, <3>3, ChainAnswered
    <2>3. CASE OtherEvents
        BY <2>3, ChainOther
    <2> QED BY <1>1, <2>1, <2>2, <2>3 DEF Chain
<1>2. CASE Synchronizing \/ \E w \in Watchers : Subscribe(w) \/ WatchEvent(w) \/ SubscriptionError(w)
    <2>1. UNCHANGED <<log, tree>> /\ saved' = saved
        BY <1>2 DEF Synchronizing, FilterLogs, Update, Skip, UnknownEvent, Synchronize, Handle,
                    Subscribe, WatchEvent, SubscriptionError, chainVars, aggVars
    <2> QED BY <1>0, <2>1, ChainKept
<1>3. CASE \E g \in Routines : Access(g)
    <2>1. UNCHANGED <<log, tree>> /\ saved' = saved
        BY <1>3 DEF Access, ReadAccount, WriteAccount, chainVars, aggVars
    <2> QED BY <1>0, <2>1, ChainKept
<1>4. CASE Aggregating
    <2>1. CASE Aggregate
        <3>1. PICK V \in Voters : saved' = [V |-> V, data |-> data]
            BY <2>1 DEF Aggregate
        <3>2. saved'.V \subseteq Nat
            BY <3>1, SeatsAreNumbers DEF Voters
        <3> QED BY <2>1, <3>2, ChainKept DEF Aggregate, chainVars
    <2>2. CASE CopyData \/ MerkleProof
        BY <1>0, <2>2, ChainKept DEF CopyData, MerkleProof, chainVars
    <2>3. CASE CopyHData
        <3>1. saved = [V |-> saved.V, data |-> saved.data, hData |-> saved.hData]
            BY <2>3 DEF CopyHData, WorkInv
        <3>2. PICK copy : saved' = [saved EXCEPT !.hData = copy]
            BY <2>3 DEF CopyHData
        <3>3. saved'.V = saved.V
            BY <3>1, <3>2
        <3> QED BY <1>0, <2>3, <3>3, ChainKept DEF CopyHData, chainVars
    <2>4. CASE Prove \/ SetData \/ SetHData \/ Refused
        BY <1>0, <2>4, ChainKept DEF Prove, SetData, SetHData, Refused, chainVars
    <2>5. CASE Submit
        <3>1. Self \in Nat /\ saved.V \in SUBSET Nat /\ saved'.V = {}
            BY <1>0, <2>5, SeatAssumption DEF Submit
        <3>2. Answer(Self, saved.V)
            BY <2>5 DEF Submit
        <3> QED BY <3>1, <3>2, ChainAnswered
    <2>6. CASE Reverted
        <3>1. UNCHANGED <<log, tree>> /\ saved'.V = {}
            BY <2>6 DEF Reverted, chainVars
        <3> QED BY <3>1, ChainKept
    <2> QED BY <1>4, <2>1, <2>2, <2>3, <2>4, <2>5, <2>6 DEF Aggregating
<1>5. CASE Restart
    <2>1. UNCHANGED <<log, tree>> /\ saved'.V = {}
        BY <1>5 DEF Restart, chainVars
    <2> QED BY <2>1, ChainKept
<1>6. CASE UNCHANGED vars
    <2>1. UNCHANGED <<log, tree>> /\ saved' = saved
        BY <1>6 DEF vars, chainVars, aggVars
    <2> QED BY <1>0, <2>1, ChainKept
<1> QED BY <1>1, <1>2, <1>3, <1>4, <1>5, <1>6 DEF Next
\* Steps of others leave the work as it is.
LEMMA WorkKept ==
    ASSUME WorkInv, UNCHANGED <<work, held, phase, stage, saved>>
    PROVE  WorkInv'
BY DEF WorkInv, Idle

\* A handler that takes up an event is told its credits.
LEMMA WorkHandled ==
    ASSUME ChainInv, WorkInv, NEW g \in Handlers, NEW n \in 1..Len(log), Handle(g, n), Idle(g),
           g = "Update" => phase = "replay",
           g \in Watchers => phase = "done" /\ log[n].name = g
    PROVE  WorkInv'
<1>1. held' = held /\ phase' = phase /\ stage' = stage /\ saved' = saved
    BY DEF Handle, aggVars
<1>2. /\ work["Aggregate"] = work'["Aggregate"] /\ work' \in [Routines -> Seq(Credit)]
      /\ \A h \in Handlers \ {g} : work'[h] = work[h]
      /\ g = "Registered" => work' = work
    <2>1. CASE log[n].name = "Registered" /\ HandleRegisteredEvent(log[n])
        BY <2>1 DEF WorkInv, HandleRegisteredEvent
    <2>2. CASE log[n].name = "BlockSubmitted" /\ HandleBlockSubmittedEvent(g, log[n])
        <3>1. IsAnswer(log[n])
            BY <2>2 DEF ChainInv, Watchers
        <3>2. Credits(log[n]) \in Seq(Credit)
            BY <3>1, CreditsOwed
        <3>3. work' = [work EXCEPT ![g] = Credits(log[n])]
            BY <2>2 DEF HandleBlockSubmittedEvent
        <3>4. g \in Routines /\ g # "Aggregate" /\ Handlers \subseteq Routines /\ "Aggregate" \in Routines
            BY DEF Routines, Handlers, Watchers
        <3>5. g # "Registered"
            BY <2>2 DEF Watchers
        <3> QED BY <3>2, <3>3, <3>4, <3>5 DEF WorkInv
    <2> QED BY <2>1, <2>2 DEF Handle
<1>3. held[g] = <<>>
    BY DEF WorkInv, Idle, Routines
<1>4. {"Registered", "Update", "BlockSubmitted", "Aggregate"} \subseteq Routines
      /\ \A h \in Routines : h = "Aggregate" \/ h \in Handlers
    BY DEF Routines, Handlers, Watchers
<1>5. ASSUME NEW h \in Routines \ {g} PROVE work'[h] = work[h]
    <2>1. CASE h = "Aggregate"
        BY <1>2, <2>1
    <2>2. CASE h \in Handlers
        <3>1. h \in Handlers \ {g}
            BY <2>2
        <3> QED BY <1>2, <3>1
    <2> QED BY <1>4, <2>1, <2>2
<1>6. \A h \in Routines : held'[h] # <<>> => work'[h] # <<>>
    BY <1>1, <1>3, <1>5 DEF WorkInv
<1>7. work["Registered"] = <<>> /\ work'["Registered"] = <<>>
    BY <1>2, <1>4, <1>5 DEF WorkInv
<1>8. g # "Update" => (work'["Update"] # <<>> => phase = "replay")
    BY <1>4, <1>5 DEF WorkInv
<1>9. g # "BlockSubmitted" => (work'["BlockSubmitted"] # <<>> => phase = "done")
    BY <1>4, <1>5 DEF WorkInv
<1>10. g = "BlockSubmitted" => phase = "done"
    BY DEF Watchers
<1>11. /\ work'["Update"] # <<>> => phase = "replay"
       /\ work'["BlockSubmitted"] # <<>> => phase = "done"
    BY <1>8, <1>9, <1>10
<1>12. /\ work'["Aggregate"] # <<>> => stage = "proving"
       /\ \E Accounts : held \in [Routines -> Accounts]
       /\ stage = "copied" => saved = [V |-> saved.V, data |-> saved.data, hData |-> saved.hData]
    BY <1>2 DEF WorkInv
<1> QED BY <1>1, <1>2, <1>6, <1>7, <1>11, <1>12 DEF WorkInv

\* A goroutine reads the account of its first credit, and writes it.
LEMMA WorkAccess ==
    ASSUME WorkInv, NEW g \in Routines, Access(g)
    PROVE  WorkInv'
<1>1. PICK Accounts : held \in [Routines -> Accounts]
    BY DEF WorkInv
<1>2. CASE ReadAccount(g)
    <2>1. work' = work /\ phase' = phase /\ stage' = stage /\ saved' = saved /\ work[g] # <<>>
        BY <1>2 DEF ReadAccount, syncVars, aggVars
    <2>2. CASE held' = held
        BY <2>1, <2>2, WorkKept
    <2>3. CASE held' = [held EXCEPT ![g] = <<data[Head(work[g]).seat]>>]
        <3> DEFINE v == <<data[Head(work[g]).seat]>>
        <3> HIDE DEF v
        <3>1. held' \in [Routines -> Accounts \cup {v}]
            BY <1>1, <2>3 DEF v
        <3>2. \A h \in Routines : held'[h] # <<>> => work[h] # <<>>
            BY <1>1, <2>1, <2>3 DEF WorkInv
        <3> QED BY <2>1, <3>1, <3>2 DEF WorkInv
    <2> QED BY <1>2, <2>2, <2>3 DEF ReadAccount
<1>3. CASE WriteAccount(g)
    <2>1. /\ held' = [held EXCEPT ![g] = <<>>] /\ work' = [work EXCEPT ![g] = Tail(@)]
          /\ phase' = phase /\ stage' = stage /\ saved' = saved /\ held[g] # <<>>
        BY <1>3 DEF WriteAccount, syncVars, aggVars
    <2>2. work[g] \in Seq(Credit) /\ work[g] # <<>>
        BY <2>1 DEF WorkInv
    <2>3. Tail(work[g]) \in Seq(Credit)
        BY <2>2
    <2>4. work' \in [Routines -> Seq(Credit)] /\ \A h \in Routines \ {g} : work'[h] = work[h]
        BY <2>1, <2>3 DEF WorkInv
    <2>5. held' \in [Routines -> Accounts \cup {<<>>}] /\ held'[g] = <<>>
          /\ \A h \in Routines \ {g} : held'[h] = held[h]
        BY <1>1, <2>1
    <2>6. \A h \in Routines : work[h] = <<>> => work'[h] = <<>>
        BY <2>2, <2>4
    <2>7. {"Registered", "Update", "BlockSubmitted", "Aggregate"} \subseteq Routines
        BY DEF Routines, Handlers, Watchers
    <2>8. \A h \in Routines : held'[h] # <<>> => work'[h] # <<>>
        BY <2>4, <2>5 DEF WorkInv
    <2>9. /\ work'["Registered"] = <<>>
          /\ work'["Update"] # <<>> => phase = "replay"
          /\ work'["BlockSubmitted"] # <<>> => phase = "done"
          /\ work'["Aggregate"] # <<>> => stage = "proving"
        BY <2>6, <2>7 DEF WorkInv
    <2> QED BY <2>1, <2>4, <2>5, <2>8, <2>9 DEF WorkInv
<1> QED BY <1>2, <1>3 DEF Access

LEMMA WorkAggregated ==
    ASSUME ChainInv, WorkInv, Aggregating
    PROVE  WorkInv'
<1>1. CASE MerkleProof
    <2> DEFINE Votes == {[seat |-> s, reward |-> ValidatorReward] : s \in saved.V}
    <2>1. PICK votes \in [1..NumAccounts -> Votes] :
            work' = [work EXCEPT !["Aggregate"] =
                        <<[seat |-> Self, reward |-> AggregatorReward]>> \o votes]
        BY <1>1 DEF MerkleProof
    <2> DEFINE own == [seat |-> Self, reward |-> AggregatorReward]
    <2>2. own \in Credit /\ Votes \subseteq Credit
        BY SeatAssumption, RewardAssumption DEF Credit, ChainInv
    <2>3. work' = [work EXCEPT !["Aggregate"] = <<own>> \o votes]
        BY <2>1
    <2> HIDE DEF own, Votes
    <2>4. votes \in Seq(Credit)
        <3>1. votes \in [1..NumAccounts -> Credit]
            BY <2>2
        <3> QED BY <3>1, RewardAssumption
    <2>5. <<own>> \o votes \in Seq(Credit)
        BY <2>2, <2>4
    <2>6. work' \in [Routines -> Seq(Credit)] /\ \A h \in Handlers : work'[h] = work[h]
        BY <2>3, <2>5 DEF WorkInv, Routines, Handlers, Watchers
    <2>7. work["Aggregate"] = <<>> /\ stage' = "proving" /\ phase' = phase /\ held' = held
        BY <1>1 DEF MerkleProof, WorkInv, syncVars
    <2>8. \A h \in Routines : held'[h] # <<>> => work'[h] # <<>>
        BY <2>6, <2>7 DEF WorkInv, Routines
    <2>9. /\ work'["Registered"] = <<>>
          /\ work'["Update"] # <<>> => phase = "replay"
          /\ work'["BlockSubmitted"] # <<>> => phase = "done"
        BY <2>6 DEF WorkInv, Handlers, Watchers
    <2> QED BY <2>6, <2>7, <2>8, <2>9 DEF WorkInv
<1>2. ASSUME UNCHANGED <<work, held, phase>>, work["Aggregate"] = <<>>,
             stage' = "copied" =>
                saved' = [V |-> saved'.V, data |-> saved'.data, hData |-> saved'.hData]
      PROVE  WorkInv'
    BY <1>2 DEF WorkInv
<1>3. CASE Aggregate
    BY <1>2, <1>3 DEF Aggregate, WorkInv, syncVars
<1>4. CASE CopyData
    <2>1. PICK copy : saved' = [V |-> saved.V, data |-> copy, hData |-> hData]
        BY <1>4 DEF CopyData
    <2>2. saved' = [V |-> saved'.V, data |-> saved'.data, hData |-> saved'.hData]
        BY <2>1
    <2> QED BY <1>2, <1>4, <2>2 DEF CopyData, WorkInv, syncVars
<1>5. CASE CopyHData \/ SetData \/ SetHData \/ Submit \/ Reverted \/ Refused
    BY <1>2, <1>5 DEF CopyHData, SetData, SetHData, Submit, Reverted, Refused, WorkInv, syncVars
<1>6. CASE Prove
    BY <1>2, <1>6 DEF Prove, WorkInv, syncVars, Idle
<1> QED BY <1>1, <1>3, <1>4, <1>5, <1>6 DEF Aggregating

LEMMA WorkStep ==
    ASSUME IInv, ChainInv, WorkInv, [Next]_vars
    PROVE  WorkInv'
<1>1. CASE Chain
    <2>1. UNCHANGED <<work, held, phase, stage, saved>>
        BY <1>1 DEF Chain, Registers, OtherAnswers, OtherEvents, syncVars, aggVars
    <2> QED BY <2>1, WorkKept
<1>2. CASE FilterLogs
    <2>1. work["Update"] = <<>> /\ work["BlockSubmitted"] = <<>>
        BY <1>2 DEF FilterLogs, WorkInv
    <2>2. UNCHANGED <<work, held, stage, saved>>
        BY <1>2 DEF FilterLogs, aggVars
    <2> QED BY <2>1, <2>2 DEF WorkInv
<1>3. CASE UnknownEvent \/ Synchronize
    <2>1. work["Update"] = <<>> /\ work["BlockSubmitted"] = <<>>
        BY <1>3 DEF UnknownEvent, Replays, Synchronize, WorkInv, Idle
    <2>2. UNCHANGED <<work, held, stage, saved>>
        BY <1>3 DEF UnknownEvent, Synchronize, aggVars
    <2> QED BY <2>1, <2>2 DEF WorkInv
<1>4. CASE Update
    <2>1. Fresh(next["Update"])
        BY <1>4, UpdateFresh
    <2>2. /\ next["Update"] \in 1..Len(log) /\ Handle("Update", next["Update"])
          /\ Idle("Update") /\ phase = "replay"
          /\ "Update" \in Handlers /\ "Update" \notin Watchers
        BY <1>4, <2>1 DEF Update, Replays, Fresh, Handlers, Watchers
    <2> QED BY <2>2, WorkHandled
<1>5. ASSUME NEW w \in Watchers, WatchEvent(w) PROVE WorkInv'
    <2>1. phase = "done"
        BY <1>5, WatchFresh
    <2>2. PICK n \in Matching(w) : Handle(w, n) /\ Fresh(n) /\ log[n].name = w
        BY <1>5, WatchFresh
    <2>3. n \in 1..Len(log) /\ w \in Handlers /\ w # "Update" /\ Idle(w)
        BY <1>5, <2>2 DEF Fresh, Handlers, Watchers, WatchEvent
    <2> QED BY <2>1, <2>2, <2>3, WorkHandled
<1>6. ASSUME NEW w \in Watchers, Subscribe(w) \/ SubscriptionError(w) PROVE WorkInv'
    <2>1. UNCHANGED <<work, held, phase, stage, saved>>
        BY <1>6 DEF Subscribe, SubscriptionError, aggVars
    <2> QED BY <2>1, WorkKept
<1>7. CASE \E g \in Routines : Access(g)
    BY <1>7, WorkAccess
<1>8. CASE Aggregating
    BY <1>8, WorkAggregated
<1>9. CASE Restart
    <2>1. /\ work' = [g \in Routines |-> <<>>] /\ held' = [g \in Routines |-> <<>>]
          /\ phase' = "filter" /\ stage' = "idle"
        BY <1>9 DEF Restart
    <2>2. held' \in [Routines -> {<<>>}] /\ work' \in [Routines -> Seq(Credit)]
        BY <2>1
    <2>3. {"Registered", "Update", "BlockSubmitted", "Aggregate"} \subseteq Routines
        BY DEF Routines, Handlers, Watchers
    <2>4. \A g \in Routines : held'[g] = <<>> /\ work'[g] = <<>>
        BY <2>1
    <2> QED BY <2>1, <2>2, <2>3, <2>4 DEF WorkInv
<1>10. CASE UNCHANGED vars
    <2>1. UNCHANGED <<work, held, phase, stage, saved>>
        BY <1>10 DEF vars, syncVars, aggVars
    <2> QED BY <2>1, WorkKept
<1>11. CASE Skip
    <2>1. UNCHANGED <<work, held, phase, stage, saved>>
        BY <1>11 DEF Skip, aggVars
    <2> QED BY <2>1, WorkKept
<1> QED BY <1>1, <1>2, <1>3, <1>4, <1>5, <1>6, <1>7, <1>8, <1>9, <1>10, <1>11
        DEF Next, Synchronizing
----------------------------------------------------------------------------
(* The store. *)

StoreGood == HandlersInv /\ DataInv

LEMMA HandlersKept ==
    ASSUME IInv, HandlersInv, Unmoved,
           \A g \in Handlers : work'[g] = work[g] /\ held'[g] = held[g],
           \A g \in Handlers : held[g] # <<>> => data' = data,
           UsesStore' => \A g \in Handlers : Idle(g)
    PROVE  HandlersInv'
<1>1. \A s : (Registered(s)' <=> Registered(s)) /\ Earned(s)' = Earned(s)
    BY ExpectedSame
<1>2. ASSUME NEW g \in Handlers, NEW n \in DOMAIN work'[g], work'[g][n].seat \in Slots
      PROVE  Registered(work[g][n].seat)'
    <2>1. PICK s : s = work[g][n].seat
        OBVIOUS
    <2>2. work'[g] = work[g]
        OBVIOUS
    <2>3. Registered(s)
        BY <1>2, <2>1, <2>2 DEF HandlersInv
    <2>4. Registered(s)'
        BY <1>1, <2>3
    <2> QED BY <2>1, <2>2, <2>4 DEF Registered
<1>3. ASSUME NEW g \in Handlers, held'[g] # <<>>
      PROVE  Head(work'[g]).seat \in Slots /\ held'[g] = <<data'[Head(work'[g]).seat]>>
    BY <1>3 DEF HandlersInv
<1>4. ASSUME NEW s \in Slots, ~Registered(s)' PROVE Earned(s)' = 0
    BY <1>1, <1>4 DEF HandlersInv
<1>5. UsesStore' => \A g \in Handlers : Idle(g)'
    BY DEF Idle
<1> QED BY <1>2, <1>3, <1>4, <1>5 DEF HandlersInv

\* Steps that do not touch the store.
LEMMA StoreAlone ==
    ASSUME IInv, WorkInv, StoreGood, handled' = handled, LogKeeps,
           UNCHANGED <<data, hData, work, held, stage, saved>>
    PROVE  StoreGood'
<1>1. Unmoved
    BY DEF Unmoved
<1>2. UsesStore' => \A g \in Handlers : Idle(g)
    BY DEF StoreGood, HandlersInv, UsesStore
<1>3. HandlersInv'
    BY <1>1, <1>2, HandlersKept DEF StoreGood
<1>4. Expected' = Expected
    BY <1>1, ExpectedSame
<1>5. DataInv'
    BY <1>4 DEF StoreGood, DataInv
<1> QED BY <1>3, <1>5 DEF StoreGood

\* While handlers are idle they hold nothing.
LEMMA IdleHolds ==
    ASSUME WorkInv, \A g \in Handlers : Idle(g)
    PROVE  \A g \in Handlers : held[g] = <<>>
BY DEF WorkInv, Idle, Routines

\* The aggregator uses the store: what it will put back stays as expected.
LEMMA AggregateStep ==
    ASSUME IInv, WorkInv, StoreGood, Aggregating, Trusted'
    PROVE  StoreGood'
<1>1. Unmoved /\ \A g \in Handlers : work'[g] = work[g] /\ held'[g] = held[g]
    <2>1. handled' = handled /\ held' = held
        BY DEF Aggregating, Aggregate, CopyData, CopyHData, MerkleProof, Prove, SetData, SetHData,
               Submit, Reverted, Refused, pastVars
    <2>2. LogKeeps
        <3>1. log' = log \/ \E e : log' = Append(log, e)
            BY DEF Aggregating, Aggregate, CopyData, CopyHData, MerkleProof, Prove, SetData,
                   SetHData, Submit, Reverted, Refused, Answer, chainVars
        <3> QED BY <3>1, LogAppend DEF LogKeeps
    <2>3. \A g \in Handlers : work'[g] = work[g]
        <3>1. CASE MerkleProof
            <4>1. PICK credits : work' = [work EXCEPT !["Aggregate"] = credits]
                BY <3>1 DEF MerkleProof
            <4> QED BY <4>1 DEF WorkInv, Routines, Handlers, Watchers
        <3>2. CASE ~MerkleProof
            BY <3>2 DEF Aggregating, Aggregate, CopyData, CopyHData, Prove, SetData, SetHData,
                        Submit, Reverted, Refused
        <3> QED BY <3>1, <3>2
    <2>4. "Update" \in Handlers /\ "BlockSubmitted" \in Handlers
        BY DEF Handlers, Watchers
    <2> QED BY <2>1, <2>2, <2>3, <2>4 DEF Unmoved
<1>2. Expected' = Expected
    BY <1>1, ExpectedSame
<1>3. UsesStore' => \A g \in Handlers : Idle(g)
    <2>1. CASE Aggregate
        <3>1. overlapped' = (overlapped \/ \E h \in Handlers : ~Idle(h)) /\ ~overlapped'
            BY <2>1 DEF Aggregate, Trusted
        <3> QED BY <3>1
    <2>2. CASE ~Aggregate
        <3>1. UsesStore' => UsesStore
            BY <2>2 DEF Aggregating, CopyData, CopyHData, MerkleProof, Prove, SetData, SetHData,
                        Submit, Reverted, Refused, UsesStore
        <3> QED BY <3>1 DEF StoreGood, HandlersInv
    <2> QED BY <2>1, <2>2
<1>4. HandlersInv'
    <2>1. \A g \in Handlers : held[g] # <<>> => data' = data
        <3>1. CASE SetData
            <4>1. \A g \in Handlers : held[g] = <<>>
                BY <3>1, IdleHolds DEF SetData, StoreGood, HandlersInv, UsesStore
            <4> QED BY <4>1
        <3>2. CASE ~SetData
            BY <3>2 DEF Aggregating, Aggregate, CopyData, CopyHData, MerkleProof, Prove, SetHData,
                        Submit, Reverted, Refused, storeVars
        <3> QED BY <3>1, <3>2
    <2> QED BY <1>1, <1>3, <2>1, HandlersKept DEF StoreGood
<1>5. DataInv'
    <2>1. CASE Aggregate
        <3>1. PICK V : saved' = [V |-> V, data |-> data]
            BY <2>1 DEF Aggregate
        <3>2. saved'.data = data
            BY <3>1
        <3> QED BY <1>2, <2>1, <3>2 DEF Aggregate, StoreGood, DataInv, storeVars
    <2>2. CASE CopyData
        <3>1. PICK copy \in Copies(saved.data, data) :
                saved' = [V |-> saved.V, data |-> copy, hData |-> hData]
            BY <2>2 DEF CopyData
        <3>2. saved.data = Expected /\ data = Expected /\ hData = Expected
            BY <2>2 DEF CopyData, StoreGood, DataInv
        <3>3. copy = Expected
            BY <3>1, <3>2 DEF Copies, Expected
        <3>4. saved'.data = copy /\ saved'.hData = hData
            BY <3>1
        <3> QED BY <1>2, <2>2, <3>2, <3>3, <3>4 DEF CopyData, DataInv, storeVars
    <2>3. CASE CopyHData
        <3>1. PICK copy \in Copies(saved.hData, hData) : saved' = [saved EXCEPT !.hData = copy]
            BY <2>3 DEF CopyHData
        <3>2. /\ saved.data = Expected /\ saved.hData = Expected
              /\ data = Expected /\ hData = Expected
            BY <2>3 DEF CopyHData, StoreGood, DataInv
        <3>3. copy = Expected
            BY <3>1, <3>2 DEF Copies, Expected
        <3>4. saved = [V |-> saved.V, data |-> saved.data, hData |-> saved.hData]
            BY <2>3 DEF CopyHData, WorkInv
        <3>5. saved'.data = saved.data /\ saved'.hData = copy
            BY <3>1, <3>4
        <3> QED BY <1>2, <2>3, <3>2, <3>3, <3>5 DEF CopyHData, DataInv, storeVars
    <2>4. CASE MerkleProof
        <3>1. saved'.data = saved.data /\ saved'.hData = saved.hData
            BY <2>4 DEF MerkleProof
        <3> QED BY <1>2, <2>4, <3>1 DEF MerkleProof, StoreGood, DataInv
    <2>5. CASE Prove
        <3>1. stage' = "proved"
            BY <2>5 DEF Prove, Trusted
        <3> QED BY <1>2, <2>5, <3>1 DEF Prove, StoreGood, DataInv
    <2>6. CASE SetData
        BY <1>2, <2>6 DEF SetData, StoreGood, DataInv
    <2>7. CASE SetHData
        BY <1>2, <2>7 DEF SetHData, Restored, StoreGood, DataInv
    <2>8. CASE Submit
        BY <1>2, <2>8 DEF Submit, StoreGood, DataInv, storeVars
    <2>9. CASE Reverted \/ Refused
        BY <1>2, <2>9 DEF Reverted, Refused, StoreGood, DataInv, storeVars
    <2> QED BY <2>1, <2>2, <2>3, <2>4, <2>5, <2>6, <2>7, <2>8, <2>9 DEF Aggregating
<1> QED BY <1>4, <1>5 DEF StoreGood

\* The aggregator reads and writes accounts only while it proves.
LEMMA AggregatorAccess ==
    ASSUME IInv, WorkInv, StoreGood, Access("Aggregate")
    PROVE  StoreGood'
<1>1. handled' = handled /\ log' = log /\ stage' = stage /\ saved' = saved
    BY DEF Access, ReadAccount, WriteAccount, pastVars, chainVars, aggVars
<1>2. stage = "proving"
    BY DEF Access, ReadAccount, WriteAccount, WorkInv, Routines
<1>3. \A g \in Handlers : Idle(g) /\ held[g] = <<>>
    BY <1>2, IdleHolds DEF StoreGood, HandlersInv, UsesStore
<1>4. \A g \in Handlers : work'[g] = work[g] /\ held'[g] = held[g]
    <2>1. PICK Accounts : held \in [Routines -> Accounts]
        BY DEF WorkInv
    <2>2. \A g \in Handlers : g \in Routines /\ g # "Aggregate"
        BY DEF Routines, Handlers, Watchers
    <2>3. CASE ReadAccount("Aggregate")
        BY <2>1, <2>2, <2>3 DEF ReadAccount
    <2>4. CASE WriteAccount("Aggregate")
        BY <2>1, <2>2, <2>4 DEF WriteAccount, WorkInv
    <2> QED BY <2>3, <2>4 DEF Access
<1>5. Unmoved
    BY <1>1, <1>4 DEF Unmoved, LogKeeps, Handlers, Watchers
<1>6. HandlersInv'
    BY <1>3, <1>4, <1>5, HandlersKept DEF StoreGood
<1>7. Expected' = Expected
    BY <1>5, ExpectedSame
<1>8. DataInv'
    BY <1>1, <1>2, <1>7 DEF StoreGood, DataInv
<1> QED BY <1>6, <1>8 DEF StoreGood
\* A handler reads the account of a registered seat.
LEMMA HandlerReads ==
    ASSUME IInv, WorkInv, StoreGood, NEW g \in Handlers, ReadAccount(g), Trusted'
    PROVE  StoreGood'
<1>1. /\ handled' = handled /\ log' = log /\ stage' = stage /\ saved' = saved
      /\ data' = data /\ hData' = hData /\ work' = work
    BY DEF ReadAccount, pastVars, chainVars, aggVars, storeVars
<1>2. ~UsesStore
    <2>1. overlapped' = (overlapped \/ (g # "Aggregate" /\ UsesStore)) /\ ~overlapped'
        BY DEF ReadAccount, Trusted
    <2>2. g # "Aggregate"
        BY DEF Handlers, Watchers
    <2> QED BY <2>1, <2>2
<1>3. /\ Head(work[g]).seat \in Slots
      /\ held' = [held EXCEPT ![g] = <<data[Head(work[g]).seat]>>]
    BY DEF ReadAccount, Trusted
<1>4. Unmoved
    BY <1>1 DEF Unmoved, LogKeeps
<1>5. \A s : (Registered(s)' <=> Registered(s)) /\ Earned(s)' = Earned(s)
    BY <1>4, ExpectedSame
<1>6. HandlersInv'
    <2>1. ASSUME NEW h \in Handlers, NEW n \in DOMAIN work[h], work[h][n].seat \in Slots
          PROVE  Registered(work[h][n].seat)'
        <3>1. PICK s : s = work[h][n].seat
            OBVIOUS
        <3>2. Registered(s)
            BY <2>1, <3>1 DEF StoreGood, HandlersInv
        <3>3. Registered(s)'
            BY <1>5, <3>2
        <3> QED BY <1>1, <3>1, <3>3 DEF Registered
    <2>2. ASSUME NEW h \in Handlers, held'[h] # <<>>
          PROVE  Head(work[h]).seat \in Slots /\ held'[h] = <<data[Head(work[h]).seat]>>
        <3>1. PICK Accounts : held \in [Routines -> Accounts]
            BY DEF WorkInv
        <3>2. g \in Routines /\ h \in Routines
            BY DEF Routines
        <3>3. CASE h = g
            BY <1>3, <3>1, <3>2, <3>3
        <3>4. CASE h # g
            <4>1. held'[h] = held[h]
                BY <1>3, <3>1, <3>2, <3>4
            <4> QED BY <2>2, <4>1 DEF StoreGood, HandlersInv
        <3> QED BY <3>3, <3>4
    <2>3. ASSUME NEW s \in Slots, ~Registered(s)' PROVE Earned(s)' = 0
        BY <1>5, <2>3 DEF StoreGood, HandlersInv
    <2>4. ~UsesStore'
        BY <1>1, <1>2 DEF UsesStore
    <2> QED BY <1>1, <2>1, <2>2, <2>3, <2>4 DEF HandlersInv
<1>7. Expected' = Expected
    BY <1>4, ExpectedSame
<1>8. DataInv'
    BY <1>1, <1>7 DEF StoreGood, DataInv
<1> QED BY <1>6, <1>8 DEF StoreGood

\* The replay and the watcher never have credits to write at the same time.
LEMMA OneWorks ==
    ASSUME WorkInv, NEW g \in Handlers, work[g] # <<>>
    PROVE  /\ g \in {"Update", "BlockSubmitted"}
           /\ \A h \in Handlers \ {g} : work[h] = <<>> /\ held[h] = <<>>
<1>1. g \in {"Update", "BlockSubmitted"}
    BY DEF WorkInv, Handlers, Watchers
<1>2. ASSUME NEW h \in Handlers \ {g} PROVE work[h] = <<>>
    BY <1>1, <1>2 DEF WorkInv, Handlers, Watchers
<1>3. ASSUME NEW h \in Handlers \ {g} PROVE held[h] = <<>>
    <2>1. h \in Routines
        BY DEF Routines
    <2> QED BY <1>2, <2>1 DEF WorkInv
<1> QED BY <1>1, <1>2, <1>3

\* What handlers still owe is a number.
LEMMA DueType ==
    ASSUME WorkInv, NEW s
    PROVE  /\ Owed(work["Update"], s) \in Nat /\ Owed(work["BlockSubmitted"], s) \in Nat
           /\ Due(s) \in Nat
<1>1. work["Update"] \in Seq(Credit) /\ work["BlockSubmitted"] \in Seq(Credit)
    BY DEF WorkInv, Routines, Handlers, Watchers
<1>2. \A credits \in Seq(Credit) : Owed(credits, s) \in Nat
    BY SumsExist, OwedSums
<1> QED BY <1>1, <1>2 DEF Due

\* A reward is added to the balance of a known account.
LEMMA RewardAdded ==
    ASSUME NEW i, NEW b \in Int, NEW x \in Int,
           NEW r, r = [index |-> i, known |-> TRUE, balance |-> b]
    PROVE  [r EXCEPT !.balance = @ + x] = [index |-> i, known |-> TRUE, balance |-> b + x]
<1>1. r \in [index : {i}, known : {TRUE}, balance : {b}]
    OBVIOUS
<1>2. [r EXCEPT !.balance = @ + x] \in [index : {i}, known : {TRUE}, balance : {b + x}]
    BY <1>1
<1>3. PICK q : q = [r EXCEPT !.balance = @ + x]
    OBVIOUS
<1>4. q \in [index : {i}, known : {TRUE}, balance : {b + x}]
    BY <1>2, <1>3
<1>5. q = [index |-> i, known |-> TRUE, balance |-> b + x]
    BY <1>4
<1> QED BY <1>3, <1>5

\* A handler writes the account it has read, with the reward: that much less
\* is due.
LEMMA HandlerWrites ==
    ASSUME IInv, WorkInv, StoreGood, NEW g \in Handlers, WriteAccount(g), Trusted'
    PROVE  StoreGood'
<1> DEFINE seat == Head(work[g]).seat
           reward == Head(work[g]).reward
           account == [held[g][1] EXCEPT !.balance = @ + reward]
<1>1. /\ handled' = handled /\ log' = log /\ stage' = stage /\ saved' = saved
      /\ data' = Written(data, account) /\ hData' = Written(hData, account)
      /\ held' = [held EXCEPT ![g] = <<>>] /\ work' = [work EXCEPT ![g] = Tail(@)]
      /\ held[g] # <<>>
    BY DEF WriteAccount, pastVars, chainVars, aggVars
<1>2. ~UsesStore
    <2>1. overlapped' = (overlapped \/ (g # "Aggregate" /\ UsesStore)) /\ ~overlapped'
        BY DEF WriteAccount, Trusted
    <2>2. g # "Aggregate"
        BY DEF Handlers, Watchers
    <2> QED BY <2>1, <2>2
<1>3. data = Expected /\ hData = Expected
    BY <1>2 DEF UsesStore, StoreGood, DataInv
<1>4. g \in Routines /\ Handlers \subseteq Routines
    BY DEF Routines
<1>5. work[g] \in Seq(Credit) /\ work[g] # <<>>
    BY <1>1, <1>4 DEF WorkInv
<1>6. /\ seat \in Slots /\ held[g] = <<data[seat]>> /\ Registered(seat)
      /\ Head(work[g]) \in Credit
    <2>1. 1 \in DOMAIN work[g] /\ work[g][1] = Head(work[g]) /\ Head(work[g]) \in Credit
        BY <1>5
    <2> QED BY <1>1, <2>1 DEF StoreGood, HandlersInv
<1>7. \A s : (Registered(s)' <=> Registered(s)) /\ Earned(s)' = Earned(s)
    BY <1>1, EventsSame DEF LogKeeps
<1>8. /\ work' \in [Routines -> Seq(Credit)] /\ work'[g] = Tail(work[g])
      /\ \A h \in Handlers \ {g} : work'[h] = work[h] /\ work[h] = <<>>
    <2>1. Tail(work[g]) \in Seq(Credit)
        BY <1>5
    <2>2. \A h \in Handlers \ {g} : work[h] = <<>>
        BY <1>5, OneWorks
    <2> QED BY <1>1, <1>4, <2>1, <2>2 DEF WorkInv
<1>9. ASSUME NEW s PROVE Due(s) = Due(s)' + Pay(Head(work[g]), s) /\ Due(s)' \in Nat
    <2>1. /\ Owed(Tail(work[g]), s) \in Nat /\ Pay(Head(work[g]), s) \in Nat
          /\ Owed(work[g], s) = Pay(Head(work[g]), s) + Owed(Tail(work[g]), s)
        BY <1>5, OwedTail
    <2>2. g \in {"Update", "BlockSubmitted"} /\ {"Update", "BlockSubmitted"} \subseteq Handlers
        BY <1>5, OneWorks DEF Handlers, Watchers
    <2>3. Owed(<<>>, s) = 0
        BY OwedEmpty
    <2>4. CASE g = "Update"
        <3>1. work["BlockSubmitted"] = <<>> /\ work'["BlockSubmitted"] = <<>>
            BY <1>8, <2>2, <2>4
        <3> QED BY <1>8, <2>1, <2>3, <2>4, <3>1 DEF Due
    <2>5. CASE g = "BlockSubmitted"
        <3>1. work["Update"] = <<>> /\ work'["Update"] = <<>>
            BY <1>8, <2>2, <2>5
        <3> QED BY <1>8, <2>1, <2>3, <2>5, <3>1 DEF Due
    <2> QED BY <2>2, <2>4, <2>5
<1>10. account = [index |-> seat, known |-> TRUE, balance |-> Earned(seat) - Due(seat) + reward]
    <2>1. data[seat] = [index |-> seat, known |-> TRUE, balance |-> Earned(seat) - Due(seat)]
        <3> HIDE DEF seat
        <3> QED BY <1>3, <1>6 DEF Expected, Account
    <2>2. held[g][1] = data[seat]
        BY <1>6
    <2>3. Earned(seat) - Due(seat) \in Int /\ reward \in Int
        <3>1. Earned(seat) \in Nat
            BY HandledFinite, EarnedPaid, PaidType
        <3>2. Due(seat) \in Nat
            BY DueType
        <3>3. reward \in Nat
            BY <1>6 DEF Credit
        <3> QED BY <3>1, <3>2, <3>3
    <2> HIDE DEF seat, reward
    <2> QED BY <2>1, <2>2, <2>3, RewardAdded
<1> DEFINE balance == Earned(seat) - Due(seat) + reward
<1>11. Written(Expected, account) = Expected'
    <2>1. Written(Expected, account) =
            [s \in Slots |-> IF s = seat THEN [index |-> seat, known |-> TRUE, balance |-> balance]
                                         ELSE Expected[s]]
        <3>1. account = [index |-> seat, known |-> TRUE, balance |-> balance]
            BY <1>10
        <3>2. DOMAIN Expected = Slots
            BY DEF Expected
        <3>3. account.index = seat /\ seat \in Slots
            BY <1>6, <3>1
        <3> HIDE DEF account, balance, seat
        <3>4. Written(Expected, account) = [Expected EXCEPT ![seat] = account]
            BY <3>3 DEF Written
        <3>5. Written(Expected, account) = [s \in Slots |-> IF s = seat THEN account ELSE Expected[s]]
            BY <3>2, <3>3, <3>4
        <3> QED BY <3>1, <3>5
    <2>2. ASSUME NEW s \in Slots
          PROVE  Account(s)' = IF s = seat
                               THEN [index |-> seat, known |-> TRUE, balance |-> balance]
                               ELSE Account(s)
        <3>1. /\ Due(s) = Due(s)' + Pay(Head(work[g]), s) /\ Due(s)' \in Nat
              /\ Pay(Head(work[g]), s) = IF s = seat THEN reward ELSE 0
              /\ reward \in Nat
            BY <1>6, <1>9 DEF Pay, Credit
        <3>2. Earned(s) \in Nat
            BY HandledFinite, EarnedPaid, PaidType
        <3>3. Earned(s)' = Earned(s) /\ (Registered(s)' <=> Registered(s))
            BY <1>7
        <3>4. CASE s = seat
            <4>1. Earned(s) - Due(s)' = balance
                BY <3>1, <3>2, <3>4
            <4>2. Registered(s)'
                BY <1>6, <3>3, <3>4
            <4> HIDE DEF balance, seat
            <4> QED BY <3>3, <3>4, <4>1, <4>2 DEF Account
        <3>5. CASE s # seat
            <4>1. Due(s)' = Due(s)
                BY <3>1, <3>5
            <4> HIDE DEF balance, seat
            <4> QED BY <3>3, <3>5, <4>1 DEF Account
        <3> QED BY <3>4, <3>5
    <2> HIDE DEF balance, seat, account
    <2> QED BY <2>1, <2>2 DEF Expected
<1>12. DataInv'
    BY <1>1, <1>2, <1>3, <1>11 DEF DataInv, UsesStore
<1>13. HandlersInv'
    <2>1. ASSUME NEW h \in Handlers, NEW n \in DOMAIN work'[h], work'[h][n].seat \in Slots
          PROVE  Registered(work[h][n].seat)'
        <3>1. PICK s : s = work'[h][n].seat
            OBVIOUS
        <3>2. h = g
            BY <1>8, <2>1
        <3>3. n + 1 \in DOMAIN work[g] /\ work'[g][n] = work[g][n + 1]
            <4>1. \A credits \in Seq(Credit) : credits # <<>> =>
                    \A k \in DOMAIN Tail(credits) :
                        k + 1 \in DOMAIN credits /\ Tail(credits)[k] = credits[k + 1]
                OBVIOUS
            <4>2. n \in DOMAIN Tail(work[g]) /\ work'[g] = Tail(work[g])
                BY <1>8, <2>1, <3>2
            <4> QED BY <1>5, <4>1, <4>2
        <3>4. Registered(s)
            BY <2>1, <3>1, <3>2, <3>3 DEF StoreGood, HandlersInv
        <3>5. Registered(s)'
            BY <1>7, <3>4
        <3> QED BY <3>1, <3>5 DEF Registered
    <2>2. \A h \in Handlers : held'[h] = <<>>
        <3>1. PICK Accounts : held \in [Routines -> Accounts]
            BY DEF WorkInv
        <3>2. \A h \in Handlers \ {g} : held[h] = <<>>
            BY <1>5, OneWorks
        <3> QED BY <1>1, <1>4, <3>1, <3>2
    <2>3. ASSUME NEW s \in Slots, ~Registered(s)' PROVE Earned(s)' = 0
        BY <1>7, <2>3 DEF StoreGood, HandlersInv
    <2>4. ~UsesStore'
        BY <1>1, <1>2 DEF UsesStore
    <2> QED BY <2>1, <2>2, <2>3, <2>4 DEF HandlersInv
<1> QED BY <1>12, <1>13 DEF StoreGood
\* The known accounts are the registered ones.
LEMMA KnownRegistered ==
    ASSUME NEW s \in Slots
    PROVE  Expected[s].known => Registered(s)
<1>1. Zero.known = FALSE
    BY DEF Zero
<1>2. Expected[s] = Account(s)
    BY DEF Expected
<1> QED BY <1>1, <1>2 DEF Account

\* A seat that is not registered is owed nothing.
LEMMA NothingDue ==
    ASSUME WorkInv, HandlersInv, NEW s \in Slots, ~Registered(s)
    PROVE  Due(s) = 0
<1>1. ASSUME NEW g \in Handlers PROVE Owed(work[g], s) = 0
    <2>1. work[g] \in Seq(Credit)
        BY DEF WorkInv, Routines
    <2>2. \A n \in 1..Len(work[g]) : work[g][n].seat # s
        BY <2>1 DEF HandlersInv
    <2> QED BY <2>1, <2>2, OwedNone
<1>2. "Update" \in Handlers /\ "BlockSubmitted" \in Handlers
    BY DEF Handlers, Watchers
<1> QED BY <1>1, <1>2 DEF Due

\* A registration makes a new account, of which nobody has paid or holds anything.
LEMMA HandlesRegistration ==
    ASSUME IInv, ChainInv, WorkInv, StoreGood, NEW g \in Handlers, NEW n, Fresh(n), up,
           Handle(g, n), log[n].name = "Registered", HandleRegisteredEvent(log[n]), Trusted'
    PROVE  StoreGood'
<1> DEFINE seat == log[n].seat
           account == [index |-> seat, known |-> TRUE, balance |-> 0]
<1>1. /\ handled' = Append(handled, n) /\ log' = log /\ stage' = stage /\ saved' = saved
      /\ held' = held /\ work' = work
    BY DEF Handle, chainVars, aggVars, HandleRegisteredEvent
<1>2. ~UsesStore
    BY TrustHandled
<1>3. data = Expected /\ hData = Expected
    BY <1>2 DEF UsesStore, StoreGood, DataInv
<1>4. seat \in Slots /\ data' = Written(data, account) /\ hData' = Written(hData, account)
    BY DEF HandleRegisteredEvent, Trusted
<1>5. n \in 1..Len(log) /\ n \notin Handled
    BY DEF Fresh, Handled
<1>6. ~Registered(seat)
    BY <1>5, HandledFinite DEF ChainInv, Registered
<1>7. \A s : /\ Registered(s)' <=> Registered(s) \/ seat = s
             /\ Earned(s)' = Earned(s) + 0 /\ Earned(s) \in Nat
    BY <1>1, EventsMore DEF EventPays
<1>8. \A s : Due(s)' = Due(s)
    BY <1>1 DEF Due
<1>9. Earned(seat) = 0 /\ Due(seat) = 0
    BY <1>4, <1>6, NothingDue DEF StoreGood, HandlersInv
<1>10. Written(Expected, account) =
            [s \in Slots |-> IF s = seat THEN account ELSE Expected[s]]
    <2>1. DOMAIN Expected = Slots
        BY DEF Expected
    <2>2. account.index = seat
        OBVIOUS
    <2> HIDE DEF account, seat
    <2>3. Written(Expected, account) = [Expected EXCEPT ![seat] = account]
        BY <2>2 DEF Written
    <2> QED BY <1>4, <2>1, <2>3
<1>11. Written(Expected, account) = Expected'
    <2>1. ASSUME NEW s \in Slots
          PROVE  Account(s)' = IF s = seat THEN account ELSE Account(s)
        <3>1. /\ Earned(s)' = Earned(s) /\ Due(s)' = Due(s)
              /\ Registered(s)' <=> Registered(s) \/ seat = s
            BY <1>7, <1>8
        <3>2. CASE s = seat
            <4>1. Earned(s)' = 0 /\ Due(s)' = 0 /\ Registered(s)'
                BY <1>9, <3>1, <3>2
            <4>2. Account(s)' = [index |-> s, known |-> TRUE, balance |-> 0 - 0]
                BY <4>1 DEF Account
            <4> QED BY <3>2, <4>2
        <3>3. CASE s # seat
            <4> HIDE DEF seat, account
            <4> QED BY <3>1, <3>3 DEF Account
        <3> QED BY <3>2, <3>3
    <2> HIDE DEF seat, account
    <2> QED BY <1>10, <2>1 DEF Expected
<1>12. DataInv'
    BY <1>1, <1>2, <1>3, <1>4, <1>11 DEF DataInv, UsesStore
<1>13. HandlersInv'
    <2>1. ASSUME NEW h \in Handlers, NEW k \in DOMAIN work[h], work[h][k].seat \in Slots
          PROVE  Registered(work[h][k].seat)'
        <3>1. PICK s : s = work[h][k].seat
            OBVIOUS
        <3>2. Registered(s)
            BY <2>1, <3>1 DEF StoreGood, HandlersInv
        <3>3. Registered(s)'
            BY <1>7, <3>2
        <3> QED BY <1>1, <3>1, <3>3 DEF Registered
    <2>2. ASSUME NEW h \in Handlers, held[h] # <<>>
          PROVE  Head(work[h]).seat \in Slots /\ held[h] = <<data'[Head(work[h]).seat]>>
        <3>1. Head(work[h]).seat \in Slots /\ held[h] = <<data[Head(work[h]).seat]>>
            BY <2>2 DEF StoreGood, HandlersInv
        <3>2. work[h] \in Seq(Credit) /\ work[h] # <<>>
            BY <2>2 DEF WorkInv, Routines
        <3>3. 1 \in DOMAIN work[h] /\ work[h][1] = Head(work[h])
            BY <3>2
        <3>4. Registered(Head(work[h]).seat)
            BY <3>1, <3>3 DEF StoreGood, HandlersInv
        <3>5. Head(work[h]).seat # seat
            BY <1>6, <3>4
        <3>6. data'[Head(work[h]).seat] = data[Head(work[h]).seat]
            <4> HIDE DEF account, seat
            <4> QED BY <1>3, <1>4, <1>10, <3>1, <3>5
        <3> QED BY <3>1, <3>6
    <2>3. ASSUME NEW s \in Slots, ~Registered(s)' PROVE Earned(s)' = 0
        BY <1>7, <2>3 DEF StoreGood, HandlersInv
    <2>4. ~UsesStore'
        BY <1>1, <1>2 DEF UsesStore
    <2> QED BY <1>1, <2>1, <2>2, <2>3, <2>4 DEF HandlersInv
<1> QED BY <1>12, <1>13 DEF StoreGood

\* An answer is earned at once, and its credits are due.
LEMMA HandlesAnswer ==
    ASSUME IInv, ChainInv, WorkInv, StoreGood, NEW g \in Handlers, NEW n, Fresh(n), up,
           Handle(g, n), log[n].name = "BlockSubmitted", HandleBlockSubmittedEvent(g, log[n]),
           Idle(g), g = "Update" => phase = "replay",
           g \in Watchers => phase = "done" /\ log[n].name = g, Trusted'
    PROVE  StoreGood'
<1> DEFINE credits == Credits(log[n])
<1>1. /\ handled' = Append(handled, n) /\ log' = log /\ stage' = stage /\ saved' = saved
      /\ held' = held /\ work' = [work EXCEPT ![g] = credits]
      /\ data' = data /\ hData' = hData
    BY DEF Handle, chainVars, aggVars, storeVars, HandleBlockSubmittedEvent
<1>2. ~UsesStore
    BY TrustHandled
<1>3. data = Expected /\ hData = Expected
    BY <1>2 DEF UsesStore, StoreGood, DataInv
<1>4. IsAnswer(log[n])
    BY DEF ChainInv, Fresh, Watchers
<1>5. credits \in Seq(Credit) /\ \A s \in Nat : Owed(credits, s) = AnswerPays(log[n], s)
    <2>1. credits \in Seq(Credit)
        BY <1>4, CreditsOwed
    <2> QED BY <1>4, <2>1, CreditsOwed
<1>6. \A k \in DOMAIN credits : credits[k].seat \in Slots => Registered(credits[k].seat)
    <2>1. orderly' = (orderly /\ \A k \in DOMAIN credits :
                        LET seat == credits[k].seat IN seat \in Slots => data[seat].known)
        BY DEF HandleBlockSubmittedEvent
    <2>2. orderly'
        BY DEF Trusted
    <2>3. \A k \in DOMAIN credits : credits[k].seat \in Slots => data[credits[k].seat].known
        BY <2>1, <2>2
    <2> HIDE DEF credits
    <2> QED BY <1>3, <2>3, KnownRegistered
<1> HIDE DEF credits
<1>7. g \in Routines /\ Handlers \subseteq Routines
    BY DEF Routines
<1>8. work'[g] = credits /\ work[g] = <<>> /\ \A h \in Handlers \ {g} : work'[h] = work[h]
    BY <1>1, <1>7 DEF WorkInv, Idle
<1>9. \A s : /\ Registered(s)' <=> Registered(s)
             /\ Earned(s)' = Earned(s) + AnswerPays(log[n], s) /\ Earned(s) \in Nat
    BY <1>1, EventsMore DEF EventPays
<1>10. ASSUME NEW s PROVE Due(s) = 0 /\ Due(s)' = Owed(credits, s)
    <2>1. Owed(<<>>, s) = 0
        BY OwedEmpty
    <2>2. Owed(credits, s) \in Nat
        BY <1>5, SumsExist, OwedSums
    <2>3. {"Update", "BlockSubmitted"} \subseteq Handlers
        BY DEF Handlers, Watchers
    <2>4. CASE g = "Update"
        <3>1. work["BlockSubmitted"] = <<>>
            BY <2>4 DEF WorkInv
        <3>2. work'["BlockSubmitted"] = <<>>
            BY <1>8, <2>3, <2>4, <3>1
        <3> QED BY <1>8, <2>1, <2>2, <2>4, <3>1, <3>2 DEF Due
    <2>5. CASE g \in Watchers
        <3>1. g = "BlockSubmitted" /\ work["Update"] = <<>>
            BY <2>5 DEF WorkInv
        <3>2. work'["Update"] = <<>>
            BY <1>8, <2>3, <3>1
        <3> QED BY <1>8, <2>1, <2>2, <3>1, <3>2 DEF Due
    <2> QED BY <2>4, <2>5 DEF Handlers
<1>11. Expected' = Expected
    <2>1. ASSUME NEW s \in Slots PROVE Account(s)' = Account(s)
        <3>1. s \in Nat
            BY SeatAssumption DEF Slots
        <3>2. Owed(credits, s) = AnswerPays(log[n], s) /\ Owed(credits, s) \in Nat
            BY <1>5, <3>1, SumsExist, OwedSums
        <3>3. Earned(s)' - Due(s)' = Earned(s) - Due(s)
            BY <1>9, <1>10, <3>2
        <3> QED BY <1>9, <3>3 DEF Account
    <2> QED BY <2>1 DEF Expected
<1>12. DataInv'
    BY <1>1, <1>2, <1>3, <1>11 DEF DataInv, UsesStore
<1>13. HandlersInv'
    <2>1. ASSUME NEW h \in Handlers, NEW k \in DOMAIN work'[h], work'[h][k].seat \in Slots
          PROVE  Registered(work[h][k].seat)'
        <3>1. PICK s : s = work'[h][k].seat
            OBVIOUS
        <3>2. Registered(s)
            <4>1. CASE h = g
                BY <1>6, <1>8, <2>1, <3>1, <4>1
            <4>2. CASE h # g
                <5>1. work'[h] = work[h]
                    BY <1>8, <4>2
                <5> QED BY <2>1, <3>1, <5>1 DEF StoreGood, HandlersInv
            <4> QED BY <4>1, <4>2
        <3>3. Registered(s)'
            BY <1>9, <3>2
        <3> QED BY <3>1, <3>3 DEF Registered
    <2>2. ASSUME NEW h \in Handlers, held[h] # <<>>
          PROVE  Head(work'[h]).seat \in Slots /\ held[h] = <<data[Head(work'[h]).seat]>>
        <3>1. h # g
            BY <1>7, <1>8, <2>2 DEF WorkInv
        <3>2. work'[h] = work[h]
            BY <1>8, <3>1
        <3> QED BY <2>2, <3>2 DEF StoreGood, HandlersInv
    <2>3. ASSUME NEW s \in Slots, ~Registered(s)' PROVE Earned(s)' = 0
        <3>1. ~Registered(s)
            BY <1>9, <2>3
        <3>2. s \in Nat
            BY SeatAssumption DEF Slots
        <3>3. \A k \in 1..Len(credits) : credits[k].seat # s
            BY <1>5, <1>6, <3>1
        <3>4. AnswerPays(log[n], s) = 0
            BY <1>5, <3>2, <3>3, OwedNone
        <3>5. Earned(s) = 0
            BY <3>1 DEF StoreGood, HandlersInv
        <3> QED BY <1>9, <3>4, <3>5
    <2>4. ~UsesStore'
        BY <1>1, <1>2 DEF UsesStore
    <2> QED BY <1>1, <2>1, <2>2, <2>3, <2>4 DEF HandlersInv
<1> QED BY <1>12, <1>13 DEF StoreGood

\* A node that has handled nothing expects an empty store.
Begun ==
    /\ handled = <<>> /\ stage = "idle"
    /\ work = [g \in Routines |-> <<>>] /\ held = [g \in Routines |-> <<>>]
    /\ data = [s \in Slots |-> Zero] /\ hData = [s \in Slots |-> Zero]

LEMMA NothingHandled == Begun => StoreGood
<1> SUFFICES ASSUME Begun PROVE StoreGood
    OBVIOUS
<1>1. Handled = {}
    BY DEF Begun, Handled
<1>2. \A s : ~Registered(s)
    BY <1>1 DEF Registered
<1>3. ASSUME NEW s PROVE Earned(s) = 0
    <2>1. Earned(s) = Paid(Handled, log, s)
        BY EarnedPaid
    <2>2. SubmittedIn({}, log, s) = {} /\ VotedIn({}, log, s) = {}
        BY DEF SubmittedIn, VotedIn
    <2>3. Cardinality({}) = 0
        BY FS_EmptySet
    <2>4. Paid({}, log, s) = AggregatorReward * 0 + ValidatorReward * 0
        BY <2>2, <2>3 DEF Paid
    <2>5. AggregatorReward * 0 + ValidatorReward * 0 = 0
        BY RewardAssumption
    <2> QED BY <1>1, <2>1, <2>4, <2>5
<1>4. \A g \in Handlers : work[g] = <<>> /\ held[g] = <<>>
    BY DEF Begun, Routines
<1>5. HandlersInv
    BY <1>3, <1>4 DEF Begun, HandlersInv, UsesStore
<1>6. Expected = [s \in Slots |-> Zero]
    BY <1>2 DEF Expected, Account
<1> QED BY <1>5, <1>6 DEF Begun, StoreGood, DataInv

LEMMA InitStore == Init => StoreInv
<1> SUFFICES ASSUME Init PROVE StoreInv
    OBVIOUS
<1>1. ChainInv
    <2>1. DOMAIN tree = 0..0 - 1 /\ 0 \in Nat /\ Len(log) = 0 /\ saved.V = {}
        BY DEF Init, NodeInit
    <2> QED BY <2>1 DEF ChainInv
<1>2. WorkInv
    <2>1. /\ work = [g \in Routines |-> <<>>] /\ held = [g \in Routines |-> <<>>]
          /\ phase = "filter" /\ stage = "idle"
        BY DEF Init, NodeInit
    <2>2. held \in [Routines -> {<<>>}] /\ work \in [Routines -> Seq(Credit)]
        BY <2>1
    <2>3. {"Registered", "Update", "BlockSubmitted", "Aggregate"} \subseteq Routines
        BY DEF Routines, Handlers, Watchers
    <2>4. \A g \in Routines : held[g] = <<>> /\ work[g] = <<>>
        BY <2>1
    <2> QED BY <2>1, <2>2, <2>3, <2>4 DEF WorkInv
<1>3. StoreGood
    BY NothingHandled DEF Init, NodeInit, Begun
<1> QED BY <1>1, <1>2, <1>3 DEF StoreInv, StoreGood

LEMMA StoreStep ==
    ASSUME IInv, ChainInv, WorkInv, Trusted => StoreGood, [Next]_vars, Trusted'
    PROVE  StoreGood'
<1>1. ASSUME UNCHANGED <<up, orderly, overlapped, stage, handled, data, hData, work, held, saved>>,
             \/ log' = log
             \/ \E e : log' = Append(log, e)
      PROVE  StoreGood'
    <2>1. Trusted
        BY <1>1, TrustUnchanged
    <2>2. LogKeeps
        BY <1>1, LogAppend DEF LogKeeps
    <2> QED BY <1>1, <2>1, <2>2, StoreAlone
<1>2. CASE Chain
    BY <1>1, <1>2 DEF Chain, Registers, OtherAnswers, OtherEvents, Answer, storeVars, aggVars,
                      runVars, pastVars
<1>3. CASE FilterLogs \/ Skip \/ UnknownEvent \/ Synchronize
    BY <1>1, <1>3 DEF FilterLogs, Skip, UnknownEvent, Synchronize, storeVars, aggVars, runVars,
                      pastVars, chainVars
<1>4. ASSUME NEW w \in Watchers, Subscribe(w) \/ SubscriptionError(w) PROVE StoreGood'
    BY <1>1, <1>4 DEF Subscribe, SubscriptionError, storeVars, aggVars, runVars, pastVars, chainVars
<1>5. ASSUME NEW g \in Handlers, NEW n, up, Fresh(n), Handle(g, n), Idle(g),
             g = "Update" => phase = "replay",
             g \in Watchers => phase = "done" /\ log[n].name = g
      PROVE  StoreGood'
    <2>1. StoreGood
        BY <1>5, TrustHandled
    <2> QED BY <1>5, <2>1, HandlesRegistration, HandlesAnswer DEF Handle
<1>6. CASE Update
    <2>1. Fresh(next["Update"])
        BY <1>6, UpdateFresh
    <2>2. /\ up /\ Handle("Update", next["Update"]) /\ Idle("Update") /\ phase = "replay"
          /\ "Update" \in Handlers /\ "Update" \notin Watchers
        BY <1>6 DEF Update, Replays, Handlers, Watchers
    <2> QED BY <1>5, <2>1, <2>2
<1>7. ASSUME NEW w \in Watchers, WatchEvent(w) PROVE StoreGood'
    <2>1. phase = "done"
        BY <1>7, WatchFresh
    <2>2. PICK n \in Matching(w) : Handle(w, n) /\ Fresh(n) /\ log[n].name = w
        BY <1>7, WatchFresh
    <2>3. up /\ w \in Handlers /\ w # "Update" /\ Idle(w)
        BY <1>7 DEF Handlers, Watchers, WatchEvent
    <2> QED BY <1>5, <2>1, <2>2, <2>3
<1>8. ASSUME NEW g \in Routines, Access(g) PROVE StoreGood'
    <2>1. /\ up /\ orderly' = orderly /\ stage' = stage
          /\ overlapped' = (overlapped \/ (g # "Aggregate" /\ UsesStore))
        BY <1>8 DEF Access, ReadAccount, WriteAccount, pastVars, aggVars
    <2>2. Trusted
        <3>1. ~overlapped' /\ orderly' /\ stage' # "failed"
            BY DEF Trusted
        <3>2. ~overlapped
            BY <2>1, <3>1, Zenon
        <3>3. orderly
            BY <2>1, <3>1
        <3> QED BY <2>1, <3>1, <3>2, <3>3, Zenon DEF Trusted
    <2>3. CASE g = "Aggregate"
        BY <1>8, <2>2, <2>3, AggregatorAccess
    <2>4. CASE g \in Handlers
        BY <1>8, <2>2, <2>4, HandlerReads, HandlerWrites DEF Access
    <2> QED BY <2>3, <2>4 DEF Routines
<1>9. CASE Aggregating
    <2>1. up /\ orderly' = orderly
        BY <1>9 DEF Aggregating, Aggregate, CopyData, CopyHData, MerkleProof, Prove, SetData,
                    SetHData, Submit, Reverted, Refused, pastVars
    <2>2. ~overlapped /\ stage # "failed"
        <3>1. ~overlapped'
            BY DEF Trusted
        <3>2. CASE Aggregate
            <4>1. overlapped' = (overlapped \/ \E h \in Handlers : ~Idle(h)) /\ stage = "idle"
                BY <3>2 DEF Aggregate
            <4> QED BY <3>1, <4>1
        <3>3. CASE ~Aggregate
            <4>1. overlapped' = overlapped /\ stage # "failed"
                BY <1>9, <3>3 DEF Aggregating, CopyData, CopyHData, MerkleProof, Prove, SetData,
                                  SetHData, Submit, Reverted, Refused
            <4> QED BY <3>1, <4>1
        <3> QED BY <3>2, <3>3
    <2>3. orderly
        <3>1. orderly'
            BY DEF Trusted
        <3> QED BY <2>1, <3>1
    <2>4. StoreGood
        BY <2>1, <2>2, <2>3 DEF Trusted
    <2> QED BY <1>9, <2>4, AggregateStep
<1>10. CASE Restart
    <2>1. Begun'
        BY <1>10 DEF Restart, Begun
    <2> QED BY <2>1, NothingHandled, PTL
<1>11. CASE UNCHANGED vars
    BY <1>1, <1>11 DEF vars, storeVars, aggVars, runVars, pastVars, chainVars
<1> QED BY <1>2, <1>3, <1>4, <1>6, <1>7, <1>8, <1>9, <1>10, <1>11 DEF Next, Synchronizing

LEMMA NextStore ==
    ASSUME IInv, StoreInv, [Next]_vars
    PROVE  StoreInv'
<1>1. ChainInv /\ WorkInv /\ (Trusted => StoreGood)
    BY DEF StoreInv, StoreGood
<1>2. ChainInv' /\ WorkInv'
    BY <1>1, ChainStep, WorkStep
<1>3. Trusted' => StoreGood'
    BY <1>1, StoreStep
<1> QED BY <1>2, <1>3 DEF StoreInv, StoreGood

\* With nothing due the expected accounts are what the handled events make.
LEMMA QuietFollows ==
    ASSUME IInv, StoreInv
    PROVE  StoreFollows
<1> SUFFICES ASSUME up, Quiet, orderly, ~overlapped
             PROVE  Follows
    BY DEF StoreFollows
<1>1. StoreGood /\ ~UsesStore
    BY DEF StoreInv, StoreGood, Trusted, Quiet
<1>2. data = Expected /\ hData = Expected
    BY <1>1 DEF StoreGood, DataInv, UsesStore
<1>3. work["Update"] = <<>> /\ work["BlockSubmitted"] = <<>>
    BY DEF Quiet, Idle, Routines, Handlers, Watchers
<1>4. ASSUME NEW s PROVE Earned(s) - Due(s) = Earned(s)
    <2>1. Due(s) = 0
        BY <1>3, OwedEmpty DEF Due
    <2>2. Earned(s) \in Nat
        BY HandledFinite, EarnedPaid, PaidType
    <2> QED BY <2>1, <2>2
<1>5. ASSUME NEW s \in Slots
      PROVE  data[s] = IF Registered(s)
                       THEN [index |-> s, known |-> TRUE, balance |-> Earned(s)] ELSE Zero
    <2>1. data[s] = Account(s)
        BY <1>2 DEF Expected
    <2> QED BY <1>4, <2>1 DEF Account
<1> QED BY <1>2, <1>5 DEF Follows

\* The inductive invariant: also while credits are due and while the aggregator
\* uses the store, the accounts are the expected ones, or the aggregator keeps
\* a copy of those that it will put back.
THEOREM StoreInvariant == Spec => [](IInv /\ StoreInv)
<1>1. Init => IInv /\ StoreInv
    BY InitInv, InitStore
<1>2. IInv /\ StoreInv /\ [Next]_vars => (IInv /\ StoreInv)'
    <2> SUFFICES ASSUME IInv, StoreInv, [Next]_vars PROVE IInv' /\ StoreInv'
        OBVIOUS
    <2> QED BY NextInv, NextStore
<1> QED BY <1>1, <1>2, PTL DEF Spec

\* Safety of the store: for every number of seats, votes, events, restarts and
\* failing subscriptions and all rewards, when no goroutine is in the middle of
\* a change, the accounts and their hashes are what the handled events make of
\* them, however the handlers, the aggregator and the chain took turns, as long
\* as no handler ran while the aggregator used the store and every answer found
\* its seats registered.
THEOREM StoreFollowsEvents == Spec => []StoreFollows
<1>1. IInv /\ StoreInv => StoreFollows
    BY QuietFollows
<1> QED BY <1>1, StoreInvariant, PTL
============================================================================
