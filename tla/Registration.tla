---------------------------- MODULE Registration ----------------------------
(***************************************************************************)
(* The start of a node (main.go, config.go, node.go): it reads its file,    *)
(* and unless the file says that it is registered it sends a registration   *)
(* while a goroutine waits for a Registered event (WaitEvent, event.go),    *)
(* writes the index of that event to the file, and serves.  What serves     *)
(* keeps the configuration that was read at the start.  Nothing orders the  *)
(* subscription before the transaction, and the process may end anywhere.   *)
(***************************************************************************)
EXTENDS Integers, Sequences, FiniteSets

CONSTANTS
    Nodes,
    Capacity,       \* leaves of the contract's tree
    MaxStarts       \* bound: starts of a node that is not registered

ASSUME NodesAssumption == IsFiniteSet(Nodes) /\ Capacity \in Nat \ {0}
ASSUME StartsAssumption == MaxStarts \in Nat

VARIABLES
    seats,      \* seat index + 1 -> the node that registered it
    pending,    \* registrations sent and not mined
    starts,     \* starts of the node with a file that is not registered
    stage,      \* of the process: off, created, register, waiting or serving
    wait,       \* the goroutine: none, starting, subscribed, received or failed
    heard,      \* index of the event it received
    file,       \* the configuration file
    config,     \* what the process read from it
    serial      \* history: no node was started while another one registered

process == <<stage, wait, heard>>
vars == <<seats, pending, starts, process, file, config, serial>>

Config == [registered : BOOLEAN, index : 0..Capacity - 1]
Example == [registered |-> FALSE, index |-> 0]

Init ==
    /\ seats = <<>>
    /\ pending = [n \in Nodes |-> 0] /\ starts = pending
    /\ stage = [n \in Nodes |-> "off"]
    /\ wait = [n \in Nodes |-> "none"]
    /\ heard = [n \in Nodes |-> 0]
    /\ file = [n \in Nodes |-> Example] /\ config = file
    /\ serial = TRUE

\* An error that is returned to main ends the process, and the goroutine with it.
Exit(n) ==
    /\ stage' = [stage EXCEPT ![n] = "off"]
    /\ wait' = [wait EXCEPT ![n] = "none"]

\* No registration is on its way.
Settled == \A m \in Nodes : pending[m] = 0 /\ stage[m] \in {"off", "serving"}

\* main and NewNode: the file is read.
NewNode(n) ==
    /\ stage[n] = "off"
    /\ ~file[n].registered => starts[n] < MaxStarts
    /\ serial' = (serial /\ Settled)
    /\ config' = [config EXCEPT ![n] = file[n]]
    /\ starts' = [starts EXCEPT ![n] = IF file[n].registered THEN @ ELSE @ + 1]
    /\ stage' = [stage EXCEPT ![n] = "created"]
    /\ UNCHANGED <<seats, pending, wait, heard, file>>

\* Mutated form of MustRegister: every run registers.
MustRegisterAlways(n) == TRUE

MustRegister(n) == ~config[n].registered

\* Run up to the call of Register, which starts the goroutine.
Run(n) ==
    /\ stage[n] = "created"
    /\ IF MustRegister(n)
       THEN stage' = [stage EXCEPT ![n] = "register"] /\ wait' = [wait EXCEPT ![n] = "starting"]
       ELSE stage' = [stage EXCEPT ![n] = "serving"] /\ UNCHANGED wait
    /\ UNCHANGED <<seats, pending, starts, serial, heard, file, config>>

\* The transaction is accepted or refused by the Ethereum node; in a full tree
\* the estimate of its gas fails.
SendRegister(n) ==
    /\ stage[n] = "register"
    /\ \/ /\ Len(seats) < Capacity
          /\ pending' = [pending EXCEPT ![n] = @ + 1]
          /\ stage' = [stage EXCEPT ![n] = "waiting"]
          /\ UNCHANGED wait
       \/ Exit(n) /\ UNCHANGED pending
    /\ UNCHANGED <<seats, starts, serial, heard, file, config>>

\* Mutated form of Backlog: the subscription starts with the first event.
BacklogFirst == Len(seats) > 0

\* Whether an event is there when the subscription starts: it is not, only
\* later events are delivered.
Backlog == FALSE

Subscribe(n) ==
    /\ wait[n] = "starting"
    /\ wait' = [wait EXCEPT ![n] = IF Backlog THEN "received" ELSE "subscribed"]
    /\ heard' = [heard EXCEPT ![n] = 0]
    /\ UNCHANGED <<seats, pending, starts, serial, stage, file, config>>

\* WaitEvent returns an error before or after the subscription.
WaitFails(n) ==
    /\ wait[n] \in {"starting", "subscribed"}
    /\ wait' = [wait EXCEPT ![n] = "failed"]
    /\ UNCHANGED <<seats, pending, starts, serial, stage, heard, file, config>>

\* Mutated form of Listeners: a node does not hear its own registration.
ListenersOthers(n) == {m \in Nodes : wait[m] = "subscribed" /\ m # n}

\* Whoever is subscribed hears the registration of n, whose-ever it is.
Listeners(n) == {m \in Nodes : wait[m] = "subscribed"}

\* Mutated form of NewIndex: seats are counted from one.
NewIndexFromOne == Len(seats) + 1

\* getNextLeafIndex: the index that register gives, and its event carries.
NewIndex == Len(seats)

\* The registration is mined; in a tree that is full by then it reverts.
Mine(n) ==
    /\ pending[n] > 0
    /\ pending' = [pending EXCEPT ![n] = @ - 1]
    /\ IF Len(seats) < Capacity
       THEN /\ seats' = Append(seats, n)
            /\ wait' = [m \in Nodes |-> IF m \in Listeners(n) THEN "received" ELSE wait[m]]
            /\ heard' = [m \in Nodes |-> IF m \in Listeners(n) THEN NewIndex ELSE heard[m]]
       ELSE UNCHANGED <<seats, wait, heard>>
    /\ UNCHANGED <<starts, serial, stage, file, config>>

\* The channel of Register hands over an event, or nil if the goroutine failed,
\* which the next line dereferences.  Writing the file may fail.
WriteConfig(n) ==
    /\ stage[n] = "waiting"
    /\ \/ /\ wait[n] = "received"
          /\ file' = [file EXCEPT ![n] = [registered |-> TRUE, index |-> heard[n]]]
          /\ stage' = [stage EXCEPT ![n] = "serving"]
          /\ wait' = [wait EXCEPT ![n] = "none"]
       \/ wait[n] \in {"received", "failed"} /\ Exit(n) /\ UNCHANGED file
    /\ UNCHANGED <<seats, pending, starts, serial, heard, config>>

\* An interrupt, or the end of the server.
Stop(n) ==
    /\ stage[n] # "off"
    /\ Exit(n)
    /\ UNCHANGED <<seats, pending, starts, serial, heard, file, config>>

Goroutines(n) == Run(n) \/ SendRegister(n) \/ WriteConfig(n)

Next == \E n \in Nodes :
    \/ NewNode(n) \/ Goroutines(n) \/ Stop(n)
    \/ Subscribe(n) \/ WaitFails(n) \/ Mine(n)

\* A process that is started runs, and a transaction that is sent is mined;
\* nobody need start, stop or restart a node.
Spec ==
    /\ Init /\ [][Next]_vars
    /\ \A n \in Nodes : WF_vars(Goroutines(n)) /\ WF_vars(Subscribe(n)) /\ WF_vars(Mine(n))
----------------------------------------------------------------------------
(* Properties. *)

TypeOK ==
    /\ seats \in Seq(Nodes) /\ Len(seats) <= Capacity
    /\ pending \in [Nodes -> Nat] /\ starts \in [Nodes -> 0..MaxStarts]
    /\ stage \in [Nodes -> {"off", "created", "register", "waiting", "serving"}]
    /\ wait \in [Nodes -> {"none", "starting", "subscribed", "received", "failed"}]
    /\ heard \in [Nodes -> 0..Capacity - 1]
    /\ file \in [Nodes -> Config] /\ config \in [Nodes -> Config]
    /\ serial \in BOOLEAN

\* A node never has more seats, registrations on their way included, than it
\* had starts without a registered file: stops at any point cost at most one
\* seat each, and a registered node never registers again.
SeatsPerStart ==
    \A n \in Nodes :
        Cardinality({i \in DOMAIN seats : seats[i] = n}) + pending[n] <= starts[n]

\* The seat of a registered file is settled: whatever is mined or heard later,
\* the file stays, and who was started with it serves its seat.
FileFinal ==
    [][\A n \in Nodes :
        /\ file[n].registered => file'[n] = file[n]
        /\ (stage'[n] = "serving" /\ config'[n].registered) => config'[n] = file'[n]]_vars

\* When nodes are started one at a time, and none while a registration is on its
\* way, the seat in a node's file is its own, although WaitEvent takes the first
\* event of anybody.
OwnSeat ==
    serial => \A n \in Nodes :
        file[n].registered => /\ file[n].index < Len(seats)
                              /\ seats[file[n].index + 1] = n

\* A node that has subscribed by the time its registration is mined comes to
\* serve, unless its process ends.
Returns ==
    \A n \in Nodes :
        (wait[n] = "subscribed" /\ pending[n] > 0 /\ Len(seats) < Capacity)
            ~> stage[n] \in {"serving", "off"}
============================================================================
