------------------------- MODULE RegistrationProofs -------------------------
(***************************************************************************)
(* What a start of a node can cost and what its file names, for every       *)
(* number of nodes, seats and starts.  RunInv holds however nodes start and *)
(* stop.  SerialInv is what holds as long as nobody is started while another *)
(* node registers: the only registration that can be on its way is that of  *)
(* the node that waits for it.                                              *)
(***************************************************************************)
EXTENDS Registration, FiniteSetTheorems, TLAPS

Owned(n) == {i \in DOMAIN seats : seats[i] = n}

\* The registration that the run has still to send.
Owed(n) == IF stage[n] \in {"created", "register"} /\ ~config[n].registered THEN 1 ELSE 0

\* Until it serves, a run goes by the file as it is.
FileInv ==
    \A n \in Nodes :
        /\ stage[n] \in {"created", "register", "waiting"} => config[n] = file[n]
        /\ stage[n] \in {"register", "waiting"} => ~config[n].registered
        /\ stage[n] = "serving" /\ config[n].registered => config[n] = file[n]

CostInv == \A n \in Nodes : Cardinality(Owned(n)) + pending[n] + Owed(n) <= starts[n]

RunInv == TypeOK /\ FileInv /\ CostInv

USE NodesAssumption, StartsAssumption

\* Only a process that registers has a goroutine that waits.
WaitInv ==
    \A n \in Nodes : wait[n] # "none" => stage[n] \in {"register", "waiting"}

Active(n) == stage[n] \in {"created", "register", "waiting"} \/ pending[n] > 0

OwnIndex(n, index) == index < Len(seats) /\ seats[index + 1] = n

SerialInv ==
    serial =>
        /\ \A m, n \in Nodes : Active(m) /\ Active(n) => m = n
        /\ \A n \in Nodes : wait[n] = "received" => OwnIndex(n, heard[n])
        /\ \A n \in Nodes : file[n].registered => OwnIndex(n, file[n].index)

\* One more seat for n is one more seat of n and of nobody else.
LEMMA OwnedAppend ==
    ASSUME TypeOK, NEW n \in Nodes, seats' = Append(seats, n)
    PROVE  \A m \in Nodes :
               Cardinality(Owned(m)') = Cardinality(Owned(m)) + (IF m = n THEN 1 ELSE 0)
<1>1. seats \in Seq(Nodes) /\ Len(seats) \in Nat
    BY DEF TypeOK
<1>2. DOMAIN seats' = DOMAIN seats \cup {Len(seats) + 1} /\ Len(seats) + 1 \notin DOMAIN seats
    BY <1>1
<1>3. /\ \A i \in DOMAIN seats : seats'[i] = seats[i]
      /\ seats'[Len(seats) + 1] = n
    BY <1>1
<1>4. TAKE m \in Nodes
<1>5. IsFiniteSet(Owned(m)) /\ Cardinality(Owned(m)) \in Nat
    <2>1. IsFiniteSet(DOMAIN seats)
        BY <1>1, FS_Interval
    <2>2. Owned(m) \subseteq DOMAIN seats
        BY DEF Owned
    <2>3. IsFiniteSet(Owned(m))
        BY <2>1, <2>2, FS_Subset
    <2> QED BY <2>3, FS_CardinalityType
<1>6. CASE m = n
    <2>1. Owned(m)' = Owned(m) \cup {Len(seats) + 1} /\ Len(seats) + 1 \notin Owned(m)
        BY <1>2, <1>3, <1>6 DEF Owned
    <2>2. Cardinality(Owned(m) \cup {Len(seats) + 1}) = Cardinality(Owned(m)) + 1
        BY <1>5, <2>1, FS_AddElement
    <2> QED BY <1>6, <2>1, <2>2
<1>7. CASE m # n
    <2>1. Owned(m)' = Owned(m)
        BY <1>2, <1>3, <1>7 DEF Owned
    <2> QED BY <1>5, <1>7, <2>1
<1> QED BY <1>6, <1>7

\* Every step keeps the types.
LEMMA TypeStep == ASSUME TypeOK, [Next]_vars PROVE TypeOK'
<1> SUFFICES ASSUME NEW n \in Nodes,
                    \/ NewNode(n) \/ Run(n) \/ SendRegister(n) \/ WriteConfig(n) \/ Stop(n)
                    \/ Subscribe(n) \/ WaitFails(n) \/ Mine(n) \/ UNCHANGED vars
             PROVE  TypeOK'
    <2>1. CASE UNCHANGED vars
        BY <2>1 DEF vars, process, TypeOK
    <2>2. CASE Next
        BY <2>2 DEF Next, Goroutines
    <2> QED BY <2>1, <2>2
<1>1. CASE NewNode(n)
    BY <1>1 DEF NewNode, TypeOK, Config
<1>2. CASE Run(n)
    BY <1>2 DEF Run, TypeOK
<1>3. CASE SendRegister(n)
    <2>1. pending' \in [Nodes -> Nat]
        <3>1. pending \in [Nodes -> Nat] /\ pending[n] + 1 \in Nat
            BY DEF TypeOK
        <3>2. pending' = [pending EXCEPT ![n] = pending[n] + 1] \/ pending' = pending
            BY <1>3 DEF SendRegister
        <3> QED BY <3>1, <3>2
    <2>2. /\ stage' \in [Nodes -> {"off", "created", "register", "waiting", "serving"}]
          /\ wait' \in [Nodes -> {"none", "starting", "subscribed", "received", "failed"}]
        BY <1>3 DEF SendRegister, Exit, TypeOK
    <2> QED BY <1>3, <2>1, <2>2 DEF SendRegister, TypeOK
<1>4. CASE WriteConfig(n)
    <2>1. [registered |-> TRUE, index |-> heard[n]] \in Config
        BY DEF TypeOK, Config
    <2>2. file' \in [Nodes -> Config]
        BY <1>4, <2>1 DEF WriteConfig, TypeOK
    <2>3. /\ stage' \in [Nodes -> {"off", "created", "register", "waiting", "serving"}]
          /\ wait' \in [Nodes -> {"none", "starting", "subscribed", "received", "failed"}]
        BY <1>4 DEF WriteConfig, Exit, TypeOK
    <2> QED BY <1>4, <2>2, <2>3 DEF WriteConfig, TypeOK
<1>5. CASE Stop(n)
    BY <1>5 DEF Stop, Exit, TypeOK
<1>6. CASE Subscribe(n)
    BY <1>6 DEF Subscribe, Backlog, TypeOK
<1>7. CASE WaitFails(n)
    BY <1>7 DEF WaitFails, TypeOK
<1>8. CASE Mine(n)
    <2>1. pending[n] \in Nat /\ pending[n] > 0 /\ pending' = [pending EXCEPT ![n] = @ - 1]
        BY <1>8 DEF Mine, TypeOK
    <2>2. pending' \in [Nodes -> Nat]
        BY <2>1 DEF TypeOK
    <2>3. CASE Len(seats) < Capacity
        <3>1. Len(seats) \in 0..Capacity - 1
            BY <2>3 DEF TypeOK
        <3>2. seats' \in Seq(Nodes) /\ Len(seats') <= Capacity
            <4>1. seats \in Seq(Nodes) /\ n \in Nodes /\ Len(seats) + 1 <= Capacity
                BY <2>3, <3>1 DEF TypeOK
            <4>2. seats' = Append(seats, n)
                BY <1>8, <2>3 DEF Mine
            <4>3. Append(seats, n) \in Seq(Nodes) /\ Len(Append(seats, n)) = Len(seats) + 1
                BY <4>1
            <4> QED BY <4>1, <4>2, <4>3
        <3>3. heard' \in [Nodes -> 0..Capacity - 1]
            <4>1. heard' = [m \in Nodes |-> IF m \in Listeners(n) THEN Len(seats) ELSE heard[m]]
                BY <1>8, <2>3 DEF Mine, NewIndex
            <4>2. \A m \in Nodes : heard[m] \in 0..Capacity - 1
                BY DEF TypeOK
            <4>3. \A m \in Nodes :
                      (IF m \in Listeners(n) THEN Len(seats) ELSE heard[m]) \in 0..Capacity - 1
                BY <3>1, <4>2
            <4> QED BY <4>1, <4>3
        <3>4. wait' \in [Nodes -> {"none", "starting", "subscribed", "received", "failed"}]
            BY <1>8, <2>3 DEF Mine, TypeOK
        <3> QED BY <1>8, <2>2, <3>2, <3>3, <3>4 DEF Mine, TypeOK
    <2>4. CASE ~(Len(seats) < Capacity)
        <3>1. UNCHANGED <<seats, wait, heard, starts, stage, file, config, serial>>
            BY <1>8, <2>4 DEF Mine
        <3> QED BY <2>2, <3>1 DEF TypeOK
    <2> QED BY <2>3, <2>4
<1>9. CASE UNCHANGED vars
    BY <1>9 DEF vars, process, TypeOK
<1> QED BY <1>1, <1>2, <1>3, <1>4, <1>5, <1>6, <1>7, <1>8, <1>9

\* The cases of a step, one for each operation.
LEMMA StepCases ==
    ASSUME [Next]_vars
    PROVE  \/ UNCHANGED vars
           \/ \E n \in Nodes :
                  \/ NewNode(n) \/ Run(n) \/ SendRegister(n) \/ WriteConfig(n) \/ Stop(n)
                  \/ Subscribe(n) \/ WaitFails(n) \/ Mine(n)
BY DEF Next, Goroutines

\* A run goes by its file after every step.
LEMMA FileStep == ASSUME TypeOK, FileInv, [Next]_vars PROVE FileInv'
<1>1. CASE UNCHANGED vars
    BY <1>1 DEF vars, process, FileInv
<1>2. ASSUME NEW n \in Nodes, NewNode(n) PROVE FileInv'
    BY <1>2 DEF NewNode, TypeOK, FileInv
<1>3. ASSUME NEW n \in Nodes, Run(n) PROVE FileInv'
    BY <1>3 DEF Run, MustRegister, TypeOK, FileInv
<1>4. ASSUME NEW n \in Nodes, SendRegister(n) PROVE FileInv'
    BY <1>4 DEF SendRegister, Exit, TypeOK, FileInv
<1>5. ASSUME NEW n \in Nodes, WriteConfig(n) PROVE FileInv'
    BY <1>5 DEF WriteConfig, Exit, TypeOK, FileInv
<1>6. ASSUME NEW n \in Nodes, Stop(n) PROVE FileInv'
    BY <1>6 DEF Stop, Exit, TypeOK, FileInv
<1>7. ASSUME NEW n \in Nodes, Subscribe(n) \/ WaitFails(n) \/ Mine(n) PROVE FileInv'
    BY <1>7 DEF Subscribe, WaitFails, Mine, FileInv
<1> QED BY <1>1, <1>2, <1>3, <1>4, <1>5, <1>6, <1>7, StepCases

\* No step takes a seat that a start has not paid for.
LEMMA CostStep == ASSUME TypeOK, FileInv, CostInv, [Next]_vars PROVE CostInv'
<1> DEFINE Seats(m) == Cardinality(Owned(m))
<1>1. \A m \in Nodes : /\ Seats(m) \in Nat /\ pending[m] \in Nat
                       /\ starts[m] \in Nat /\ Owed(m) \in {0, 1}
    <2>1. TAKE m \in Nodes
    <2>2. IsFiniteSet(DOMAIN seats)
        <3>1. DOMAIN seats = 1..Len(seats) /\ Len(seats) \in Nat
            BY DEF TypeOK
        <3> QED BY <3>1, FS_Interval
    <2>3. Owned(m) \subseteq DOMAIN seats
        BY DEF Owned
    <2>4. Seats(m) \in Nat
        BY <2>2, <2>3, FS_Subset, FS_CardinalityType
    <2> QED BY <2>4 DEF TypeOK, Owed
<1>2. \A m \in Nodes : Seats(m) + pending[m] + Owed(m) <= starts[m]
    BY DEF CostInv
<1>3. SUFFICES ASSUME NEW m \in Nodes
               PROVE  Seats(m)' + pending'[m] + Owed(m)' <= starts'[m]
    BY DEF CostInv
<1>4. seats' = seats => Seats(m)' = Seats(m)
    BY DEF Owned
<1>5. CASE UNCHANGED vars
    BY <1>2, <1>4, <1>5 DEF vars, process, Owed
<1>6. ASSUME NEW n \in Nodes, NewNode(n)
      PROVE  Seats(m)' + pending'[m] + Owed(m)' <= starts'[m]
    <2>1. seats' = seats /\ pending' = pending
        BY <1>6 DEF NewNode
    <2>2. starts'[m] + Owed(m) >= starts[m] + Owed(m)'
        BY <1>1, <1>6 DEF NewNode, TypeOK, Owed
    <2>3. Seats(m)' = Seats(m) /\ starts'[m] \in Nat /\ Owed(m)' \in {0, 1}
        <3>1. starts'[m] \in Nat
            BY <1>1, <1>6 DEF NewNode, TypeOK
        <3> QED BY <1>4, <2>1, <3>1 DEF Owed
    <2> HIDE DEF Seats
    <2> QED BY <1>1, <1>2, <2>1, <2>2, <2>3
<1>7. ASSUME NEW n \in Nodes, Run(n)
      PROVE  Seats(m)' + pending'[m] + Owed(m)' <= starts'[m]
    <2>1. UNCHANGED <<seats, pending, starts>>
        BY <1>7 DEF Run
    <2>2. Owed(m)' = Owed(m)
        BY <1>7 DEF Run, MustRegister, TypeOK, Owed
    <2> QED BY <1>2, <1>4, <2>1, <2>2
<1>8. ASSUME NEW n \in Nodes, SendRegister(n)
      PROVE  Seats(m)' + pending'[m] + Owed(m)' <= starts'[m]
    <2>1. UNCHANGED <<seats, starts>>
        BY <1>8 DEF SendRegister
    <2>2. pending'[m] + Owed(m)' <= pending[m] + Owed(m)
        <3>1. CASE m = n
            <4>1. Owed(m) = 1
                BY <1>8, <3>1 DEF SendRegister, FileInv, Owed
            <4>2. Owed(m)' = 0
                BY <1>8, <3>1 DEF SendRegister, Exit, TypeOK, Owed
            <4>3. pending'[m] \in {pending[m], pending[m] + 1}
                BY <1>8, <3>1 DEF SendRegister, TypeOK
            <4> QED BY <1>1, <4>1, <4>2, <4>3
        <3>2. CASE m # n
            <4>1. pending'[m] = pending[m] /\ Owed(m)' = Owed(m)
                BY <1>8, <3>2 DEF SendRegister, Exit, TypeOK, Owed
            <4> QED BY <1>1, <4>1
        <3> QED BY <3>1, <3>2
    <2>3. pending'[m] \in Nat /\ Owed(m)' \in {0, 1} /\ Seats(m)' = Seats(m)
        <3>1. pending'[m] \in Nat
            BY TypeStep DEF TypeOK
        <3> QED BY <1>4, <2>1, <3>1 DEF Owed
    <2> HIDE DEF Seats
    <2> QED BY <1>1, <1>2, <2>1, <2>2, <2>3
<1>9. ASSUME NEW n \in Nodes, WriteConfig(n) \/ Stop(n) \/ Subscribe(n) \/ WaitFails(n)
      PROVE  Seats(m)' + pending'[m] + Owed(m)' <= starts'[m]
    <2>1. UNCHANGED <<seats, pending, starts>>
        BY <1>9 DEF WriteConfig, Stop, Subscribe, WaitFails
    <2>2. Owed(m)' \in {0, Owed(m)}
        BY <1>9 DEF WriteConfig, Stop, Subscribe, WaitFails, Exit, TypeOK, Owed
    <2>3. Seats(m)' = Seats(m)
        BY <1>4, <2>1
    <2> HIDE DEF Seats
    <2> QED BY <1>1, <1>2, <2>1, <2>2, <2>3
<1>10. ASSUME NEW n \in Nodes, Mine(n)
       PROVE  Seats(m)' + pending'[m] + Owed(m)' <= starts'[m]
    <2>1. UNCHANGED starts /\ Owed(m)' = Owed(m)
        BY <1>10 DEF Mine, Owed
    <2>2. pending'[m] = pending[m] - (IF m = n THEN 1 ELSE 0) /\ pending[n] > 0
        <3>1. pending \in [Nodes -> Nat]
            BY DEF TypeOK
        <3>2. pending' = [pending EXCEPT ![n] = @ - 1] /\ pending[n] > 0
            BY <1>10 DEF Mine
        <3>3. CASE m = n
            BY <3>1, <3>2, <3>3
        <3>4. CASE m # n
            <4>1. pending'[m] = pending[m] /\ pending[m] \in Nat
                BY <3>1, <3>2, <3>4
            <4> QED BY <3>2, <3>4, <4>1
        <3> QED BY <3>3, <3>4
    <2>3. Seats(m)' = Seats(m) \/ Seats(m)' = Seats(m) + (IF m = n THEN 1 ELSE 0)
        <3>1. CASE seats' = seats
            BY <1>4, <3>1
        <3>2. CASE seats' = Append(seats, n)
            BY <3>2, OwnedAppend
        <3> QED BY <1>10, <3>1, <3>2 DEF Mine
    <2> HIDE DEF Seats
    <2> QED BY <1>1, <1>2, <2>1, <2>2, <2>3
<1> HIDE DEF Seats
<1> QED BY <1>5, <1>6, <1>7, <1>8, <1>9, <1>10, StepCases

\* The initial states satisfy the invariant.
LEMMA RunStart == ASSUME Init PROVE RunInv
<1>1. TypeOK
    BY DEF Init, Example, Config, TypeOK
<1>2. FileInv
    BY DEF Init, FileInv
<1>3. CostInv
    <2>1. \A n \in Nodes : Owned(n) = {}
        BY DEF Init, Owned
    <2>2. \A n \in Nodes : pending[n] = 0 /\ starts[n] = 0 /\ Owed(n) = 0
        BY DEF Init, Owed
    <2> QED BY <2>1, <2>2, FS_EmptySet DEF CostInv
<1> QED BY <1>1, <1>2, <1>3 DEF RunInv

\* However nodes start and stop, the invariant of their runs holds.
THEOREM RunInvariant == Spec => []RunInv
<1>1. RunInv /\ [Next]_vars => RunInv'
    BY TypeStep, FileStep, CostStep DEF RunInv
<1> QED BY <1>1, RunStart, PTL DEF Spec

\* The state of every node has its types, for every number of nodes and seats.
THEOREM TypeCorrect == Spec => []TypeOK
<1>1. RunInv => TypeOK
    BY DEF RunInv
<1> QED BY <1>1, RunInvariant, PTL

\* Stops at any point cost at most a seat each.
THEOREM SeatsBounded == Spec => []SeatsPerStart
<1>1. RunInv => SeatsPerStart
    <2> SUFFICES ASSUME RunInv, NEW n \in Nodes
                 PROVE  Cardinality(Owned(n)) + pending[n] <= starts[n]
        BY DEF SeatsPerStart, Owned
    <2>1. Cardinality(Owned(n)) + pending[n] + Owed(n) <= starts[n] /\ Owed(n) \in {0, 1}
        BY DEF RunInv, CostInv, Owed
    <2>2. pending[n] \in Nat /\ starts[n] \in Nat
        BY DEF RunInv, TypeOK
    <2>3. Cardinality(Owned(n)) \in Nat
        <3>1. DOMAIN seats = 1..Len(seats) /\ Len(seats) \in Nat
            BY DEF RunInv, TypeOK
        <3>2. IsFiniteSet(DOMAIN seats)
            BY <3>1, FS_Interval
        <3>3. Owned(n) \subseteq DOMAIN seats
            BY DEF Owned
        <3> QED BY <3>2, <3>3, FS_Subset, FS_CardinalityType
    <2> QED BY <2>1, <2>2, <2>3
<1> QED BY <1>1, RunInvariant, PTL

\* What a registered file says is settled, and who serves it serves its seat.
THEOREM FilesFinal == Spec => FileFinal
<1>1. RunInv /\ RunInv' /\ [Next]_vars =>
          [\A n \in Nodes :
              /\ file[n].registered => file'[n] = file[n]
              /\ (stage'[n] = "serving" /\ config'[n].registered) => config'[n] = file'[n]]_vars
    <2> SUFFICES ASSUME RunInv, RunInv', [Next]_vars, NEW m \in Nodes
                 PROVE  /\ file[m].registered => file'[m] = file[m]
                        /\ (stage'[m] = "serving" /\ config'[m].registered)
                               => config'[m] = file'[m]
        OBVIOUS
    <2>1. (stage'[m] = "serving" /\ config'[m].registered) => config'[m] = file'[m]
        BY DEF RunInv, FileInv
    <2>2. file[m].registered => file'[m] = file[m]
        <3>1. CASE file' = file
            BY <3>1
        <3>2. ASSUME NEW n \in Nodes, WriteConfig(n)
              PROVE  file[m].registered => file'[m] = file[m]
            BY <3>2 DEF WriteConfig, RunInv, FileInv, TypeOK
        <3>3. \/ UNCHANGED file
              \/ \E n \in Nodes : WriteConfig(n)
            BY StepCases DEF vars, NewNode, Run, SendRegister, Stop, Subscribe, WaitFails, Mine
        <3> QED BY <3>1, <3>2, <3>3
    <2> QED BY <2>1, <2>2
<1> QED BY <1>1, RunInvariant, PTL DEF Spec, FileFinal

\* A goroutine waits only for a process that registers.
LEMMA WaitStep == ASSUME TypeOK, WaitInv, [Next]_vars PROVE WaitInv'
<1>1. CASE UNCHANGED vars
    BY <1>1 DEF vars, process, WaitInv
<1>2. ASSUME NEW n \in Nodes, NewNode(n) \/ Run(n) PROVE WaitInv'
    BY <1>2 DEF NewNode, Run, TypeOK, WaitInv
<1>3. ASSUME NEW n \in Nodes, SendRegister(n) \/ WriteConfig(n) \/ Stop(n) PROVE WaitInv'
    BY <1>3 DEF SendRegister, WriteConfig, Stop, Exit, TypeOK, WaitInv
<1>4. ASSUME NEW n \in Nodes, Subscribe(n) \/ WaitFails(n) PROVE WaitInv'
    BY <1>4 DEF Subscribe, WaitFails, TypeOK, WaitInv
<1>5. ASSUME NEW n \in Nodes, Mine(n) PROVE WaitInv'
    BY <1>5 DEF Mine, Listeners, TypeOK, WaitInv
<1> QED BY <1>1, <1>2, <1>3, <1>4, <1>5, StepCases

\* A seat that is registered stays with its node.
LEMMA OwnIndexKept ==
    ASSUME TypeOK, NEW n \in Nodes, NEW index \in Nat, OwnIndex(n, index),
           seats' = seats \/ \E m \in Nodes : seats' = Append(seats, m)
    PROVE  index < Len(seats') /\ seats'[index + 1] = n
<1>1. CASE seats' = seats
    BY <1>1 DEF OwnIndex
<1>2. CASE \E m \in Nodes : seats' = Append(seats, m)
    <2>1. PICK m \in Nodes : seats' = Append(seats, m)
        BY <1>2
    <2>2. seats \in Seq(Nodes) /\ Len(seats) \in Nat
        BY DEF TypeOK
    <2>3. index + 1 \in 1..Len(seats) /\ seats[index + 1] = n
        BY <2>2 DEF OwnIndex
    <2> QED BY <2>1, <2>2, <2>3
<1> QED BY <1>1, <1>2

\* While nodes are started one at a time, a step leaves one registration on its
\* way at most, and every index that was heard or written is the node's own.
LEMMA SerialStep ==
    ASSUME TypeOK, WaitInv, SerialInv, [Next]_vars
    PROVE  SerialInv'
<1> SUFFICES ASSUME serial' PROVE SerialInv'
    BY DEF SerialInv
<1>0. serial
    BY StepCases DEF vars, NewNode, Run, SendRegister, WriteConfig, Stop, Subscribe, WaitFails, Mine
<1>1. \A m, n \in Nodes : Active(m) /\ Active(n) => m = n
    BY <1>0 DEF SerialInv
<1>2. \A n \in Nodes : /\ wait[n] = "received" => OwnIndex(n, heard[n])
                       /\ file[n].registered => OwnIndex(n, file[n].index)
    BY <1>0 DEF SerialInv
<1>3. \A n \in Nodes : heard[n] \in Nat /\ file[n].index \in Nat
    BY DEF TypeOK, Config
<1>4. CASE UNCHANGED vars
    BY <1>4 DEF vars, process, SerialInv, Active, OwnIndex
<1>5. ASSUME NEW n \in Nodes, NewNode(n) PROVE SerialInv'
    <2>1. \A m \in Nodes : Active(m)' => m = n
        <3>1. \A m \in Nodes : pending'[m] = 0 /\ stage[m] \in {"off", "serving"}
            BY <1>5 DEF NewNode, Settled
        <3>2. \A m \in Nodes : m # n => stage'[m] = stage[m]
            BY <1>5 DEF NewNode, TypeOK
        <3> QED BY <3>1, <3>2 DEF Active
    <2>2. UNCHANGED <<seats, wait, heard, file>>
        BY <1>5 DEF NewNode
    <2> QED BY <1>2, <2>1, <2>2 DEF SerialInv, OwnIndex
<1>6. ASSUME NEW n \in Nodes, Run(n) \/ SendRegister(n) PROVE SerialInv'
    <2>1. \A m \in Nodes : Active(m)' => Active(m)
        BY <1>6 DEF Run, SendRegister, Exit, TypeOK, Active
    <2>2. UNCHANGED <<seats, heard, file>>
        BY <1>6 DEF Run, SendRegister
    <2>3. \A m \in Nodes : wait'[m] = "received" => wait[m] = "received"
        BY <1>6 DEF Run, SendRegister, Exit, TypeOK
    <2> QED BY <1>1, <1>2, <2>1, <2>2, <2>3 DEF SerialInv, OwnIndex
<1>7. ASSUME NEW n \in Nodes, WriteConfig(n) PROVE SerialInv'
    <2>1. \A m \in Nodes : Active(m)' => Active(m)
        BY <1>7 DEF WriteConfig, Exit, TypeOK, Active
    <2>2. UNCHANGED <<seats, heard>>
        BY <1>7 DEF WriteConfig
    <2>3. \A m \in Nodes : wait'[m] = "received" => wait[m] = "received"
        BY <1>7 DEF WriteConfig, Exit, TypeOK
    <2>4. ASSUME NEW m \in Nodes, file'[m].registered PROVE OwnIndex(m, file'[m].index)
        <3>1. CASE file'[m] = file[m]
            BY <1>2, <2>4, <3>1
        <3>2. CASE file'[m] # file[m]
            <4>1. m = n /\ wait[m] = "received" /\ file'[m].index = heard[m]
                BY <1>7, <3>2 DEF WriteConfig, TypeOK
            <4> QED BY <1>2, <4>1
        <3> QED BY <3>1, <3>2
    <2> QED BY <1>1, <1>2, <2>1, <2>2, <2>3, <2>4 DEF SerialInv, OwnIndex
<1>8. ASSUME NEW n \in Nodes, Stop(n) \/ Subscribe(n) \/ WaitFails(n) PROVE SerialInv'
    <2>1. \A m \in Nodes : Active(m)' => Active(m)
        BY <1>8 DEF Stop, Exit, Subscribe, WaitFails, TypeOK, Active
    <2>2. UNCHANGED <<seats, file>>
        BY <1>8 DEF Stop, Subscribe, WaitFails
    <2>3. \A m \in Nodes : wait'[m] = "received" => wait[m] = "received" /\ heard'[m] = heard[m]
        BY <1>8 DEF Stop, Exit, Subscribe, Backlog, WaitFails, TypeOK
    <2> QED BY <1>1, <1>2, <2>1, <2>2, <2>3 DEF SerialInv, OwnIndex
<1>9. ASSUME NEW n \in Nodes, Mine(n) PROVE SerialInv'
    <2>1. \A m \in Nodes : Active(m)' => Active(m)
        BY <1>9 DEF Mine, TypeOK, Active
    <2>2. seats' = seats \/ \E m \in Nodes : seats' = Append(seats, m)
        BY <1>9 DEF Mine
    <2>3. UNCHANGED file
        BY <1>9 DEF Mine
    <2>4. ASSUME NEW m \in Nodes, file'[m].registered
          PROVE  file'[m].index < Len(seats') /\ seats'[file'[m].index + 1] = m
        <3>1. file[m].index \in Nat /\ OwnIndex(m, file[m].index)
            BY <1>2, <1>3, <2>3, <2>4
        <3> QED BY <2>2, <2>3, <3>1, OwnIndexKept
    <2>5. ASSUME NEW m \in Nodes, wait'[m] = "received"
          PROVE  heard'[m] < Len(seats') /\ seats'[heard'[m] + 1] = m
        <3>1. CASE Len(seats) < Capacity /\ wait[m] = "subscribed"
            <4>1. Active(m) /\ Active(n)
                BY <1>9, <3>1 DEF WaitInv, Active, Mine
            <4>2. m = n
                BY <1>1, <4>1
            <4>3. seats' = Append(seats, m) /\ heard'[m] = Len(seats)
                BY <1>9, <3>1, <4>2 DEF Mine, NewIndex, Listeners
            <4>4. seats \in Seq(Nodes)
                BY DEF TypeOK
            <4> QED BY <4>3, <4>4 DEF OwnIndex
        <3>2. CASE ~(Len(seats) < Capacity /\ wait[m] = "subscribed")
            <4>1. wait[m] = "received" /\ heard'[m] = heard[m]
                BY <1>9, <2>5, <3>2 DEF Mine, Listeners, TypeOK
            <4>2. heard[m] \in Nat /\ OwnIndex(m, heard[m])
                BY <1>2, <1>3, <4>1
            <4> QED BY <2>2, <4>1, <4>2, OwnIndexKept
        <3> QED BY <3>1, <3>2
    <2> QED BY <1>1, <2>1, <2>4, <2>5 DEF SerialInv, OwnIndex
<1> QED BY <1>4, <1>5, <1>6, <1>7, <1>8, <1>9, StepCases

\* Nodes that are started one at a time name their own seats.
THEOREM SeatIsOwn == Spec => []OwnSeat
<1>1. Init => WaitInv /\ SerialInv
    BY DEF Init, Example, WaitInv, SerialInv, Active
<1>2. RunInv /\ WaitInv /\ SerialInv /\ [Next]_vars => WaitInv' /\ SerialInv'
    BY WaitStep, SerialStep DEF RunInv
<1>3. SerialInv => OwnSeat
    BY DEF SerialInv, OwnIndex, OwnSeat
<1> QED BY <1>1, <1>2, <1>3, RunInvariant, PTL DEF Spec
============================================================================
