----------------------------- MODULE StateLock -----------------------------
(***************************************************************************)
(* The locks and the hash object of State (state.go), one call of the hash  *)
(* object at a time.  WriteAccount holds the lock for writing; Root and     *)
(* MerkleProof hold it for reading, so several may run at once: the         *)
(* aggregator builds its proofs while the handler of BlockSubmitted (sync.go)*)
(* asks for the root.  All three work on the one hash object.               *)
(*                                                                          *)
(* A hash is the term of what was written to the object since its reset.    *)
(* The tree has two leaves.  The calls of the object are taken to be        *)
(* atomic, which its slice of data does not promise.                        *)
(***************************************************************************)
EXTENDS Integers, Sequences, FiniteSets

CONSTANTS
    Threads,
    Writers, Provers, Rooters,  \* the threads that call WriteAccount, MerkleProof, Root
    Accounts,                   \* contents of an account
    MaxCalls                    \* bound: calls of each thread

VARIABLES
    data, hData,    \* the accounts, and the hashes of the accounts
    written,        \* what the hash object was given since its reset
    script,         \* what the thread has left to do, empty outside a call
    reg,            \* local values of the thread's call, by name
    mode,           \* of the lock the thread holds: none, read or write
    calls,          \* calls the thread has made
    failed          \* whether its last proof did not verify

thread == <<script, reg, mode, calls, failed>>
vars == <<data, hData, written, thread>>

Leaf == 0..1
Mixed == <<<<>>, <<>>, <<>>>>

\* NewState: no call runs yet.
Init ==
    /\ data \in [Leaf -> Accounts]
    /\ hData = [i \in Leaf |-> <<data[i]>>]
    /\ written = <<>>
    /\ script = [t \in Threads |-> <<>>]
    /\ reg = [t \in Threads |-> <<>>]
    /\ mode = [t \in Threads |-> "none"]
    /\ calls = [t \in Threads |-> 0]
    /\ failed = [t \in Threads |-> FALSE]

\* The calls of the hash object that leave the hash of args in dst.
Hash(args, dst) ==
    <<[do |-> "reset"]>> \o [k \in DOMAIN args |-> [do |-> "write", arg |-> args[k]]]
        \o <<[do |-> "sum", dst |-> dst]>>

\* merkletree.ReaderRoot: the leaves are hashed once more.
ReaderRoot == Hash(<<"leaf0">>, "left") \o Hash(<<"leaf1">>, "right") \o Hash(<<"left", "right">>, "root")

\* merkletree.BuildReaderProof and VerifyProof of leaf i.
BuildReaderProof == ReaderRoot
VerifyProof(i) ==
    (IF i = 0 THEN Hash(<<"leaf0">>, "sum") \o Hash(<<"sum", "right">>, "check")
              ELSE Hash(<<"leaf1">>, "sum") \o Hash(<<"left", "sum">>, "check"))
        \o <<[do |-> "verify"]>>

WriteMode == "write"
ReadMode == "read"

\* RLock waits for the writer, Lock for everybody.
Locked(t, m) ==
    /\ \A u \in Threads : mode[u] # "none" => m = "read" /\ mode[u] = "read"
    /\ mode' = [mode EXCEPT ![t] = m]

Call(t, m, do, locals) ==
    /\ script[t] = <<>> /\ calls[t] < MaxCalls
    /\ Locked(t, m)
    /\ calls' = [calls EXCEPT ![t] = @ + 1]
    /\ script' = [script EXCEPT ![t] = do]
    /\ reg' = [reg EXCEPT ![t] = locals]
    /\ failed' = [failed EXCEPT ![t] = FALSE]
    /\ UNCHANGED <<hData, written>>

WriteAccount(t) ==
    \E i \in Leaf, account \in Accounts :
        /\ Call(t, WriteMode, Hash(<<"account">>, "hash") \o <<[do |-> "store", leaf |-> i]>>,
                [name \in {"account", "hash"} |-> account])
        /\ data' = [data EXCEPT ![i] = account]

\* Root and MerkleProof read a copy of the hashes.
Copied == [name \in {"leaf0", "leaf1", "left", "right", "root", "sum", "check"} |->
              IF name = "leaf1" THEN hData[1] ELSE hData[0]]

Root(t) == Call(t, ReadMode, ReaderRoot, Copied) /\ UNCHANGED data

MerkleProof(t) ==
    \E i \in Leaf : Call(t, ReadMode, BuildReaderProof \o VerifyProof(i), Copied) /\ UNCHANGED data

\* More words than a node has are a hash of neither a leaf nor a node, and all
\* such hashes are taken as one: this can only hide that two of them differ.
Written(word) == IF Len(written) < 2 THEN Append(written, word) ELSE Mixed

\* The step of the thread is the last of its call.
Returned(t) == Len(script[t]) = 1

\* The next thing the thread does; with the last one it returns and unlocks.
Step(t) ==
    LET next == Head(script[t]) IN
    /\ script[t] # <<>>
    /\ script' = [script EXCEPT ![t] = Tail(@)]
    /\ mode' = [mode EXCEPT ![t] = IF Returned(t) THEN "none" ELSE @]
    /\ written' = CASE next.do = "reset" -> <<>>
                    [] next.do = "write" -> Written(reg[t][next.arg])
                    [] next.do = "sum"   -> <<>>
                    [] OTHER             -> written
    /\ reg' = CASE Returned(t)      -> [reg EXCEPT ![t] = <<>>]
                [] next.do = "sum"  -> [reg EXCEPT ![t][next.dst] = written]
                [] OTHER            -> reg
    /\ hData' = IF next.do = "store" THEN [hData EXCEPT ![next.leaf] = reg[t]["hash"]] ELSE hData
    /\ failed' = IF next.do = "verify"
                 THEN [failed EXCEPT ![t] = reg[t]["check"] # reg[t]["root"]] ELSE failed
    /\ UNCHANGED <<data, calls>>

Next == \E t \in Threads :
    \/ t \in Writers /\ WriteAccount(t)
    \/ t \in Rooters /\ Root(t)
    \/ t \in Provers /\ MerkleProof(t)
    \/ Step(t)

Spec == Init /\ [][Next]_vars
----------------------------------------------------------------------------
(* Properties. *)

\* state.go:105, "invalid merkle proof": a proof that was just built verifies.
ProofVerifies == \A t \in Threads : ~failed[t]
============================================================================
