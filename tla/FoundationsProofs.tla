-------------------------- MODULE FoundationsProofs --------------------------
(***************************************************************************)
(* Four parts of MCFoundations.  The hash: the rounds and words of the      *)
(* contract follow those of the digest modulo the field.  The trees: see    *)
(* MerkleTreeProofs.  The circuits: at every stage the constraints laid out *)
(* so far have established a part of the relation, and the last one         *)
(* completes it; without the check for duplicates a seat would be counted   *)
(* twice, and a seat that slashes itself opens a leaf that was emptied.     *)
(* The verifier: the loop adds up the sum that the inputs weight, so what   *)
(* it answers is the truth of the equation between logarithms.              *)
(***************************************************************************)
EXTENDS MCFoundations, DataLemmas

(* The hash. *)

\* The scalar field.
Field == 0..localQ - 1

LEMMA FieldType ==
    /\ localQ \in Nat \ {0} /\ round_count \in Nat \ {0} /\ Blocks \in Nat \ {0}
    /\ Words \subseteq Nat
    /\ 0 \in Field /\ Field \subseteq Nat
    /\ \A x \in Nat : x % localQ \in Field
    /\ \A x \in Field : x % localQ = x
<1>1. localQ \in Nat \ {0} /\ round_count \in Nat \ {0} /\ Blocks \in Nat \ {0}
    BY HashAssumption DEF Mimc!FieldAssumption, Mimc!RoundAssumption
<1>2. Words \subseteq Nat
    BY HashAssumption DEF Mimc!WordAssumption
<1>3. 0 \in Field /\ Field \subseteq Nat
    BY <1>1 DEF Field
<1>4. \A x \in Nat : x % localQ \in Field
    BY <1>1 DEF Field
<1>5. \A x \in Field : x % localQ = x
    <2> SUFFICES ASSUME NEW x \in Field PROVE x % localQ = x
        OBVIOUS
    <2>1. localQ * 0 + x = x
        BY <1>1, <1>3
    <2>2. (localQ * 0 + x) % localQ = x
        BY <1>1, ModUnique DEF Field
    <2> QED BY <2>1, <2>2
<1> QED BY <1>1, <1>2, <1>3, <1>4, <1>5

\* Remainders of the sum that a round takes to the fifth power.
LEMMA RoundSum ==
    ASSUME NEW x \in Nat, NEW y \in Nat, NEW c \in Nat, NEW k \in Nat, x % localQ = y % localQ
    PROVE  (x + c + k) % localQ = (y + c + k) % localQ
<1>1. localQ \in Nat \ {0} /\ c + k \in Nat
    BY FieldType
<1>2. ((x % localQ) + (c + k)) % localQ = (x + (c + k)) % localQ
    BY <1>1, ModAdd
<1>3. ((y % localQ) + (c + k)) % localQ = (y + (c + k)) % localQ
    BY <1>1, ModAdd
<1>4. x + (c + k) = x + c + k /\ y + (c + k) = y + c + k
    OBVIOUS
<1> QED BY <1>2, <1>3, <1>4

\* The contract's two squares give the fifth power.
LEMMA PowerFifth ==
    ASSUME NEW t \in Nat
    PROVE  /\ Mimc!Power(t % localQ) = Mimc!Fifth(t) % localQ
           /\ Mimc!Power(t % localQ) \in Field
<1> DEFINE q == localQ
           u == t % q
           s == (u * u) % q
<1>1. q \in Nat \ {0} /\ u \in Nat /\ s \in Nat /\ u * u \in Nat
    <2>1. q \in Nat \ {0} /\ u \in Nat
        BY FieldType DEF Field
    <2> HIDE DEF u, q
    <2>2. u * u \in Nat
        BY <2>1
    <2> QED BY <2>1, <2>2
<1>2. Mimc!Power(u) = (((s * s) % q) * u) % q
    BY DEF Mimc!Power
<1>3. \A x, y \in Nat : x * y \in Nat
    OBVIOUS
<1>4. \A x, y \in Nat : ((x % q) * y) % q = (x * y) % q
    <2> HIDE DEF q
    <2> QED BY <1>1, ModMul
<1>5. (((s * s) % q) * u) % q = ((s * s) * u) % q
    BY <1>1, <1>3, <1>4
<1> HIDE DEF q
<1>6. ((s * s) * u) % q = Mimc!Fifth(u) % q
    <2> DEFINE v == u * u
    <2>1. v \in Nat /\ s = v % q
        BY <1>1
    <2> HIDE DEF s, u
    <2>2. (s * s) * u = s * (s * u) /\ s * u \in Nat
        BY <1>1
    <2>3. (s * (s * u)) % q = (v * (s * u)) % q
        BY <1>4, <2>1, <2>2
    <2>4. v * (s * u) = s * (v * u) /\ v * u \in Nat
        <3> HIDE DEF v
        <3> QED BY <1>1, <2>1
    <2>5. (s * (v * u)) % q = (v * (v * u)) % q
        BY <1>4, <2>1, <2>4
    <2>6. v * (v * u) = Mimc!Fifth(u)
        BY <1>1 DEF Mimc!Fifth
    <2> QED BY <2>2, <2>3, <2>4, <2>5, <2>6
<1>7. Mimc!Fifth(u) % q = Mimc!Fifth(t) % q
    <2>1. ASSUME NEW y \in Nat PROVE (u * y) % q = (t * y) % q
        BY <1>4
    <2> HIDE DEF u
    <2>2. /\ u * (u * u * u * u) = Mimc!Fifth(u) /\ u * u * u * u \in Nat
          /\ t * (u * u * u * u) = u * (t * u * u * u) /\ t * u * u * u \in Nat
          /\ t * (t * u * u * u) = u * (t * t * u * u) /\ t * t * u * u \in Nat
          /\ t * (t * t * u * u) = u * (t * t * t * u) /\ t * t * t * u \in Nat
          /\ t * (t * t * t * u) = u * (t * t * t * t) /\ t * t * t * t \in Nat
          /\ t * (t * t * t * t) = Mimc!Fifth(t)
        BY <1>1, <1>3 DEF Mimc!Fifth
    <2>3. (u * (u * u * u * u)) % q = (t * (u * u * u * u)) % q
        BY <2>1, <2>2
    <2>4. (u * (t * u * u * u)) % q = (t * (t * u * u * u)) % q
        BY <2>1, <2>2
    <2>5. (u * (t * t * u * u)) % q = (t * (t * t * u * u)) % q
        BY <2>1, <2>2
    <2>6. (u * (t * t * t * u)) % q = (t * (t * t * t * u)) % q
        BY <2>1, <2>2
    <2>7. (u * (t * t * t * t)) % q = (t * (t * t * t * t)) % q
        BY <2>1, <2>2
    <2> QED BY <2>2, <2>3, <2>4, <2>5, <2>6, <2>7
<1>8. Mimc!Power(u) \in Field
    <2>1. ((s * s) % q) * u \in Nat
        <3>1. (s * s) % q \in Nat
            BY <1>1, <1>3
        <3> HIDE DEF s, u
        <3> QED BY <1>1, <1>3, <3>1
    <2> HIDE DEF s, u
    <2> QED BY <1>2, <2>1, FieldType DEF q
<1> QED BY <1>2, <1>5, <1>6, <1>7, <1>8 DEF q

\* No two elements of the field have the same power.
LEMMA PowerInjective ==
    ASSUME NEW x \in Field, NEW y \in Field
    PROVE  Mimc!Power(x) = Mimc!Power(y) <=> x = y
<1>1. x \in Nat /\ y \in Nat /\ x % localQ = x /\ y % localQ = y
    BY FieldType DEF Field
<1>2. Mimc!Power(x) = Mimc!Fifth(x) % localQ /\ Mimc!Power(y) = Mimc!Fifth(y) % localQ
    BY <1>1, PowerFifth
<1>3. Mimc!Fifth(x) % localQ = Mimc!Fifth(y) % localQ => x = y
    BY HashAssumption DEF Mimc!PowerAssumption, Field
<1> QED BY <1>2, <1>3

\* What was added to both can be taken from both.
LEMMA SumCancel ==
    ASSUME NEW x \in Nat, NEW y \in Nat, NEW k \in Nat
    PROVE  (x + k) % localQ = (y + k) % localQ => x % localQ = y % localQ
<1> DEFINE q == localQ
           j == (q - 1) * k
<1>1. q \in Nat \ {0}
    BY FieldType
<1> HIDE DEF q
<1>2. j \in Nat /\ k + j = q * k
    BY <1>1
<1> HIDE DEF j
<1>3. ASSUME NEW z \in Nat PROVE (((z + k) % q) + j) % q = z % q
    <2> DEFINE s == z + k
    <2>1. s \in Nat /\ s + j = z + q * k
        BY <1>2
    <2> HIDE DEF s
    <2>2. ((s % q) + j) % q = (s + j) % q
        BY <1>1, <1>2, <2>1, ModAdd
    <2>3. (z + q * k) % q = z % q
        BY <1>1, ModShift
    <2> QED BY <2>1, <2>2, <2>3 DEF s
<1> QED BY <1>3 DEF q

LEMMA FifthType ==
    ASSUME NEW t \in Nat
    PROVE  Mimc!Fifth(t) \in Nat /\ Mimc!Fifth(t) % localQ \in Field
<1>1. Mimc!Fifth(t) \in Nat
    <2>1. \A x, y \in Nat : x * y \in Nat
        OBVIOUS
    <2> QED BY <2>1 DEF Mimc!Fifth
<1> QED BY <1>1, FieldType

\* A word after each round of the reference.
LEMMA CipherStep ==
    ASSUME seeds \in [1..round_count -> Field], NEW x \in Nat, NEW key \in Nat
    PROVE  /\ Mimc!Cipher(x, key)[0] = x
           /\ \A k \in 0..round_count : Mimc!Cipher(x, key)[k] \in Nat
           /\ \A k \in 0..round_count - 1 :
                Mimc!Cipher(x, key)[k + 1]
                    = Mimc!Fifth(Mimc!Cipher(x, key)[k] + seeds[k + 1] + key) % localQ
<1> DEFINE Once(k, v) == Mimc!Fifth(v + seeds[k + 1] + key) % localQ
           step == [k \in Nat |-> [v \in Nat |-> IF k < round_count THEN Once(k, v) ELSE 0]]
           Rule(e) == [k \in 0..round_count |-> IF k = 0 THEN x
                            ELSE Mimc!Fifth(e[k - 1] + seeds[k] + key) % localQ]
           cipher == CHOOSE e : e = Rule(e)
<1>1. round_count \in Nat \ {0}
    BY FieldType
<1>2. ASSUME NEW k \in Nat, NEW v \in Nat, k < round_count PROVE Once(k, v) \in Nat
    <2>1. k + 1 \in 1..round_count
        BY <1>1, <1>2
    <2>2. seeds[k + 1] \in Nat
        BY <2>1, FieldType
    <2>3. v + seeds[k + 1] + key \in Nat
        BY <2>2
    <2> QED BY <2>3, FifthType, FieldType
<1>3. PICK f : Recurs(f, Nat, x, step)
    <2>1. \A k, v \in Nat : step[k][v] \in Nat
        <3> HIDE DEF Once
        <3> QED BY <1>2
    <2> HIDE DEF step
    <2> QED BY <2>1, Recursion
<1> DEFINE upTo == [k \in 0..round_count |-> f[k]]
<1>4. upTo = Rule(upTo)
    <2>1. f[0] = x /\ f \in [Nat -> Nat]
        BY <1>3 DEF Recurs
    <2>2. ASSUME NEW k \in 0..round_count, k # 0
          PROVE  f[k] = Mimc!Fifth(f[k - 1] + seeds[k] + key) % localQ
        <3>1. k - 1 \in Nat /\ (k - 1) + 1 = k /\ k - 1 < round_count
            BY <1>1, <2>2
        <3>2. f[(k - 1) + 1] = step[k - 1][f[k - 1]]
            <4> HIDE DEF step
            <4> QED BY <1>3, <3>1 DEF Recurs
        <3>3. step[k - 1][f[k - 1]] = Once(k - 1, f[k - 1])
            <4>1. f[k - 1] \in Nat
                BY <2>1, <3>1
            <4> HIDE DEF Once
            <4> QED BY <3>1, <4>1
        <3>4. Once(k - 1, f[k - 1]) = Mimc!Fifth(f[k - 1] + seeds[(k - 1) + 1] + key) % localQ
            OBVIOUS
        <3> HIDE DEF Once, step
        <3> QED BY <3>1, <3>2, <3>3, <3>4
    <2>3. \A k \in 0..round_count : k # 0 => k - 1 \in 0..round_count
        BY <1>1
    <2> HIDE DEF Once, step
    <2> QED BY <2>1, <2>2, <2>3
<1>5. cipher = Rule(cipher)
    <2> HIDE DEF Rule, upTo
    <2> QED BY <1>4
<1>6. Mimc!Cipher(x, key) = cipher
    BY DEF Mimc!Cipher
<1> HIDE DEF cipher
<1>7. cipher[0] = x
    BY <1>1, <1>5
<1>8. ASSUME NEW k \in 0..round_count - 1
      PROVE  cipher[k + 1] = Mimc!Fifth(cipher[k] + seeds[k + 1] + key) % localQ
    <2>1. k + 1 \in 0..round_count /\ k + 1 # 0 /\ (k + 1) - 1 = k
        BY <1>1
    <2>2. cipher[k + 1] = Mimc!Fifth(cipher[(k + 1) - 1] + seeds[k + 1] + key) % localQ
        BY <1>5, <2>1
    <2> QED BY <2>1, <2>2
<1> DEFINE Holds == {k \in Nat : k <= round_count => cipher[k] \in Nat}
<1>9. 0 \in Holds
    BY <1>7
<1>10. ASSUME NEW k \in Nat, k \in Holds PROVE k + 1 \in Holds
    <2> SUFFICES ASSUME k + 1 <= round_count PROVE cipher[k + 1] \in Nat
        OBVIOUS
    <2>1. k < round_count /\ k \in 0..round_count - 1 /\ k <= round_count
        BY <1>1
    <2>2. cipher[k] \in Nat
        BY <1>10, <2>1
    <2>3. Once(k, cipher[k]) \in Nat
        <3> HIDE DEF Once
        <3> QED BY <1>2, <2>1, <2>2
    <2> QED BY <1>8, <2>1, <2>3
<1>11. Nat \subseteq Holds
    <2>1. \A k \in Nat : k \in Holds => k + 1 \in Holds
        BY <1>10
    <2> HIDE DEF Holds
    <2> QED BY <1>9, <2>1, Induction
<1> QED BY <1>1, <1>6, <1>7, <1>8, <1>11

\* What encrypts a word is in the field.
LEMMA EncryptedType ==
    ASSUME seeds \in [1..round_count -> Field], NEW x \in Nat, NEW key \in Nat
    PROVE  Mimc!Encrypted(x, key) \in Field
<1>1. round_count \in 0..round_count
    BY FieldType
<1>2. Mimc!Cipher(x, key)[round_count] \in Nat
    BY <1>1, CipherStep
<1>3. Mimc!Cipher(x, key)[round_count] + key \in Nat
    BY <1>2
<1> QED BY <1>3, FieldType DEF Mimc!Encrypted

\* The digest of the words so far, one word after another.
LEMMA DigestStep ==
    ASSUME seeds \in [1..round_count -> Field], NEW msg \in [1..Blocks -> Words]
    PROVE  /\ Mimc!Digest(msg)[0] = 0
           /\ \A k \in 0..Blocks - 1 :
                Mimc!Digest(msg)[k + 1] =
                    (Mimc!Digest(msg)[k] + msg[k + 1]
                        + Mimc!Encrypted(msg[k + 1] % localQ, Mimc!Digest(msg)[k])) % localQ
<1> DEFINE Once(k, v) == (v + msg[k + 1] + Mimc!Encrypted(msg[k + 1] % localQ, v)) % localQ
           step == [k \in Nat |-> [v \in Nat |-> IF k < Blocks THEN Once(k, v) ELSE 0]]
           Rule(h) == [k \in 0..Blocks |-> IF k = 0 THEN 0
                            ELSE (h[k - 1] + msg[k] + Mimc!Encrypted(msg[k] % localQ, h[k - 1])) % localQ]
           digest == CHOOSE h : h = Rule(h)
<1>1. Blocks \in Nat \ {0}
    BY FieldType
<1>2. ASSUME NEW k \in Nat, NEW v \in Nat, k < Blocks PROVE Once(k, v) \in Nat
    <2>1. k + 1 \in 1..Blocks
        BY <1>1, <1>2
    <2>2. msg[k + 1] \in Nat /\ msg[k + 1] % localQ \in Nat
        BY <2>1, FieldType
    <2>3. Mimc!Encrypted(msg[k + 1] % localQ, v) \in Nat
        BY <2>2, EncryptedType, FieldType
    <2>4. v + msg[k + 1] + Mimc!Encrypted(msg[k + 1] % localQ, v) \in Nat
        BY <2>2, <2>3
    <2> QED BY <2>4, FieldType
<1>3. PICK f : Recurs(f, Nat, 0, step)
    <2>1. \A k, v \in Nat : step[k][v] \in Nat
        <3> HIDE DEF Once
        <3> QED BY <1>2
    <2> HIDE DEF step
    <2> QED BY <2>1, Recursion
<1> DEFINE upTo == [k \in 0..Blocks |-> f[k]]
<1>4. upTo = Rule(upTo)
    <2>1. f[0] = 0 /\ f \in [Nat -> Nat]
        BY <1>3 DEF Recurs
    <2>2. ASSUME NEW k \in 0..Blocks, k # 0
          PROVE  f[k] = (f[k - 1] + msg[k] + Mimc!Encrypted(msg[k] % localQ, f[k - 1])) % localQ
        <3>1. k - 1 \in Nat /\ (k - 1) + 1 = k /\ k - 1 < Blocks
            BY <1>1, <2>2
        <3>2. f[(k - 1) + 1] = step[k - 1][f[k - 1]]
            <4> HIDE DEF step
            <4> QED BY <1>3, <3>1 DEF Recurs
        <3>3. step[k - 1][f[k - 1]] = Once(k - 1, f[k - 1])
            <4>1. f[k - 1] \in Nat
                BY <2>1, <3>1
            <4> HIDE DEF Once
            <4> QED BY <3>1, <4>1
        <3> HIDE DEF step
        <3> QED BY <3>1, <3>2, <3>3
    <2>3. \A k \in 0..Blocks : k # 0 => k - 1 \in 0..Blocks
        BY <1>1
    <2> HIDE DEF Once, step
    <2> QED BY <2>1, <2>2, <2>3
<1>5. digest = Rule(digest)
    <2> HIDE DEF Rule, upTo
    <2> QED BY <1>4
<1>6. Mimc!Digest(msg) = digest
    BY DEF Mimc!Digest
<1> HIDE DEF digest
<1>7. digest[0] = 0
    BY <1>1, <1>5
<1>8. ASSUME NEW k \in 0..Blocks - 1
      PROVE  digest[k + 1] = (digest[k] + msg[k + 1]
                                + Mimc!Encrypted(msg[k + 1] % localQ, digest[k])) % localQ
    <2>1. k + 1 \in 0..Blocks /\ k + 1 # 0 /\ (k + 1) - 1 = k
        BY <1>1
    <2>2. digest[k + 1] = (digest[(k + 1) - 1] + msg[k + 1]
                                + Mimc!Encrypted(msg[k + 1] % localQ, digest[(k + 1) - 1])) % localQ
        BY <1>5, <2>1
    <2> QED BY <2>1, <2>2
<1> QED BY <1>6, <1>7, <1>8

\* The word of message m that is being hashed, after the rounds it has seen.
Reference(m) ==
    Mimc!Cipher(in_msgs[m][chained + 1] % localQ, r[m])[round_count - rounds]

\* So far the contract computed what the digest does.
HashInv ==
    /\ seeds \in [1..round_count -> Field]
    /\ in_msgs \in [Mimc!Messages -> [1..Blocks -> Words]]
    /\ chained \in 0..Blocks /\ rounds \in 0..round_count
    /\ r \in [Mimc!Messages -> Field] /\ in_x \in [Mimc!Messages -> Nat]
    /\ Mimc!AgreesWithDigest
    /\ chained < Blocks =>
        \A m \in Mimc!Messages : in_x[m] % localQ = Reference(m) % localQ
    /\ Mimc!Permutes

\* The reference is a function of what was given.
LEMMA GivenSame ==
    ASSUME seeds' = seeds
    PROVE  /\ \A x, key : Mimc!Cipher(x, key)' = Mimc!Cipher(x, key)
           /\ \A x, key : Mimc!Encrypted(x, key)' = Mimc!Encrypted(x, key)
           /\ \A msg : Mimc!Digest(msg)' = Mimc!Digest(msg)
<1>1. \A x, key : Mimc!Cipher(x, key)' = Mimc!Cipher(x, key)
    BY DEF Mimc!Cipher, Mimc!Fifth
<1>2. \A x, key : Mimc!Encrypted(x, key)' = Mimc!Encrypted(x, key)
    BY <1>1 DEF Mimc!Encrypted
<1>3. \A msg : Mimc!Digest(msg)' = Mimc!Digest(msg)
    BY <1>2 DEF Mimc!Digest
<1> QED BY <1>1, <1>2, <1>3

LEMMA InitHash ==
    ASSUME Mimc!Init
    PROVE  HashInv
<1>1. /\ seeds \in [1..round_count -> Field] /\ in_msgs \in [Mimc!Messages -> [1..Blocks -> Words]]
      /\ chained = 0 /\ rounds = round_count
      /\ r = [m \in Mimc!Messages |-> 0] /\ in_x = [m \in Mimc!Messages |-> in_msgs[m][1]]
    BY DEF Mimc!Init, Field
<1>2. round_count \in Nat \ {0} /\ Blocks \in Nat \ {0} /\ Words \subseteq Nat /\ 0 \in Field
    BY FieldType
<1>3. \A m \in Mimc!Messages : in_x[m] = in_msgs[m][chained + 1] /\ in_x[m] \in Nat
    <2>1. 1 \in 1..Blocks /\ 0 + 1 = 1
        BY <1>2
    <2> QED BY <1>1, <1>2, <2>1
<1>4. Mimc!AgreesWithDigest
    <2> SUFFICES ASSUME NEW m \in Mimc!Messages PROVE r[m] = Mimc!Digest(in_msgs[m])[0]
        BY <1>1 DEF Mimc!AgreesWithDigest
    <2>1. in_msgs[m] \in [1..Blocks -> Words] /\ r[m] = 0
        BY <1>1
    <2>2. \A msg \in [1..Blocks -> Words] : Mimc!Digest(msg)[0] = 0
        BY <1>1, DigestStep
    <2> QED BY <2>1, <2>2
<1>5. ASSUME NEW m \in Mimc!Messages PROVE in_x[m] % localQ = Reference(m) % localQ
    <2> DEFINE w == in_msgs[m][chained + 1] % localQ
    <2>1. w \in Field /\ in_x[m] % localQ = w
        BY <1>3, FieldType
    <2>2. r[m] = 0 /\ round_count - rounds = 0
        BY <1>1, <1>2
    <2>3. Reference(m) = Mimc!Cipher(w, 0)[0]
        BY <2>2 DEF Reference
    <2> HIDE DEF w
    <2>4. w \in Nat
        BY <2>1, FieldType
    <2>5. Mimc!Cipher(w, 0)[0] = w
        BY <1>1, <2>4, CipherStep
    <2> QED BY <2>1, <2>3, <2>5, FieldType
<1>6. Mimc!Permutes
    <2>1. in_x[1] = in_msgs[1][chained + 1] /\ in_x[2] = in_msgs[2][chained + 1]
        BY <1>3 DEF Mimc!Messages
    <2> QED BY <2>1 DEF Mimc!Permutes
<1>7. in_x \in [Mimc!Messages -> Nat] /\ r \in [Mimc!Messages -> Field]
    BY <1>1, <1>2, <1>3
<1> QED BY <1>1, <1>2, <1>4, <1>5, <1>6, <1>7 DEF HashInv

\* A round takes the word to what the reference has after one more round.
LEMMA RoundStep ==
    ASSUME HashInv, Mimc!Round
    PROVE  HashInv'
<1>1. /\ rounds > 0 /\ chained < Blocks /\ rounds' = rounds - 1
      /\ UNCHANGED <<seeds, in_msgs, chained, r>>
    BY DEF Mimc!Round, Mimc!given
<1> DEFINE c == seeds[round_count - rounds + 1]
           u(m) == in_x[m] + c + r[m]
<1>2. in_x' = [m \in Mimc!Messages |-> Mimc!Power(u(m) % localQ)]
    BY DEF Mimc!Round
<1>3. /\ rounds \in 0..round_count /\ round_count \in Nat \ {0} /\ localQ \in Nat \ {0}
      /\ chained \in 0..Blocks /\ Blocks \in Nat
      /\ seeds \in [1..round_count -> Field] /\ in_msgs \in [Mimc!Messages -> [1..Blocks -> Words]]
      /\ r \in [Mimc!Messages -> Field] /\ in_x \in [Mimc!Messages -> Nat]
    BY FieldType DEF HashInv
<1> DEFINE k == round_count - rounds
<1>4. k \in 0..round_count - 1 /\ k + 1 = round_count - rounds' /\ k + 1 \in 1..round_count
      /\ k + 1 \in 0..round_count /\ k \in 0..round_count
    BY <1>1, <1>3
<1>5. c \in Nat /\ c = seeds[k + 1] /\ \A m \in Mimc!Messages : u(m) \in Nat
    <2>1. c \in Nat /\ c = seeds[k + 1]
        BY <1>3, <1>4, FieldType
    <2> HIDE DEF c
    <2>2. \A m \in Mimc!Messages : r[m] \in Nat
        BY <1>3, FieldType
    <2> QED BY <1>3, <2>1, <2>2
<1>6. \A m \in Mimc!Messages : in_x'[m] = Mimc!Power(u(m) % localQ)
    BY <1>2
<1> HIDE DEF c, k
<1>7. \A m \in Mimc!Messages : in_x'[m] = Mimc!Fifth(u(m)) % localQ /\ in_x'[m] \in Field
    <2> HIDE DEF u
    <2> QED BY <1>5, <1>6, PowerFifth
<1>8. in_x' \in [Mimc!Messages -> Nat]
    <2> HIDE DEF u
    <2> QED BY <1>2, <1>7, FieldType
<1>9. ASSUME NEW m \in Mimc!Messages
      PROVE  in_x'[m] % localQ = Reference(m)' % localQ
    <2> DEFINE w == in_msgs[m][chained + 1] % localQ
               key == r[m]
               v == Mimc!Cipher(w, key)[k]
    <2>1. w \in Nat /\ key \in Nat
        <3>1. chained + 1 \in 1..Blocks
            BY <1>1, <1>3
        <3>2. in_msgs[m][chained + 1] \in Nat
            BY <1>3, <3>1, FieldType
        <3>3. w \in Field
            BY <3>2, FieldType
        <3>4. key \in Field
            BY <1>3
        <3> HIDE DEF w, key
        <3> QED BY <3>3, <3>4, FieldType
    <2>2. in_x[m] % localQ = v % localQ
        BY <1>1 DEF HashInv, Reference, k
    <2>3. Reference(m)' = Mimc!Cipher(w, key)[k + 1]
        BY <1>1, <1>4 DEF Reference, Mimc!Cipher, Mimc!Fifth
    <2> HIDE DEF w, key
    <2>4. v \in Nat /\ Mimc!Cipher(w, key)[k + 1] = Mimc!Fifth(v + c + key) % localQ
        BY <1>3, <1>4, <1>5, <2>1, CipherStep
    <2> HIDE DEF v
    <2>5. in_x[m] \in Nat
        BY <1>3
    <2>6. u(m) % localQ = (v + c + key) % localQ
        <3> DEFINE x == in_x[m]
        <3>1. x \in Nat /\ v \in Nat /\ c \in Nat /\ key \in Nat
            BY <1>5, <2>1, <2>4, <2>5
        <3>2. x % localQ = v % localQ
            BY <2>2
        <3> HIDE DEF x
        <3>3. (x + c + key) % localQ = (v + c + key) % localQ
            BY <3>1, <3>2, RoundSum
        <3> QED BY <3>3 DEF x, key
    <2> DEFINE t == v + c + key
    <2>7. t \in Nat
        BY <1>5, <2>1, <2>4
    <2> HIDE DEF t, u
    <2>8. Mimc!Power(t % localQ) = Mimc!Fifth(t) % localQ
        BY <2>7, PowerFifth
    <2>9. in_x'[m] = Mimc!Fifth(t) % localQ
        BY <1>6, <2>6, <2>8 DEF t
    <2> QED BY <2>3, <2>4, <2>9 DEF t
<1>10. Mimc!AgreesWithDigest'
    <2>1. \A msg : Mimc!Digest(msg)' = Mimc!Digest(msg)
        BY <1>1, GivenSame
    <2>2. \A m \in Mimc!Messages : r[m] = Mimc!Digest(in_msgs[m])[chained]
        BY DEF HashInv, Mimc!AgreesWithDigest
    <2>3. \A m \in Mimc!Messages : r'[m] = Mimc!Digest(in_msgs[m])'[chained']
        BY <1>1, <2>1, <2>2
    <2> QED BY <2>3 DEF Mimc!AgreesWithDigest
<1>11. Mimc!Permutes'
    <2> SUFFICES ASSUME r[1] = r[2]
                 PROVE  in_x'[1] % localQ = in_x'[2] % localQ
                            <=> in_x[1] % localQ = in_x[2] % localQ
        BY <1>1 DEF HashInv, Mimc!Permutes
    <2>1. 1 \in Mimc!Messages /\ 2 \in Mimc!Messages
        BY DEF Mimc!Messages
    <2> DEFINE x == in_x[1]
               y == in_x[2]
               key == r[1]
    <2>2. x \in Nat /\ y \in Nat /\ key \in Nat /\ u(1) = x + c + key /\ u(2) = y + c + key
        BY <1>3, <2>1, FieldType
    <2> HIDE DEF x, y, key
    <2>3. (x + c + key) % localQ = (y + c + key) % localQ <=> x % localQ = y % localQ
        <3>1. x % localQ = y % localQ => (x + c + key) % localQ = (y + c + key) % localQ
            <4>1. x \in Nat /\ y \in Nat /\ c \in Nat /\ key \in Nat
                BY <1>5, <2>2
            <4> QED BY <4>1, RoundSum
        <3> DEFINE j == c + key
        <3>2. j \in Nat /\ x + c + key = x + j /\ y + c + key = y + j
            BY <1>5, <2>2
        <3> HIDE DEF j
        <3>3. (x + j) % localQ = (y + j) % localQ => x % localQ = y % localQ
            <4>1. x \in Nat /\ y \in Nat /\ j \in Nat
                BY <2>2, <3>2
            <4> QED BY <4>1, SumCancel
        <3> QED BY <3>1, <3>2, <3>3
    <2>4. u(1) % localQ = u(2) % localQ <=> x % localQ = y % localQ
        <3> HIDE DEF u
        <3> QED BY <2>2, <2>3
    <2>5. u(1) % localQ \in Field /\ u(2) % localQ \in Field
        <3> HIDE DEF u
        <3> QED BY <1>5, <2>1, FieldType
    <2>6. Mimc!Power(u(1) % localQ) = Mimc!Power(u(2) % localQ) <=> u(1) % localQ = u(2) % localQ
        <3> HIDE DEF u
        <3> QED BY <2>5, PowerInjective
    <2>7. in_x'[1] % localQ = in_x'[1] /\ in_x'[2] % localQ = in_x'[2]
        <3> HIDE DEF u
        <3> QED BY <1>7, <2>1, FieldType
    <2> HIDE DEF u
    <2> QED BY <1>6, <2>1, <2>4, <2>6, <2>7 DEF x, y
<1> HIDE DEF u
<1>12. rounds' \in 0..round_count
    BY <1>1, <1>3
<1> QED BY <1>1, <1>3, <1>8, <1>9, <1>10, <1>11, <1>12 DEF HashInv

\* One more word chained is one more word in the digest.
LEMMA ChainStep ==
    ASSUME HashInv, Mimc!Chain, ~reverted'
    PROVE  HashInv'
<1>1. /\ rounds = 0 /\ chained < Blocks /\ chained' = chained + 1 /\ rounds' = round_count
      /\ r' = [m \in Mimc!Messages |-> Mimc!Chained(m) % localQ]
      /\ in_x' = IF chained' < Blocks
                 THEN [m \in Mimc!Messages |-> in_msgs[m][chained' + 1]] ELSE in_x
      /\ UNCHANGED <<seeds, in_msgs>>
    BY DEF Mimc!Chain, Mimc!given
<1>2. /\ round_count \in Nat \ {0} /\ localQ \in Nat \ {0} /\ Words \subseteq Nat
      /\ chained \in 0..Blocks /\ Blocks \in Nat
      /\ seeds \in [1..round_count -> Field] /\ in_msgs \in [Mimc!Messages -> [1..Blocks -> Words]]
      /\ r \in [Mimc!Messages -> Field] /\ in_x \in [Mimc!Messages -> Nat]
      /\ chained + 1 \in 1..Blocks /\ chained \in 0..Blocks - 1
    <2>1. /\ round_count \in Nat \ {0} /\ localQ \in Nat \ {0} /\ Words \subseteq Nat
          /\ Blocks \in Nat
        BY FieldType
    <2>2. /\ chained \in 0..Blocks
          /\ seeds \in [1..round_count -> Field]
          /\ in_msgs \in [Mimc!Messages -> [1..Blocks -> Words]]
          /\ r \in [Mimc!Messages -> Field] /\ in_x \in [Mimc!Messages -> Nat]
        BY DEF HashInv
    <2>3. chained + 1 \in 1..Blocks /\ chained \in 0..Blocks - 1
        BY <1>1, <2>1, <2>2
    <2> QED BY <2>1, <2>2, <2>3
<1>3. ASSUME NEW m \in Mimc!Messages
      PROVE  r'[m] \in Field /\ r'[m] = Mimc!Digest(in_msgs[m])[chained + 1]
    <2> DEFINE msg == in_msgs[m]
               word == in_msgs[m][chained + 1]
               key == r[m]
    <2>1. msg \in [1..Blocks -> Words] /\ word \in Nat /\ word % localQ \in Nat /\ key \in Nat
        <3>1. word \in Nat
            BY <1>2
        <3> HIDE DEF word
        <3> QED BY <1>2, <3>1, FieldType
    <2>2. key = Mimc!Digest(msg)[chained]
        BY DEF HashInv, Mimc!AgreesWithDigest
    <2>3. in_x[m] % localQ = Mimc!Cipher(word % localQ, key)[round_count] % localQ
        BY <1>1, <1>2 DEF HashInv, Reference
    <2>4. Mimc!Chained(m) = key + word + ((in_x[m] + key) % localQ)
        BY DEF Mimc!Chained, Mimc!Whitened
    <2>5. Mimc!Digest(msg)[chained + 1] =
            (Mimc!Digest(msg)[chained] + msg[chained + 1]
                + Mimc!Encrypted(msg[chained + 1] % localQ, Mimc!Digest(msg)[chained])) % localQ
        <3> HIDE DEF msg
        <3> QED BY <1>2, <2>1, DigestStep
    <2> DEFINE x == in_x[m]
               v == Mimc!Cipher(word % localQ, key)[round_count]
    <2>6. x \in Nat
        BY <1>2
    <2> HIDE DEF word, key, x
    <2>7. v \in Nat
        <3>1. round_count \in 0..round_count
            BY <1>2
        <3>2. word % localQ \in Nat
            BY <2>1
        <3> QED BY <1>2, <2>1, <3>1, <3>2, CipherStep
    <2>8. Mimc!Encrypted(word % localQ, key) = (v + key) % localQ
        BY DEF Mimc!Encrypted
    <2> HIDE DEF v
    <2>9. (x + key) % localQ = (v + key) % localQ
        <3>1. ((x % localQ) + key) % localQ = (x + key) % localQ
            BY <1>2, <2>1, <2>6, ModAdd
        <3>2. ((v % localQ) + key) % localQ = (v + key) % localQ
            BY <1>2, <2>1, <2>7, ModAdd
        <3>3. x % localQ = v % localQ
            BY <2>3 DEF x, v
        <3> QED BY <3>1, <3>2, <3>3
    <2>10. Mimc!Chained(m) = key + word + Mimc!Encrypted(word % localQ, key)
        <3>1. (in_x[m] + key) % localQ = Mimc!Encrypted(word % localQ, key)
            BY <2>8, <2>9 DEF x
        <3> QED BY <2>4, <3>1, Zenon
    <2>11. r'[m] = (key + word + Mimc!Encrypted(word % localQ, key)) % localQ
        BY <1>1, <2>10
    <2>12. key + word + Mimc!Encrypted(word % localQ, key) \in Nat
        <3>1. Mimc!Encrypted(word % localQ, key) \in Nat
            <4>1. word % localQ \in Nat
                BY <2>1
            <4> QED BY <1>2, <2>1, <4>1, EncryptedType, FieldType
        <3> QED BY <2>1, <3>1
    <2>13. r'[m] \in Field
        BY <2>11, <2>12, FieldType
    <2>14. msg[chained + 1] = word
        BY DEF word
    <2> QED BY <2>2, <2>5, <2>11, <2>13, <2>14
<1>4. r' \in [Mimc!Messages -> Field]
    BY <1>1, <1>3
<1>5. chained' < Blocks => \A m \in Mimc!Messages :
            in_x'[m] = in_msgs[m][chained' + 1] /\ in_x'[m] \in Nat
    <2>1. chained' < Blocks => chained' + 1 \in 1..Blocks
        BY <1>1, <1>2
    <2> QED BY <1>1, <1>2, <2>1
<1>6. in_x' \in [Mimc!Messages -> Nat]
    BY <1>1, <1>2, <1>5
<1>7. chained' \in 0..Blocks /\ rounds' \in 0..round_count /\ round_count - rounds' = 0
    BY <1>1, <1>2
<1>8. Mimc!AgreesWithDigest'
    <2>1. \A msg : Mimc!Digest(msg)' = Mimc!Digest(msg)
        BY <1>1, GivenSame
    <2>2. \A m \in Mimc!Messages : r'[m] = Mimc!Digest(in_msgs[m])'[chained']
        BY <1>1, <1>3, <2>1
    <2> QED BY <1>1, <2>2 DEF Mimc!AgreesWithDigest
<1>9. ASSUME NEW m \in Mimc!Messages, chained' < Blocks
      PROVE  in_x'[m] % localQ = Reference(m)' % localQ
    <2> DEFINE w == in_msgs[m][chained' + 1] % localQ
               key == r'[m]
    <2>1. w \in Field /\ in_x'[m] % localQ = w
        BY <1>5, <1>9, FieldType
    <2>2. Reference(m)' = Mimc!Cipher(w, key)[0]
        BY <1>1, <1>7 DEF Reference, Mimc!Cipher, Mimc!Fifth
    <2>3. key \in Nat
        BY <1>3, FieldType
    <2> HIDE DEF w, key
    <2>4. w \in Nat
        BY <2>1, FieldType
    <2>5. Mimc!Cipher(w, key)[0] = w
        BY <1>2, <2>3, <2>4, CipherStep
    <2> QED BY <2>1, <2>2, <2>5, FieldType
<1>10. Mimc!Permutes'
    <2>1. chained' < Blocks => /\ in_x'[1] = in_msgs[1][chained' + 1]
                               /\ in_x'[2] = in_msgs[2][chained' + 1]
        BY <1>5 DEF Mimc!Messages
    <2> QED BY <1>1, <2>1 DEF Mimc!Permutes
<1>11. seeds' \in [1..round_count -> Field] /\ in_msgs' \in [Mimc!Messages -> [1..Blocks -> Words]]
    BY <1>1, <1>2
<1> QED BY <1>4, <1>6, <1>7, <1>8, <1>9, <1>10, <1>11 DEF HashInv

\* A step that hashes nothing.
LEMMA IdleStep ==
    ASSUME HashInv, UNCHANGED <<seeds, in_msgs, chained, r, rounds, in_x>>
    PROVE  HashInv'
<1>1. Mimc!AgreesWithDigest'
    <2>1. \A msg : Mimc!Digest(msg)' = Mimc!Digest(msg)
        BY GivenSame
    <2>2. \A m \in Mimc!Messages : r'[m] = Mimc!Digest(in_msgs[m])'[chained']
        BY <2>1 DEF HashInv, Mimc!AgreesWithDigest
    <2> QED BY <2>2 DEF Mimc!AgreesWithDigest
<1>2. \A m \in Mimc!Messages : Reference(m)' = Reference(m)
    BY DEF Reference, Mimc!Cipher, Mimc!Fifth
<1>3. Mimc!Permutes'
    BY DEF HashInv, Mimc!Permutes
<1> QED BY <1>1, <1>2, <1>3 DEF HashInv

LEMMA HashNext ==
    ASSUME HashInv, Mimc!Next
    PROVE  HashInv'
<1>1. CASE Mimc!Round
    BY <1>1, RoundStep
<1>2. CASE Mimc!Chain
    <2>1. CASE reverted'
        <3>1. UNCHANGED <<seeds, in_msgs, chained, r, rounds, in_x>>
            BY <1>2, <2>1 DEF Mimc!Chain, Mimc!given
        <3> QED BY <3>1, IdleStep
    <2>2. CASE ~reverted'
        BY <1>2, <2>2, ChainStep
    <2> QED BY <2>1, <2>2
<1> QED BY <1>1, <1>2 DEF Mimc!Next

\* The contract's state while it hashes.
HashedInv == part = "hash" => HashInv

THEOREM HashInvariant == FoundationsSpec => []HashedInv
<1>1. FoundationsInit => HashedInv
    BY InitHash DEF FoundationsInit, HashedInv
<1>2. HashedInv /\ [FoundationsNext]_allVars => HashedInv'
    <2> SUFFICES ASSUME HashedInv, [FoundationsNext]_allVars, part' = "hash" PROVE HashInv'
        BY DEF HashedInv
    <2>1. part = "hash" /\ HashInv
        BY DEF FoundationsNext, allVars, HashedInv
    <2>2. Mimc!Next \/ UNCHANGED hashVars
        BY <2>1 DEF FoundationsNext, allVars, Aggregate, Slash, VerifyProof, HashWords, GrowFour, GrowEight
    <2>3. UNCHANGED hashVars => UNCHANGED <<seeds, in_msgs, chained, r, rounds, in_x>>
        BY DEF hashVars
    <2> QED BY <2>1, <2>2, <2>3, HashNext, IdleStep
<1> QED BY <1>1, <1>2, PTL DEF FoundationsSpec

\* After each word MiMC.sol has what gnark's digest has, for any number of words
\* and rounds and for words beyond the field: contract and node hash alike.
THEOREM ContractHashesAsNode == FoundationsSpec => []HashAgrees
<1>1. HashedInv => HashAgrees
    BY DEF HashedInv, HashInv, HashAgrees
<1> QED BY <1>1, HashInvariant, PTL

\* Under one key two words that differ in the field differ after every round.
THEOREM RoundsLoseNothing == FoundationsSpec => []RoundsPermute
<1>1. HashedInv => RoundsPermute
    BY DEF HashedInv, HashInv, RoundsPermute
<1> QED BY <1>1, HashInvariant, PTL
----------------------------------------------------------------------------
(* The trees.  The proofs of module MerkleTreeProofs, for the two sizes. *)

SmallTree == INSTANCE MerkleTreeProofs WITH Levels <- 2, root <- treeRoot
LargeTree == INSTANCE MerkleTreeProofs WITH Levels <- 3, root <- treeRoot

LEMMA SmallSame ==
    /\ Four!Init => SmallTree!Init
    /\ Four!Next => SmallTree!Next
    /\ SmallTree!RootCommits => Four!RootCommits
    /\ SmallTree!VerifyExact => Four!VerifyExact
<1>1. Four!Init => SmallTree!Init
    BY Zenon DEF Four!Init, SmallTree!Init, Four!zeros, SmallTree!zeros, Four!Zero,
           SmallTree!Zero, Four!Positions, SmallTree!Positions, Four!LeafCount,
           SmallTree!LeafCount, Four!Span, SmallTree!Span, Four!hashLeftRight,
           SmallTree!hashLeftRight
<1>2. Four!Next => SmallTree!Next
    BY Zenon DEF Four!insert, SmallTree!insert, Four!update, SmallTree!update, Four!setRoot,
           SmallTree!setRoot, Four!Next, SmallTree!Next, Four!zeros, SmallTree!zeros,
           Four!Zero, SmallTree!Zero, Four!Positions, SmallTree!Positions,
           Four!LeafCount, SmallTree!LeafCount, Four!Span, SmallTree!Span,
           Four!hashLeftRight, SmallTree!hashLeftRight, Four!InsertPath,
           SmallTree!InsertPath, Four!FromRight, SmallTree!FromRight, Four!Above,
           SmallTree!Above, Four!Leaves, SmallTree!Leaves, Four!Leaf, SmallTree!Leaf,
           Four!verify, SmallTree!verify, Four!computeRootFromPath,
           SmallTree!computeRootFromPath, Four!OnLeft, SmallTree!OnLeft, Four!SiblingsOf,
           SmallTree!SiblingsOf, Four!HelperOf, SmallTree!HelperOf, Four!Sibling,
           SmallTree!Sibling, Four!Subtree, SmallTree!Subtree, Four!TreeRoot,
           SmallTree!TreeRoot
<1>3. SmallTree!RootCommits => Four!RootCommits
    BY Zenon DEF Four!RootCommits, SmallTree!RootCommits, Four!TreeRoot, SmallTree!TreeRoot,
           Four!Subtree, SmallTree!Subtree, Four!hashLeftRight, SmallTree!hashLeftRight
<1>4. SmallTree!VerifyExact => Four!VerifyExact
    BY Zenon DEF Four!VerifyExact, SmallTree!VerifyExact, Four!PositionOf,
           SmallTree!PositionOf, Four!Known, SmallTree!Known, Four!Leaves,
           SmallTree!Leaves, Four!Leaf, SmallTree!Leaf, Four!verify, SmallTree!verify,
           Four!computeRootFromPath, SmallTree!computeRootFromPath, Four!OnLeft,
           SmallTree!OnLeft, Four!SiblingsOf, SmallTree!SiblingsOf, Four!HelperOf,
           SmallTree!HelperOf, Four!Subtree, SmallTree!Subtree, Four!zeros,
           SmallTree!zeros, Four!Zero, SmallTree!Zero, Four!hashLeftRight,
           SmallTree!hashLeftRight, Four!Above, SmallTree!Above, Four!Sibling,
           SmallTree!Sibling, Four!Span, SmallTree!Span, Four!Positions,
           SmallTree!Positions, Four!LeafCount, SmallTree!LeafCount, Four!FromRight,
           SmallTree!FromRight
<1> QED BY <1>1, <1>2, <1>3, <1>4

LEMMA LargeSame ==
    /\ Eight!Init => LargeTree!Init
    /\ Eight!Next => LargeTree!Next
    /\ LargeTree!RootCommits => Eight!RootCommits
<1>1. Eight!Init => LargeTree!Init
    BY Zenon DEF Eight!Init, LargeTree!Init, Eight!zeros, LargeTree!zeros, Eight!Zero,
           LargeTree!Zero, Eight!Positions, LargeTree!Positions, Eight!LeafCount,
           LargeTree!LeafCount, Eight!Span, LargeTree!Span, Eight!hashLeftRight,
           LargeTree!hashLeftRight
<1>2. Eight!Next => LargeTree!Next
    BY Zenon DEF Eight!insert, LargeTree!insert, Eight!update, LargeTree!update, Eight!setRoot,
           LargeTree!setRoot, Eight!Next, LargeTree!Next, Eight!zeros, LargeTree!zeros,
           Eight!Zero, LargeTree!Zero, Eight!Positions, LargeTree!Positions,
           Eight!LeafCount, LargeTree!LeafCount, Eight!Span, LargeTree!Span,
           Eight!hashLeftRight, LargeTree!hashLeftRight, Eight!InsertPath,
           LargeTree!InsertPath, Eight!FromRight, LargeTree!FromRight, Eight!Above,
           LargeTree!Above, Eight!Leaves, LargeTree!Leaves, Eight!Leaf, LargeTree!Leaf,
           Eight!verify, LargeTree!verify, Eight!computeRootFromPath,
           LargeTree!computeRootFromPath, Eight!OnLeft, LargeTree!OnLeft,
           Eight!SiblingsOf, LargeTree!SiblingsOf, Eight!HelperOf, LargeTree!HelperOf,
           Eight!Sibling, LargeTree!Sibling, Eight!Subtree, LargeTree!Subtree,
           Eight!TreeRoot, LargeTree!TreeRoot
<1>3. LargeTree!RootCommits => Eight!RootCommits
    BY Zenon DEF Eight!RootCommits, LargeTree!RootCommits, Eight!TreeRoot, LargeTree!TreeRoot,
           Eight!Subtree, LargeTree!Subtree, Eight!hashLeftRight, LargeTree!hashLeftRight
<1> QED BY <1>1, <1>2, <1>3

\* Either tree keeps its invariant.
TreesInv ==
    /\ part = "four" => SmallTree!TreeInv
    /\ part = "eight" => LargeTree!TreeInv

LEMMA LevelsFit == SmallTree!LevelAssumption /\ LargeTree!LevelAssumption
BY DEF SmallTree!LevelAssumption, LargeTree!LevelAssumption

THEOREM TreesInvariant == FoundationsSpec => []TreesInv
<1>1. FoundationsInit => TreesInv
    <2> SUFFICES ASSUME FoundationsInit PROVE TreesInv
        OBVIOUS
    <2>1. CASE part = "four"
        <3>1. SmallTree!Init
            BY <2>1, SmallSame DEF FoundationsInit
        <3>2. SmallTree!TreeInv
            BY <3>1, LevelsFit, SmallTree!InitTree
        <3> QED BY <2>1, <3>2 DEF TreesInv
    <2>2. CASE part = "eight"
        <3>1. LargeTree!Init
            BY <2>2, LargeSame DEF FoundationsInit
        <3>2. LargeTree!TreeInv
            BY <3>1, LevelsFit, LargeTree!InitTree
        <3> QED BY <2>2, <3>2 DEF TreesInv
    <2> QED BY <2>1, <2>2 DEF TreesInv
<1>2. TreesInv /\ [FoundationsNext]_allVars => TreesInv'
    <2> SUFFICES ASSUME TreesInv, [FoundationsNext]_allVars PROVE TreesInv'
        OBVIOUS
    <2>1. part' = part
        BY DEF FoundationsNext, allVars
    <2>2. CASE part = "four"
        <3>1. Four!Next \/ UNCHANGED treeVars
            BY <2>2 DEF FoundationsNext, allVars, Aggregate, Slash, VerifyProof, HashWords, GrowFour, GrowEight
        <3>2. [SmallTree!Next]_(SmallTree!vars)
            BY <3>1, SmallSame DEF SmallTree!vars, treeVars
        <3>3. SmallTree!TreeInv'
            BY <2>2, <3>2, LevelsFit, SmallTree!NextTree DEF TreesInv
        <3> QED BY <2>1, <2>2, <3>3 DEF TreesInv
    <2>3. CASE part = "eight"
        <3>1. Eight!Next \/ UNCHANGED treeVars
            BY <2>3 DEF FoundationsNext, allVars, Aggregate, Slash, VerifyProof, HashWords, GrowFour, GrowEight
        <3>2. [LargeTree!Next]_(LargeTree!vars)
            BY <3>1, LargeSame DEF LargeTree!vars, treeVars
        <3>3. LargeTree!TreeInv'
            BY <2>3, <3>2, LevelsFit, LargeTree!NextTree DEF TreesInv
        <3> QED BY <2>1, <2>3, <3>3 DEF TreesInv
    <2> QED BY <2>1, <2>2, <2>3 DEF TreesInv
<1> QED BY <1>1, <1>2, PTL DEF FoundationsSpec

\* The stored root stands for the leaves that the contract's model reads off it:
\* MerkleTree.sol never computes a root of another vector.
THEOREM RootsExact == FoundationsSpec => []RootExact
<1>1. TreesInv => RootExact
    BY SmallSame, LargeSame DEF TreesInv, SmallTree!TreeInv, LargeTree!TreeInv, RootExact
<1> QED BY <1>1, TreesInvariant, PTL

\* A path verifies against the stored root for the leaf at the position its
\* helper bits spell and for no other, whichever siblings are given.
THEOREM PathsAreExact == FoundationsSpec => []PathExact
<1>1. TreesInv => PathExact
    BY SmallSame, LevelsFit, SmallTree!PathsExact DEF TreesInv, PathExact
<1> QED BY <1>1, TreesInvariant, PTL
----------------------------------------------------------------------------
(* The aggregation circuit. *)

\* Among the first k validators.
Seen(k, p) == \E j \in 1..k : V[j] = p
PrefixShare(k, p) ==
    AggregatorShare(a, p) + (IF Seen(k, p) THEN ValidatorReward ELSE 0)
Plus(l, amount) == [l EXCEPT !.balance = @ + amount]
Prefix(k) == [p \in Positions |-> Plus(preRoot[p], PrefixShare(k, p))]

Opened(k) ==
    \A j \in 1..k : V[j] \in Occupied(preRoot) /\ Vote(preRoot[V[j]], Request, Hash) \in votes

LoopInv ==
    /\ preRoot \in Roots /\ V \in Validators /\ a \in Positions
    /\ n \in 0..NumAccounts
    /\ stage \in {"indices", "aggregator", "validators", "accepted"}
    /\ stage \in {"indices", "aggregator"} => n = 0
    /\ stage # "indices" => Unlike(preRoot, V)
    /\ stage \in {"validators", "accepted"} =>
        /\ a \in Occupied(preRoot) /\ preRoot[a].index = index
        /\ Opened(n)
        /\ intermediateRoot = Prefix(n)
    /\ stage = "accepted" => n = NumAccounts

USE CapacityAssumption, KeyAssumption, QuorumAssumption, RewardAssumption,
    BalanceAssumption

\* Two credits to one l add up.
LEMMA PlusPlus ==
    ASSUME NEW l \in Account \cup {ZeroLeaf}, NEW x \in Nat, NEW y \in Nat
    PROVE  /\ Plus(Plus(l, x), y) = Plus(l, x + y)
           /\ Plus(l, x).index = l.index /\ Plus(l, x).key = l.key
           /\ Plus(l, 0) = l
<1> DEFINE Sum(amount) == [index |-> l.index, key |-> l.key,
                           balance |-> l.balance + amount]
<1>1. l = [index |-> l.index, key |-> l.key, balance |-> l.balance]
    BY DEF Account, ZeroLeaf
<1>2. l.balance \in Nat
    BY DEF Account, ZeroLeaf
<1>3. \A amount \in Nat : Plus(l, amount) = Sum(amount)
    BY <1>1 DEF Plus
<1>4. Plus(Sum(x), y) = [index |-> l.index, key |-> l.key,
                         balance |-> (l.balance + x) + y]
    BY DEF Plus
<1>5. (l.balance + x) + y = l.balance + (x + y) /\ l.balance + 0 = l.balance
    BY <1>2
<1>6. x + y \in Nat /\ 0 \in Nat
    OBVIOUS
<1> QED BY <1>1, <1>3, <1>4, <1>5, <1>6

\* What a prefix of the loop adds to a l is a number.
LEMMA ShareType ==
    ASSUME NEW k, NEW p
    PROVE  PrefixShare(k, p) \in Nat
BY DEF PrefixShare, AggregatorShare

\* The aggregator's credit is the prefix of no validator.
LEMMA AggregatorStep ==
    ASSUME LoopInv, RewardAggregator
    PROVE  LoopInv'
<1>1. n = 0 /\ n' = 0 /\ UNCHANGED given /\ stage = "aggregator" /\ stage' = "validators"
    BY DEF LoopInv, RewardAggregator
<1>2. a \in Occupied(preRoot) /\ preRoot[a].index = index
    BY DEF RewardAggregator, Opens
<1>3. intermediateRoot' = Prefix(0)
    <2>1. intermediateRoot' = [preRoot EXCEPT ![a] = Plus(preRoot[a], AggregatorReward)]
        BY DEF RewardAggregator, Credited, RootFromPath, Plus
    <2>2. preRoot \in [Positions -> Account \cup {ZeroLeaf}] /\ a \in Positions
        BY DEF LoopInv, Roots
    <2>3. ASSUME NEW p \in Positions
          PROVE  intermediateRoot'[p] = Plus(preRoot[p], PrefixShare(0, p))
        <3>1. PrefixShare(0, p) = IF p = a THEN AggregatorReward ELSE 0
            BY DEF PrefixShare, AggregatorShare, Seen
        <3>2. preRoot[p] = Plus(preRoot[p], 0)
            BY <2>2, PlusPlus
        <3> QED BY <2>1, <2>2, <3>1, <3>2
    <2> QED BY <2>1, <2>2, <2>3 DEF Prefix
<1>4. Prefix(n)' = Prefix(0)
    BY <1>1 DEF Prefix, PrefixShare, Seen, given, AggregatorShare
<1>5. Opened(n)' /\ Unlike(preRoot, V)'
    BY <1>1 DEF Opened, LoopInv, given, Unlike
<1> QED BY <1>1, <1>2, <1>3, <1>4, <1>5 DEF LoopInv, given

\* One more validator, not credited before, extends the prefix.
LEMMA ValidatorStep ==
    ASSUME LoopInv, RewardValidator
    PROVE  LoopInv'
<1> DEFINE p == V[n + 1]
<1>1. /\ stage = "validators" /\ stage' = stage /\ n < NumAccounts /\ n' = n + 1
      /\ UNCHANGED given
    BY DEF RewardValidator
<1>2. n \in Nat /\ n + 1 \in 1..NumAccounts /\ p \in Positions
    BY <1>1 DEF LoopInv, Validators
<1>3. /\ preRoot \in [Positions -> Account \cup {ZeroLeaf}]
      /\ intermediateRoot = Prefix(n)
    BY <1>1 DEF LoopInv, Roots
<1>4. ~Seen(n, p)
    <2>1. SUFFICES ASSUME NEW j \in 1..n, V[j] = p PROVE FALSE
        BY DEF Seen
    <2>2. j \in 1..NumAccounts /\ j # n + 1
        BY <1>1, <1>2
    <2> QED BY <1>1, <1>2, <2>1, <2>2 DEF LoopInv, Unlike
<1>5. intermediateRoot[p] = Plus(preRoot[p], PrefixShare(n, p))
    BY <1>2, <1>3 DEF Prefix
<1>6. p \in Occupied(preRoot) /\ Vote(preRoot[p], Request, Hash) \in votes
    <2>1. /\ intermediateRoot[p].index = preRoot[p].index
          /\ intermediateRoot[p].key = preRoot[p].key
        <3>1. preRoot[p] \in Account \cup {ZeroLeaf} /\ PrefixShare(n, p) \in Nat
            BY <1>2, <1>3, ShareType
        <3>2. 0 \in Nat
            OBVIOUS
        <3>3. /\ Plus(preRoot[p], PrefixShare(n, p)).index = preRoot[p].index
              /\ Plus(preRoot[p], PrefixShare(n, p)).key = preRoot[p].key
            <4> HIDE DEF p
            <4> QED BY <3>1, <3>2, PlusPlus
        <3> QED BY <1>5, <3>3
    <2>2. p \in Occupied(intermediateRoot) /\ Vote(intermediateRoot[p], Request, Hash) \in votes
        BY DEF RewardValidator, Opens, Signed, Base
    <2> QED BY <1>2, <2>1, <2>2 DEF Occupied, Vote
<1>7. Opened(n)
    BY <1>1 DEF LoopInv
<1>8. Opened(n + 1)
    <2>1. \A j \in 1..(n + 1) : j \in 1..n \/ j = n + 1
        BY <1>2
    <2> QED BY <1>6, <1>7, <2>1 DEF Opened
<1>9. intermediateRoot' = Prefix(n + 1)
    <2>1. intermediateRoot' = [Prefix(n) EXCEPT ![p] = Plus(Prefix(n)[p], ValidatorReward)]
        BY <1>3 DEF RewardValidator, Base, Credited, RootFromPath, Plus
    <2>2. ASSUME NEW q \in Positions
          PROVE  intermediateRoot'[q] = Plus(preRoot[q], PrefixShare(n + 1, q))
        <3>1. Prefix(n)[q] = Plus(preRoot[q], PrefixShare(n, q))
            BY DEF Prefix
        <3>2. CASE q = p
            <4>1. Seen(n + 1, p)
                BY <1>2 DEF Seen
            <4>2. PrefixShare(n + 1, p) = PrefixShare(n, p) + ValidatorReward
                BY <1>4, <4>1 DEF PrefixShare, AggregatorShare
            <4>3. intermediateRoot'[p] = Plus(Prefix(n)[p], ValidatorReward)
                BY <1>2, <2>1 DEF Prefix
            <4>4. preRoot[p] \in Account \cup {ZeroLeaf} /\ PrefixShare(n, p) \in Nat
                BY <1>2, <1>3, ShareType
            <4>5. Plus(Plus(preRoot[p], PrefixShare(n, p)), ValidatorReward)
                    = Plus(preRoot[p], PrefixShare(n, p) + ValidatorReward)
                <5> HIDE DEF p
                <5> QED BY <4>4, PlusPlus
            <4> QED BY <3>1, <3>2, <4>2, <4>3, <4>5
        <3>3. CASE q # p
            <4>1. Seen(n + 1, q) <=> Seen(n, q)
                <5>1. \A j \in 1..(n + 1) : j \in 1..n \/ j = n + 1
                    BY <1>2
                <5>2. \A j \in 1..n : j \in 1..(n + 1)
                    BY <1>2
                <5> QED BY <3>3, <5>1, <5>2 DEF Seen
            <4>2. PrefixShare(n + 1, q) = PrefixShare(n, q)
                BY <4>1 DEF PrefixShare
            <4>3. intermediateRoot'[q] = Prefix(n)[q]
                BY <2>1, <3>3 DEF Prefix
            <4> QED BY <3>1, <4>2, <4>3
        <3> QED BY <3>2, <3>3
    <2> HIDE DEF p
    <2> QED BY <2>1, <2>2 DEF Prefix
<1>10. Prefix(n)' = Prefix(n + 1) /\ Opened(n)' = Opened(n + 1)
    BY <1>1 DEF Prefix, PrefixShare, Seen, Opened, given, AggregatorShare
<1>11. n' \in 0..NumAccounts
    BY <1>1, <1>2
<1> QED BY <1>1, <1>8, <1>9, <1>10, <1>11 DEF LoopInv, given

\* After n validators the loop of Define has credited the aggregator and exactly
\* the first n seats, whose signatures it has checked.
THEOREM LoopInvariant == Spec => []LoopInv
<1>1. Init => LoopInv
    <2> SUFFICES ASSUME Init PROVE LoopInv
        OBVIOUS
    <2>1. Leaves \subseteq Account \cup {ZeroLeaf}
        BY DEF Leaves, Account
    <2>2. preRoot \in Roots
        BY <2>1 DEF Init, Roots
    <2> QED BY <2>2 DEF Init, LoopInv
<1>2. LoopInv /\ [Next]_vars => LoopInv'
    <2> SUFFICES ASSUME LoopInv, [Next]_vars PROVE LoopInv'
        OBVIOUS
    <2>1. CASE CheckDuplicates
        BY <2>1 DEF CheckDuplicates, LoopInv, given
    <2>2. CASE Accept
        BY <2>2 DEF Accept, LoopInv, given, Opened, Prefix, PrefixShare, Seen, AggregatorShare
    <2>3. CASE UNCHANGED vars
        BY <2>3 DEF vars, LoopInv, given, Opened, Prefix, PrefixShare, Seen, AggregatorShare
    <2> QED BY <2>1, <2>2, <2>3, AggregatorStep, ValidatorStep DEF Next
<1> QED BY <1>1, <1>2, PTL DEF Spec

\* What the circuit accepts is what the contract's model takes it to accept.
THEOREM CircuitSound == Spec => []Sound
<1>1. LoopInv => Sound
    <2> SUFFICES ASSUME LoopInv, stage = "accepted"
                 PROVE  Statement /\ intermediateRoot = Rewarded(preRoot, a, V)
        BY DEF Sound
    <2>1. Statement
        BY DEF LoopInv, Statement, AggregationProof, Opened
    <2>2. \A p \in Positions : PrefixShare(NumAccounts, p) = AggregatorShare(a, p) + ValidatorShare(V, p)
        BY DEF PrefixShare, Seen, ValidatorShare
    <2>3. Prefix(NumAccounts) = Rewarded(preRoot, a, V)
        BY <2>2 DEF Prefix, Rewarded, Plus
    <2> QED BY <2>1, <2>3 DEF LoopInv
<1> QED BY <1>1, LoopInvariant, PTL

(* The bits of the credited seats. *)

Doubling == [k \in Nat |-> [v \in Nat |-> 2 * v]]
Halving == [k \in Nat |-> [v \in Nat |-> v \div 2]]

LEMMA HalfType ==
    ASSUME NEW v \in Nat
    PROVE  /\ v \div 2 \in Nat
           /\ v = 2 * (v \div 2) \/ v = 2 * (v \div 2) + 1
           /\ v % 2 \in {0, 1} /\ v = 2 * (v \div 2) + (v % 2)
OBVIOUS

LEMMA HalfOf ==
    ASSUME NEW v \in Nat
    PROVE  /\ (2 * v) \div 2 = v /\ (2 * v) % 2 = 0
           /\ (2 * v + 1) \div 2 = v /\ (2 * v + 1) % 2 = 1
OBVIOUS

\* Square and multiply gives what doubling one after the other gives.
LEMMA PowDoubles ==
    ASSUME NEW f, Recurs(f, Nat, 1, Doubling), NEW e \in Nat
    PROVE  Pow(2, e) = f[e]
<1> DEFINE Digit(y) == IF y % 2 = 1 THEN 2 ELSE 1
           Rule(o) == [y \in 0..e |-> IF y = 0 THEN 1
                            ELSE o[y \div 2] * o[y \div 2] * (IF y % 2 = 1 THEN 2 ELSE 1)]
           output == CHOOSE o : o = Rule(o)
           upTo == [y \in 0..e |-> f[y]]
<1>1. f \in [Nat -> Nat] /\ f[0] = 1 /\ \A k \in Nat : f[k + 1] = 2 * f[k]
    BY DEF Recurs, Doubling
<1>2. ASSUME NEW k \in Nat PROVE f[2 * k] = f[k] * f[k]
    <2> DEFINE Holds == {h \in Nat : f[2 * h] = f[h] * f[h]}
    <2>1. 0 \in Holds
        BY <1>1
    <2>2. ASSUME NEW h \in Nat, h \in Holds PROVE h + 1 \in Holds
        <3>1. 2 * h \in Nat /\ 2 * h + 1 \in Nat /\ 2 * (h + 1) = (2 * h + 1) + 1
            OBVIOUS
        <3>2. f[2 * (h + 1)] = 2 * (2 * f[2 * h])
            BY <1>1, <3>1
        <3>3. f[h + 1] = 2 * f[h] /\ f[h] \in Nat /\ f[2 * h] = f[h] * f[h]
            BY <1>1, <2>2
        <3>4. \A x \in Nat : 2 * (2 * (x * x)) = (2 * x) * (2 * x)
            OBVIOUS
        <3> QED BY <3>2, <3>3, <3>4
    <2>3. \A h \in Nat : h \in Holds => h + 1 \in Holds
        BY <2>2
    <2> HIDE DEF Holds
    <2>4. Nat \subseteq Holds
        BY <2>1, <2>3, Induction
    <2> QED BY <2>4 DEF Holds
<1>3. ASSUME NEW y \in Nat PROVE f[y] = f[y \div 2] * f[y \div 2] * Digit(y)
    <2> DEFINE h == y \div 2
    <2>1. h \in Nat /\ ((y = 2 * h /\ y % 2 = 0) \/ (y = 2 * h + 1 /\ y % 2 = 1))
        BY HalfType
    <2> HIDE DEF h
    <2>2. f[2 * h] = f[h] * f[h] /\ f[h] \in Nat /\ 2 * h \in Nat /\ f[h] * f[h] \in Nat
        <3>1. f[h] \in Nat
            BY <1>1, <2>1
        <3>2. \A x \in Nat : x * x \in Nat
            OBVIOUS
        <3> QED BY <1>2, <2>1, <3>1, <3>2
    <2>3. CASE y = 2 * h /\ y % 2 = 0
        <3>1. f[y] = f[h] * f[h] * 1
            BY <2>2, <2>3
        <3> QED BY <2>3, <3>1 DEF h
    <2>4. CASE y = 2 * h + 1 /\ y % 2 = 1
        <3>1. f[y] = f[h] * f[h] * 2
            <4>1. f[2 * h + 1] = 2 * f[2 * h]
                BY <1>1, <2>2
            <4>2. \A z \in Nat : 2 * z = z * 2
                OBVIOUS
            <4>3. 2 * (f[h] * f[h]) = f[h] * f[h] * 2
                BY <2>2, <4>2
            <4> QED BY <2>2, <2>4, <4>1, <4>3
        <3> QED BY <2>4, <3>1 DEF h
    <2> QED BY <2>1, <2>3, <2>4
<1>4. \A y \in 0..e : y # 0 => y \div 2 \in 0..e /\ y \div 2 < y
    OBVIOUS
<1>5. upTo = Rule(upTo)
    <2>1. ASSUME NEW y \in 0..e, y # 0
          PROVE  upTo[y] = upTo[y \div 2] * upTo[y \div 2] * Digit(y)
        <3>1. y \in Nat /\ y \div 2 \in 0..e
            BY <1>4, <2>1
        <3>2. upTo[y] = f[y] /\ upTo[y \div 2] = f[y \div 2]
            BY <3>1
        <3> HIDE DEF Digit, upTo
        <3> QED BY <1>3, <3>1, <3>2
    <2>2. upTo = [y \in 0..e |-> upTo[y]]
        OBVIOUS
    <2>3. upTo[0] = 1
        BY <1>1
    <2> HIDE DEF upTo
    <2> QED BY <2>1, <2>2, <2>3
<1>6. output = Rule(output)
    <2> HIDE DEF Rule, upTo
    <2> QED BY <1>5
<1>7. Pow(2, e) = output[e]
    BY DEF Pow
<1> HIDE DEF output
<1> DEFINE Holds == {k \in Nat : \A y \in 0..e : y <= k => output[y] = f[y]}
<1>8. 0 \in Holds
    BY <1>1, <1>6
<1>9. ASSUME NEW k \in Nat, k \in Holds PROVE k + 1 \in Holds
    <2> SUFFICES ASSUME NEW y \in 0..e, y <= k + 1, y # 0 PROVE output[y] = f[y]
        BY <1>8
    <2>1. y \div 2 \in 0..e /\ y \div 2 <= k
        BY <1>4
    <2>2. output[y \div 2] = f[y \div 2]
        BY <1>9, <2>1
    <2>3. output[y] = output[y \div 2] * output[y \div 2] * Digit(y)
        BY <1>6
    <2> HIDE DEF Digit
    <2> QED BY <1>3, <2>2, <2>3
<1>10. output[e] = f[e]
    <2>1. \A k \in Nat : k \in Holds => k + 1 \in Holds
        BY <1>9
    <2> HIDE DEF Holds
    <2>2. Nat \subseteq Holds
        BY <1>8, <2>1, Induction
    <2>3. e \in Holds
        BY <2>2
    <2> QED BY <2>3 DEF Holds
<1> QED BY <1>7, <1>10

\* Powers of two.
TwoTo == CHOOSE f : Recurs(f, Nat, 1, Doubling)

LEMMA TwoToStep ==
    /\ TwoTo[0] = 1
    /\ \A k \in Nat : TwoTo[k] \in Nat /\ TwoTo[k + 1] = 2 * TwoTo[k] /\ Pow(2, k) = TwoTo[k]
<1>1. \A k, v \in Nat : Doubling[k][v] \in Nat
    BY DEF Doubling
<1>2. \E f : Recurs(f, Nat, 1, Doubling)
    BY <1>1, Recursion
<1>3. Recurs(TwoTo, Nat, 1, Doubling)
    BY <1>2 DEF TwoTo
<1>4. \A k \in Nat : Pow(2, k) = TwoTo[k]
    BY <1>3, PowDoubles
<1> QED BY <1>3, <1>4 DEF Recurs, Doubling

\* A word shifted by one more place.
LEMMA ShiftedStep ==
    ASSUME NEW w \in Nat, NEW k \in Nat
    PROVE  /\ Shifted(w, 0) = w /\ Shifted(w, k) \in Nat
           /\ Shifted(w, k + 1) = Shifted(w \div 2, k)
<1>1. ASSUME NEW v \in Nat PROVE \E f : Recurs(f, Nat, v, Halving)
    <2>1. \A j, x \in Nat : Halving[j][x] \in Nat
        BY DEF Halving
    <2> QED BY <2>1, Recursion
<1>2. ASSUME NEW v \in Nat, NEW f, Recurs(f, Nat, v, Halving), NEW s \in Nat
      PROVE  Shifted(v, s) = f[s]
    <2> DEFINE Rule(o) == [j \in 0..s |-> IF j = 0 THEN v ELSE o[j - 1] \div 2]
               rest == CHOOSE o : o = Rule(o)
               upTo == [j \in 0..s |-> f[j]]
    <2>1. f[0] = v /\ \A j \in Nat : f[j] \in Nat /\ f[j + 1] = f[j] \div 2
        BY <1>2 DEF Recurs, Halving
    <2>2. \A j \in 0..s : j # 0 => j - 1 \in 0..s /\ j - 1 \in Nat /\ (j - 1) + 1 = j
        OBVIOUS
    <2>3. upTo = Rule(upTo)
        <3>1. ASSUME NEW j \in 0..s, j # 0 PROVE f[j] = f[j - 1] \div 2
            BY <2>1, <2>2, <3>1
        <3> QED BY <2>1, <2>2, <3>1
    <2>4. rest = Rule(rest)
        <3> HIDE DEF Rule, upTo
        <3> QED BY <2>3
    <2>5. Shifted(v, s) = rest[s]
        BY DEF Shifted
    <2> HIDE DEF rest
    <2> DEFINE Holds == {j \in Nat : j <= s => rest[j] = f[j]}
    <2>6. 0 \in Holds
        <3>1. 0 \in 0..s
            OBVIOUS
        <3>2. rest[0] = v
            BY <2>4, <3>1
        <3> QED BY <2>1, <3>2
    <2>7. ASSUME NEW j \in Nat, j \in Holds PROVE j + 1 \in Holds
        <3> SUFFICES ASSUME j + 1 <= s PROVE rest[j + 1] = f[j + 1]
            OBVIOUS
        <3>1. j + 1 \in 0..s /\ j + 1 # 0 /\ (j + 1) - 1 = j /\ j <= s
            OBVIOUS
        <3>2. rest[j + 1] = rest[(j + 1) - 1] \div 2
            BY <2>4, <3>1
        <3> QED BY <2>1, <2>7, <3>1, <3>2
    <2>8. \A j \in Nat : j \in Holds => j + 1 \in Holds
        BY <2>7
    <2> HIDE DEF Holds
    <2>9. Nat \subseteq Holds
        BY <2>6, <2>8, Induction
    <2>10. s \in Holds
        BY <2>9
    <2> QED BY <2>5, <2>10 DEF Holds
<1>3. PICK f : Recurs(f, Nat, w, Halving)
    BY <1>1
<1>4. w \div 2 \in Nat
    BY HalfType
<1>5. PICK g : Recurs(g, Nat, w \div 2, Halving)
    BY <1>1, <1>4
<1>6. /\ f[0] = w /\ \A j \in Nat : f[j] \in Nat /\ f[j + 1] = f[j] \div 2
      /\ g[0] = w \div 2 /\ \A j \in Nat : g[j] \in Nat /\ g[j + 1] = g[j] \div 2
    BY <1>3, <1>5 DEF Recurs, Halving
<1> DEFINE Holds == {j \in Nat : f[j + 1] = g[j]}
<1>7. 0 \in Holds
    BY <1>6
<1>8. \A j \in Nat : j \in Holds => j + 1 \in Holds
    BY <1>6
<1>9. Nat \subseteq Holds
    <2> HIDE DEF Holds
    <2> QED BY <1>7, <1>8, Induction
<1>10. f[k + 1] = g[k] /\ f[k] \in Nat /\ f[0] = w
    BY <1>6, <1>9
<1>11. /\ Shifted(w, 0) = f[0] /\ Shifted(w, k) = f[k] /\ Shifted(w, k + 1) = f[k + 1]
       /\ Shifted(w \div 2, k) = g[k]
    BY <1>2, <1>3, <1>4, <1>5
<1> QED BY <1>10, <1>11

\* Bit s of a word.
BitOf(w, s) == Shifted(w, s) % 2

LEMMA BitStep ==
    ASSUME NEW w \in Nat, NEW s \in Nat
    PROVE  /\ BitOf(w, s) \in {0, 1} /\ BitOf(w, 0) = w % 2
           /\ BitOf(w, s + 1) = BitOf(w \div 2, s)
BY ShiftedStep, HalfType DEF BitOf

LEMMA ZeroBits ==
    ASSUME NEW s \in Nat
    PROVE  BitOf(0, s) = 0
<1> DEFINE Holds == {k \in Nat : BitOf(0, k) = 0}
<1>1. 0 \in Nat /\ 0 \div 2 = 0 /\ 0 % 2 = 0
    OBVIOUS
<1>2. 0 \in Holds
    BY <1>1, BitStep
<1>3. \A k \in Nat : k \in Holds => k + 1 \in Holds
    BY <1>1, BitStep
<1>4. Nat \subseteq Holds
    <2> HIDE DEF Holds
    <2> QED BY <1>2, <1>3, Induction
<1> QED BY <1>4

\* A power of two that is added where a word has no bit sets this bit only.
LEMMA SetBit ==
    ASSUME NEW e \in Nat, NEW word \in Nat, BitOf(word, e) = 0, NEW place \in Nat
    PROVE  BitOf(word + TwoTo[e], place) = IF place = e THEN 1 ELSE BitOf(word, place)
<1> DEFINE Sets(k) == \A w, s \in Nat :
                BitOf(w, k) = 0 =>
                    BitOf(w + TwoTo[k], s) = IF s = k THEN 1 ELSE BitOf(w, s)
           Holds == {k \in Nat : Sets(k)}
<1>1. 0 \in Holds
    <2> SUFFICES ASSUME NEW w \in Nat, NEW s \in Nat, BitOf(w, 0) = 0
                 PROVE  BitOf(w + TwoTo[0], s) = IF s = 0 THEN 1 ELSE BitOf(w, s)
        OBVIOUS
    <2> DEFINE h == w \div 2
    <2>1. w % 2 = 0
        BY BitStep
    <2>2. h \in Nat /\ w = 2 * h
        BY <2>1, HalfType
    <2> HIDE DEF h
    <2>3. (w + 1) \div 2 = h /\ (w + 1) % 2 = 1 /\ w + 1 \in Nat
        BY <2>2, HalfOf
    <2>4. TwoTo[0] = 1
        BY TwoToStep
    <2>5. CASE s = 0
        <3>1. BitOf(w + 1, 0) = 1
            BY <2>3, BitStep
        <3> QED BY <2>4, <2>5, <3>1
    <2>6. CASE s # 0
        <3>1. s - 1 \in Nat /\ (s - 1) + 1 = s
            BY <2>6
        <3>2. BitOf(w + 1, (s - 1) + 1) = BitOf(h, s - 1)
            BY <2>3, <3>1, BitStep
        <3>3. BitOf(w, (s - 1) + 1) = BitOf(h, s - 1)
            BY <3>1, BitStep DEF h
        <3> QED BY <2>4, <2>6, <3>1, <3>2, <3>3
    <2> QED BY <2>5, <2>6
<1>2. ASSUME NEW k \in Nat, k \in Holds PROVE k + 1 \in Holds
    <2> SUFFICES ASSUME NEW w \in Nat, NEW s \in Nat, BitOf(w, k + 1) = 0
                 PROVE  BitOf(w + TwoTo[k + 1], s) = IF s = k + 1 THEN 1 ELSE BitOf(w, s)
        OBVIOUS
    <2> DEFINE h == w \div 2
               d == w % 2
               p == TwoTo[k]
    <2>1. h \in Nat /\ d \in {0, 1} /\ w = 2 * h + d
        BY HalfType
    <2>2. BitOf(h, k) = 0
        BY BitStep
    <2>3. p \in Nat /\ TwoTo[k + 1] = 2 * p
        BY TwoToStep
    <2>4. ASSUME NEW t \in Nat
          PROVE  BitOf(h + p, t) = IF t = k THEN 1 ELSE BitOf(h, t)
        <3> HIDE DEF h
        <3> QED BY <1>2, <2>1, <2>2
    <2>5. BitOf(w, 0) = d /\ \A t \in Nat : BitOf(w, t + 1) = BitOf(h, t)
        BY BitStep
    <2> HIDE DEF h, d, p
    <2>6. w + TwoTo[k + 1] = 2 * (h + p) + d /\ h + p \in Nat /\ w + TwoTo[k + 1] \in Nat
        BY <2>1, <2>3
    <2>7. (w + TwoTo[k + 1]) \div 2 = h + p /\ (w + TwoTo[k + 1]) % 2 = d
        <3>1. ASSUME NEW x \in Nat PROVE (2 * x + d) \div 2 = x /\ (2 * x + d) % 2 = d
            BY <2>1, HalfOf
        <3> QED BY <2>6, <3>1
    <2> DEFINE sum == w + TwoTo[k + 1]
    <2>8. sum \in Nat /\ h + p \in Nat /\ sum \div 2 = h + p /\ sum % 2 = d
        BY <2>6, <2>7
    <2> HIDE DEF sum
    <2>9. BitOf(sum, 0) = d /\ \A t \in Nat : BitOf(sum, t + 1) = BitOf(h + p, t)
        <3>1. \A t \in Nat : BitOf(sum, 0) = sum % 2 /\ BitOf(sum, t + 1) = BitOf(sum \div 2, t)
            BY <2>8, BitStep
        <3>2. 0 \in Nat
            OBVIOUS
        <3> QED BY <2>8, <3>1, <3>2
    <2>10. CASE s = 0
        <3>1. BitOf(w + TwoTo[k + 1], 0) = d
            BY <2>9 DEF sum
        <3>2. s # k + 1
            BY <2>10
        <3> QED BY <2>5, <2>10, <3>1, <3>2
    <2>11. CASE s # 0
        <3>1. s - 1 \in Nat /\ (s - 1) + 1 = s
            BY <2>11
        <3>2. BitOf(w + TwoTo[k + 1], (s - 1) + 1) = BitOf(h + p, s - 1)
            BY <2>9, <3>1 DEF sum
        <3>3. BitOf(w, (s - 1) + 1) = BitOf(h, s - 1)
            BY <2>5, <3>1
        <3>4. BitOf(h + p, s - 1) = IF s - 1 = k THEN 1 ELSE BitOf(h, s - 1)
            BY <2>4, <3>1
        <3>5. s - 1 = k <=> s = k + 1
            BY <3>1
        <3> QED BY <3>1, <3>2, <3>3, <3>4, <3>5
    <2> QED BY <2>10, <2>11
<1>3. e \in Holds
    <2>1. \A k \in Nat : k \in Holds => k + 1 \in Holds
        BY <1>2
    <2> HIDE DEF Holds
    <2>2. Nat \subseteq Holds
        BY <1>1, <2>1, Induction
    <2> QED BY <2>2
<1> QED BY <1>3

\* A seat index among the first k validators.
Named(k, s) == \E j \in 1..k : preRoot[V[j]].index = s

\* A word without bits from place c on is below the power of two of c.
LEMMA BitsBelow ==
    ASSUME NEW c \in Nat, NEW word \in Nat,
           \A s \in Nat : s >= c => BitOf(word, s) = 0
    PROVE  word < TwoTo[c]
<1> DEFINE Below(k) == \A w \in Nat : (\A s \in Nat : s >= k => BitOf(w, s) = 0) => w < TwoTo[k]
           Holds == {k \in Nat : Below(k)}
\* A word below m without a one anywhere is zero.
<1> DEFINE Zeroes == {m \in Nat : \A w \in Nat : w < m /\ (\A s \in Nat : BitOf(w, s) = 0) => w = 0}
<1>1. 0 \in Zeroes
    OBVIOUS
<1>2. ASSUME NEW m \in Nat, m \in Zeroes PROVE m + 1 \in Zeroes
    <2> SUFFICES ASSUME NEW w \in Nat, w < m + 1, \A s \in Nat : BitOf(w, s) = 0, w # 0
                 PROVE  FALSE
        OBVIOUS
    <2> DEFINE h == w \div 2
    <2>1. h \in Nat /\ w % 2 = 0 /\ w = 2 * h
        <3>1. BitOf(w, 0) = 0 /\ BitOf(w, 0) = w % 2
            BY BitStep
        <3> QED BY <3>1, HalfType
    <2>2. \A s \in Nat : BitOf(h, s) = 0
        <3>1. \A s \in Nat : s + 1 \in Nat
            OBVIOUS
        <3> QED BY <3>1, BitStep
    <2> HIDE DEF h
    <2>3. h < m
        BY <2>1
    <2>4. h = 0
        BY <1>2, <2>1, <2>2, <2>3
    <2> QED BY <2>1, <2>4
<1>3. Nat \subseteq Zeroes
    <2>1. \A m \in Nat : m \in Zeroes => m + 1 \in Zeroes
        BY <1>2
    <2> HIDE DEF Zeroes
    <2> QED BY <1>1, <2>1, Induction
<1>4. 0 \in Holds
    <2> SUFFICES ASSUME NEW w \in Nat, \A s \in Nat : s >= 0 => BitOf(w, s) = 0
                 PROVE  w < TwoTo[0]
        OBVIOUS
    <2>1. w + 1 \in Nat /\ w < w + 1 /\ \A s \in Nat : s >= 0
        OBVIOUS
    <2>2. w = 0
        BY <1>3, <2>1
    <2> QED BY <2>2, TwoToStep
<1>5. ASSUME NEW k \in Nat, k \in Holds PROVE k + 1 \in Holds
    <2> SUFFICES ASSUME NEW w \in Nat, \A s \in Nat : s >= k + 1 => BitOf(w, s) = 0
                 PROVE  w < TwoTo[k + 1]
        OBVIOUS
    <2> DEFINE h == w \div 2
    <2>1. h \in Nat /\ w <= 2 * h + 1
        BY HalfType
    <2>2. ASSUME NEW s \in Nat, s >= k PROVE BitOf(h, s) = 0
        <3>1. s + 1 \in Nat /\ s + 1 >= k + 1
            BY <2>2
        <3> QED BY <3>1, BitStep
    <2> HIDE DEF h
    <2>3. h < TwoTo[k]
        BY <1>5, <2>1, <2>2
    <2>4. TwoTo[k] \in Nat /\ TwoTo[k + 1] = 2 * TwoTo[k]
        BY TwoToStep
    <2> QED BY <2>1, <2>3, <2>4
<1>6. Nat \subseteq Holds
    <2>1. \A k \in Nat : k \in Holds => k + 1 \in Holds
        BY <1>5
    <2> HIDE DEF Holds
    <2> QED BY <1>4, <2>1, Induction
<1> QED BY <1>6

\* A number below the modulus is its own remainder.
LEMMA BelowField ==
    ASSUME NEW word \in Nat, word < SNARK_SCALAR_FIELD
    PROVE  word % SNARK_SCALAR_FIELD = word
<1>1. SNARK_SCALAR_FIELD \in Nat \ {0}
    BY FieldAssumption
<1>2. SNARK_SCALAR_FIELD * 0 + word = word
    BY <1>1
<1>3. (SNARK_SCALAR_FIELD * 0 + word) % SNARK_SCALAR_FIELD = word
    BY <1>1, ModUnique
<1> QED BY <1>2, <1>3

\* The first k exponents are the indices themselves.
Canonical(k) == \A j \in 1..k : digits[j] = preRoot[V[j]].index

\* The bits so far name the seats credited so far, if their exponents were the
\* indices.
BitsInv ==
    /\ validatorBits \in Nat
    /\ digits \in Seq(Nat) /\ Len(digits) = n
    /\ Canonical(n) => \A s \in Nat : BitOf(validatorBits, s) = 1 <=> Named(n, s)

LEMMA BitsStep ==
    ASSUME LoopInv, BitsInv, RewardValidator
    PROVE  BitsInv'
<1> DEFINE p == V[n + 1]
           seat == preRoot[p].index
<1>1. /\ stage = "validators" /\ n < NumAccounts /\ n' = n + 1 /\ UNCHANGED given
      /\ intermediateRoot = Prefix(n) /\ Unlike(preRoot, V)
    BY DEF RewardValidator, LoopInv
<1>2. n \in Nat /\ n + 1 \in 1..NumAccounts /\ p \in Positions
    BY <1>1 DEF LoopInv, Validators
<1>3. preRoot \in [Positions -> Account \cup {ZeroLeaf}]
    BY DEF LoopInv, Roots
<1>4. \A q \in Occupied(preRoot) : preRoot[q].index \in Nat /\ preRoot[q].index < Capacity
    <2>1. \A q \in Occupied(preRoot) : preRoot[q] \in Account
        BY <1>3 DEF Occupied, ZeroLeaf
    <2> QED BY <2>1 DEF Account, Positions
<1>5. PICK e \in Digits(intermediateRoot[p].index) :
            /\ digits' = Append(digits, e)
            /\ validatorBits' = (validatorBits + Pow(2, e)) % SNARK_SCALAR_FIELD
    BY DEF RewardValidator, Base
<1>6. e \in Nat /\ Pow(2, e) = TwoTo[e] /\ TwoTo[e] \in Nat
    <2>1. NbDigits \in Nat
        BY FieldAssumption
    <2>2. 2^NbDigits \in Nat
        <3>1. IsFiniteSet(1..NbDigits) /\ Cardinality(1..NbDigits) = NbDigits
            BY <2>1, FS_Interval
        <3>2. /\ IsFiniteSet(SUBSET (1..NbDigits))
              /\ Cardinality(SUBSET (1..NbDigits)) = 2^Cardinality(1..NbDigits)
            BY <3>1, FS_SUBSET
        <3>3. Cardinality(SUBSET (1..NbDigits)) \in Nat
            BY <3>2, FS_CardinalityType
        <3> QED BY <3>1, <3>2, <3>3
    <2>3. e \in 0..2^NbDigits - 1
        BY DEF Digits
    <2>4. e \in Nat
        BY <2>2, <2>3
    <2> QED BY <2>4, TwoToStep
<1>7. digits' \in Seq(Nat) /\ Len(digits') = n + 1
      /\ digits'[n + 1] = e /\ \A j \in 1..n : digits'[j] = digits[j]
    BY <1>2, <1>5, <1>6 DEF BitsInv
<1> DEFINE sum == validatorBits + TwoTo[e]
<1>8. sum \in Nat /\ validatorBits' = sum % SNARK_SCALAR_FIELD
    BY <1>5, <1>6 DEF BitsInv
<1>9. validatorBits' \in Nat
    <2>1. SNARK_SCALAR_FIELD \in Nat \ {0}
        BY FieldAssumption
    <2> HIDE DEF sum
    <2> QED BY <1>8, <2>1
<1>10. Canonical(n)' <=> /\ e = seat
                         /\ Canonical(n)
    <2>1. preRoot' = preRoot /\ V' = V
        BY <1>1 DEF given
    <2>2. Canonical(n)' <=> \A j \in 1..(n + 1) : digits'[j] = preRoot[V[j]].index
        BY <1>1, <2>1 DEF Canonical
    <2>3. \A j : j \in 1..(n + 1) <=> j \in 1..n \/ j = n + 1
        BY <1>2
    <2> QED BY <1>7, <2>2, <2>3 DEF Canonical
<1>11. \A s \in Nat : Named(n + 1, s) <=> Named(n, s) \/ s = seat
    <2>1. \A j \in 1..(n + 1) : j \in 1..n \/ j = n + 1
        BY <1>2
    <2>2. \A j \in 1..n : j \in 1..(n + 1)
        BY <1>2
    <2>3. n + 1 \in 1..(n + 1)
        BY <1>2
    <2> QED BY <2>1, <2>2, <2>3 DEF Named
<1>12. ~Named(n, seat)
    <2>1. \A j \in 1..n : j \in 1..NumAccounts /\ j # n + 1
        BY <1>1, <1>2
    <2> QED BY <1>1, <1>2, <2>1 DEF Named, Unlike
<1>13. \A s \in Nat : Named(n + 1, s) => s < Capacity
    <2>1. \A j \in 1..(n + 1) : V[j] \in Occupied(preRoot)
        <3>1. Opened(n)'
            BY <1>1, ValidatorStep DEF LoopInv, RewardValidator
        <3> QED BY <1>1, <3>1 DEF Opened, given
    <2> QED BY <1>4, <2>1 DEF Named
<1>14. seat \in Nat
    BY <1>2, <1>3 DEF Account, ZeroLeaf, Positions
<1> HIDE DEF seat, p, sum
<1>15. ASSUME e = seat, Canonical(n), NEW s \in Nat
       PROVE  BitOf(sum, s) = 1 <=> Named(n + 1, s)
    <2>1. BitOf(validatorBits, seat) = 0
        BY <1>12, <1>14, <1>15, BitStep DEF BitsInv
    <2>2. BitOf(sum, s) = IF s = seat THEN 1 ELSE BitOf(validatorBits, s)
        BY <1>14, <1>15, <2>1, SetBit DEF BitsInv, sum
    <2> QED BY <1>11, <1>15, <2>2 DEF BitsInv
<1>16. ASSUME e = seat, Canonical(n)
       PROVE  validatorBits' = sum
    <2>1. \A s \in Nat : s >= Capacity => BitOf(sum, s) = 0
        BY <1>8, <1>13, <1>15, <1>16, BitStep
    <2>2. sum < TwoTo[Capacity]
        BY <1>8, <2>1, BitsBelow
    <2>3. TwoTo[Capacity] <= SNARK_SCALAR_FIELD /\ TwoTo[Capacity] \in Nat
          /\ SNARK_SCALAR_FIELD \in Nat
        BY TwoToStep, FieldAssumption
    <2>4. sum < SNARK_SCALAR_FIELD
        BY <1>8, <2>2, <2>3
    <2> QED BY <1>8, <2>4, BelowField
<1>17. Canonical(n)' => \A s \in Nat : BitOf(validatorBits', s) = 1 <=> Named(n + 1, s)
    BY <1>10, <1>15, <1>16
<1>18. /\ \A s : BitOf(validatorBits, s)' = BitOf(validatorBits', s)
       /\ \A s : Named(n, s)' <=> Named(n + 1, s)
    BY <1>1 DEF BitOf, Shifted, Named, given
<1> QED BY <1>1, <1>7, <1>9, <1>17, <1>18 DEF BitsInv

\* Every credited seat has set its own bit, and no sum carried into another or
\* wrapped around the field: this is what the check for duplicates is for, and
\* it needs a prover that takes the digits of the indices themselves.
THEOREM BitsName == Spec => []BitsNameValidators
<1>1. Init => BitsInv
    <2>1. \A s \in Nat : BitOf(0, s) # 1
        BY ZeroBits
    <2>2. <<>> \in Seq(Nat) /\ Len(<<>>) = 0 /\ 0 \in Nat
        OBVIOUS
    <2>3. \A s : ~Named(0, s)
        BY DEF Named
    <2>4. ASSUME Init PROVE validatorBits = 0 /\ digits = <<>> /\ n = 0
        BY <2>4 DEF Init
    <2>5. ASSUME validatorBits = 0, digits = <<>>, n = 0 PROVE BitsInv
        <3>1. \A s \in Nat : BitOf(validatorBits, s) = 1 <=> Named(n, s)
            BY <2>1, <2>3, <2>5
        <3> QED BY <2>2, <2>5, <3>1 DEF BitsInv
    <2> QED BY <2>4, <2>5
<1>2. LoopInv /\ BitsInv /\ [Next]_vars => BitsInv'
    <2> SUFFICES ASSUME LoopInv, BitsInv, [Next]_vars PROVE BitsInv'
        OBVIOUS
    <2>1. CASE UNCHANGED <<given, n, validatorBits, digits>>
        <3>1. /\ \A s : BitOf(validatorBits, s)' = BitOf(validatorBits, s)
              /\ \A s : Named(n, s)' <=> Named(n, s)
              /\ Canonical(n)' <=> Canonical(n)
            BY <2>1 DEF BitOf, Shifted, Named, Canonical, given
        <3> QED BY <2>1, <3>1 DEF BitsInv
    <2>2. CASE CheckDuplicates
        BY <2>1, <2>2 DEF CheckDuplicates
    <2>3. CASE RewardAggregator
        BY <2>1, <2>3 DEF RewardAggregator
    <2>4. CASE Accept
        BY <2>1, <2>4 DEF Accept
    <2>5. CASE UNCHANGED vars
        BY <2>1, <2>5 DEF vars
    <2> QED BY <2>2, <2>3, <2>4, <2>5, BitsStep DEF Next
<1>3. LoopInv /\ BitsInv => BitsNameValidators
    <2> SUFFICES ASSUME LoopInv, BitsInv, stage = "accepted", CanonicalDigits
                 PROVE  \A s \in Positions : BitOf(validatorBits, s) = 1 <=> Named(NumAccounts, s)
        BY DEF BitsNameValidators, BitOf, Named
    <2> QED BY DEF LoopInv, BitsInv, Positions, Canonical, CanonicalDigits
<1> QED BY <1>1, <1>2, <1>3, LoopInvariant, PTL DEF Spec
----------------------------------------------------------------------------
(* The slashing circuit. *)

Emptied == [preRoot EXCEPT ![accused].balance = 0]

\* What the constraints laid out so far have established.
StageInv ==
    /\ preRoot \in Roots /\ accused \in Positions /\ slasher \in Positions
    /\ stage \in {"accused", "signature", "slash", "slasher", "hashes", "slashed"}
    /\ stage # "accused" => accused \in Occupied(preRoot) /\ leaf = preRoot[accused]
    /\ stage \notin {"accused", "signature"} => Vote(leaf, Request, signedHash) \in votes
    /\ stage = "slasher" => root = Emptied
    /\ stage \in {"hashes", "slashed"} =>
        slasher \in Occupied(preRoot) /\ root = SlashedRoot(preRoot, accused, slasher)
    /\ stage = "slashed" => blockHash # signedHash

USE CapacityAssumption, KeyAssumption, BalanceAssumption

\* A leaf keeps its key when it is emptied.
LEMMA EmptiedOccupied ==
    ASSUME preRoot \in Roots, accused \in Positions
    PROVE  /\ Emptied \in [Positions -> Account \cup {ZeroLeaf}]
           /\ Occupied(Emptied) = Occupied(preRoot)
<1>1. preRoot \in [Positions -> Account \cup {ZeroLeaf}]
    BY DEF Roots
<1>2. ASSUME NEW l \in Account \cup {ZeroLeaf}
      PROVE  /\ [l EXCEPT !.balance = 0] \in Account \cup {ZeroLeaf}
             /\ [l EXCEPT !.balance = 0].key = l.key
    BY DEF Account, ZeroLeaf
<1>3. Emptied = [preRoot EXCEPT ![accused] = [preRoot[accused] EXCEPT !.balance = 0]]
    BY DEF Emptied
<1>4. Emptied \in [Positions -> Account \cup {ZeroLeaf}]
    BY <1>1, <1>2, <1>3
<1>5. \A p \in Positions : Emptied[p].key = preRoot[p].key
    BY <1>1, <1>2, <1>3
<1> QED BY <1>4, <1>5 DEF Occupied

\* The path of the accused leads to the root without its stake.
LEMMA SlashStep ==
    ASSUME StageInv, SlashValidator
    PROVE  StageInv'
<1>1. stage = "slash" /\ stage' = "slasher" /\ UNCHANGED <<slashing, leaf>>
    BY DEF SlashValidator
<1>2. leaf = preRoot[accused] /\ preRoot \in [Positions -> Account \cup {ZeroLeaf}]
    BY <1>1 DEF StageInv, Roots
<1>3. preRoot[accused].balance - preRoot[accused].balance = 0
    <2>1. preRoot[accused].balance \in Nat
        BY <1>2 DEF StageInv, Account, ZeroLeaf
    <2> QED BY <2>1
<1>4. root' = Emptied
    BY <1>2, <1>3 DEF SlashValidator, RootFromPath, Emptied
<1>5. Emptied' = Emptied
    BY <1>1 DEF Emptied, slashing
<1> QED BY <1>1, <1>4, <1>5 DEF StageInv, slashing

\* The slasher's leaf is credited as the emptied root has it.
LEMMA RewardStep ==
    ASSUME StageInv, RewardSlasher
    PROVE  StageInv'
<1>1. stage = "slasher" /\ stage' = "hashes" /\ UNCHANGED <<slashing, leaf>>
    BY DEF RewardSlasher
<1>2. root = Emptied /\ leaf = preRoot[accused]
    BY <1>1 DEF StageInv
<1>3. slasher \in Occupied(preRoot)
    BY <1>2, EmptiedOccupied DEF RewardSlasher, Opens, SlasherBase, StageInv
<1>4. root' = SlashedRoot(preRoot, accused, slasher)
    BY <1>2, EmptiedOccupied DEF RewardSlasher, SlasherBase, RootFromPath, SlashedRoot, Emptied, StageInv
<1>5. /\ SlashedRoot(preRoot, accused, slasher)' = SlashedRoot(preRoot, accused, slasher)
      /\ Occupied(preRoot)' = Occupied(preRoot)
    BY <1>1 DEF slashing, SlashedRoot, Occupied
<1> QED BY <1>1, <1>3, <1>4, <1>5 DEF StageInv, slashing

\* At every stage the constraints so far have established what StageInv says.
THEOREM StageInvariant == SlashingSpec => []StageInv
<1>1. SlashingInit => StageInv
    <2>1. Leaves \subseteq Account \cup {ZeroLeaf}
        BY DEF Leaves, Account
    <2> QED BY <2>1 DEF SlashingInit, StageInv, Roots
<1>2. StageInv /\ [SlashingNext]_slashingVars => StageInv'
    <2> SUFFICES ASSUME StageInv, [SlashingNext]_slashingVars PROVE StageInv'
        OBVIOUS
    <2>1. CASE CheckIncluded
        BY <2>1 DEF CheckIncluded, Opens, StageInv, slashing, Occupied
    <2>2. CASE VerifySignature
        BY <2>2 DEF VerifySignature, AccusedSigned, StageInv, slashing, Occupied, Vote
    <2>3. CASE AcceptSlashing
        BY <2>3 DEF AcceptSlashing, Differs, StageInv, slashing, Occupied, Vote, SlashedRoot
    <2>4. CASE UNCHANGED slashingVars
        BY <2>4 DEF slashingVars, StageInv, slashing, Occupied, Vote, SlashedRoot, Emptied
    <2> QED BY <2>1, <2>2, <2>3, <2>4, SlashStep, RewardStep DEF SlashingNext
<1> QED BY <1>1, <1>2, PTL DEF SlashingSpec

\* What the slashing circuit accepts is what the contract's model takes it to
\* accept: a seat loses exactly what its slasher gains, and only for a signature
\* under another hash than the stored one.
THEOREM SlashingCircuitSound == SlashingSpec => []SlashingSound
<1>1. StageInv => SlashingSound
    <2> SUFFICES ASSUME StageInv, stage = "slashed"
                 PROVE  SlashingStatement /\ root = SlashedRoot(preRoot, accused, slasher)
        BY DEF SlashingSound
    <2> DEFINE v == Vote(leaf, Request, signedHash)
    <2>1. v \in {m \in votes : m.hash = signedHash} /\ v.hash = signedHash
        BY DEF StageInv, Vote
    <2>2. v = Vote(preRoot[accused], Request, v.hash) /\ v.hash # blockHash
        BY <2>1 DEF StageInv, Vote
    <2>3. {accused, slasher} \subseteq Occupied(preRoot)
        BY DEF StageInv
    <2> QED BY <2>1, <2>2, <2>3 DEF SlashingStatement, SlashingProof, StageInv
<1> QED BY <1>1, StageInvariant, PTL
----------------------------------------------------------------------------
(* The verifier. *)

\* The logarithms of the points.
Logs == 0..SNARK_SCALAR_FIELD - 1

LEMMA OrderType ==
    /\ SNARK_SCALAR_FIELD \in Nat \ {0} /\ PRIME_Q \in Nat \ {0}
    /\ Logs \subseteq Nat /\ 0 \in Logs
    /\ \A x \in Nat : x % SNARK_SCALAR_FIELD \in Logs
    /\ \A x \in Logs : x % SNARK_SCALAR_FIELD = x
<1>1. SNARK_SCALAR_FIELD \in Nat \ {0} /\ PRIME_Q \in Nat \ {0}
    BY VerifierAssumption DEF Groth16!OrderAssumption
<1>2. Logs \subseteq Nat /\ 0 \in Logs
    BY <1>1 DEF Logs
<1>3. \A x \in Nat : x % SNARK_SCALAR_FIELD \in Logs
    BY <1>1 DEF Logs
<1>4. ASSUME NEW x \in Logs PROVE x % SNARK_SCALAR_FIELD = x
    <2>1. SNARK_SCALAR_FIELD * 0 + x = x
        BY <1>1, <1>2
    <2>2. (SNARK_SCALAR_FIELD * 0 + x) % SNARK_SCALAR_FIELD = x
        BY <1>1, ModUnique DEF Logs
    <2> QED BY <2>1, <2>2
<1> QED BY <1>1, <1>2, <1>3, <1>4

LEMMA KeyType ==
    /\ Groth16!NumInputs \in Nat
    /\ \A k \in 1..Groth16!NumInputs + 1 : MCKey.IC[k] \in Logs
    /\ MCKey.alfa1 \in Logs /\ MCKey.beta2 \in Logs
    /\ MCKey.gamma2 \in Logs /\ MCKey.delta2 \in Logs
    /\ Scalars \subseteq Logs /\ Inputs \subseteq Nat
<1> DEFINE IC == MCKey.IC
<1>1. /\ IC \in Seq(Logs) /\ Len(IC) > 0
      /\ {MCKey.alfa1, MCKey.beta2, MCKey.gamma2, MCKey.delta2} \subseteq Logs
    BY VerifierAssumption DEF Groth16!KeyAssumption, Logs
<1>2. Scalars \subseteq Logs /\ Inputs \subseteq Nat
    BY VerifierAssumption DEF Groth16!ScalarAssumption, Logs
<1>3. Groth16!NumInputs = Len(IC) - 1
    BY DEF Groth16!NumInputs
<1> HIDE DEF IC
<1>4. Len(IC) \in Nat /\ \A k \in 1..Len(IC) : IC[k] \in Logs
    BY <1>1
<1>5. Groth16!NumInputs \in Nat /\ Groth16!NumInputs + 1 = Len(IC)
    BY <1>1, <1>3, <1>4
<1> QED BY <1>1, <1>2, <1>4, <1>5 DEF IC

LEMMA GroupFacts ==
    /\ DOMAIN Groth16!Point1 = Logs /\ DOMAIN Groth16!Point2 = Logs
    /\ \A s, t \in Logs :
        /\ Groth16!Sum(Groth16!Point1[s], Groth16!Point1[t])
            = Groth16!Point1[(s + t) % SNARK_SCALAR_FIELD]
        /\ Groth16!Point1[s] = Groth16!Point1[t] => s = t
    /\ \A s \in Logs :
        /\ Groth16!Point1[s] \in Groth16!G1
        /\ Groth16!negate(Groth16!Point1[s])
            = Groth16!Point1[(SNARK_SCALAR_FIELD - s) % SNARK_SCALAR_FIELD]
<1>1. DOMAIN Groth16!Point1 = Logs /\ DOMAIN Groth16!Point2 = Logs
    BY DEF Groth16!Point1, Groth16!Point2, Logs
<1> QED BY <1>1, VerifierAssumption DEF Groth16!GroupAssumption, Logs

\* No multiple of the generator is added to nothing.
LEMMA PointZero == Groth16!Point1[0] = Groth16!Infinity
<1> DEFINE p == Groth16!Generator
           Rule(t) == [k \in 0..0 |-> IF k = 0 THEN Groth16!Infinity ELSE Groth16!Sum(t[k - 1], p)]
           times == CHOOSE t : t = Rule(t)
           none == [k \in 0..0 |-> Groth16!Infinity]
<1>1. none = Rule(none)
    <2> HIDE DEF p
    <2>1. \A k \in 0..0 : k = 0
        OBVIOUS
    <2> QED BY <2>1
<1>2. times = Rule(times)
    <2> HIDE DEF Rule, none
    <2> QED BY <1>1
<1>3. Groth16!Point1[0] = Groth16!scalar_mul(p, 0)
    BY OrderType DEF Groth16!Point1, Logs
<1>4. Groth16!scalar_mul(p, 0) = times[0]
    BY DEF Groth16!scalar_mul
<1> HIDE DEF times, p
<1>5. times[0] = Groth16!Infinity
    <2>1. 0 \in 0..0
        OBVIOUS
    <2> QED BY <1>2, <2>1
<1> QED BY <1>3, <1>4, <1>5

\* The loop of scalar_mul multiplies the logarithm.
LEMMA ScalarMul ==
    ASSUME NEW g \in Logs, NEW s \in Nat
    PROVE  Groth16!scalar_mul(Groth16!Point1[g], s)
            = Groth16!Point1[(g * s) % SNARK_SCALAR_FIELD]
<1> DEFINE q == SNARK_SCALAR_FIELD
           p == Groth16!Point1[g]
           Rule(t) == [k \in 0..s |-> IF k = 0 THEN Groth16!Infinity ELSE Groth16!Sum(t[k - 1], p)]
           times == CHOOSE t : t = Rule(t)
           upTo == [k \in 0..s |-> Groth16!Point1[(g * k) % q]]
<1>1. q \in Nat \ {0} /\ g \in Nat /\ Logs \subseteq Nat
    BY OrderType
<1>2. Groth16!Point1[(g * 0) % q] = Groth16!Infinity
    <2>1. g * 0 = 0 /\ 0 % q = 0
        BY <1>1, OrderType
    <2> HIDE DEF q
    <2> QED BY <2>1, PointZero
<1>3. ASSUME NEW k \in Nat, k # 0
      PROVE  Groth16!Sum(Groth16!Point1[(g * (k - 1)) % q], p) = Groth16!Point1[(g * k) % q]
    <2> DEFINE b == g * (k - 1)
    <2>1. b \in Nat /\ b + g = g * k
        <3>1. k - 1 \in Nat
            BY <1>3
        <3>2. \A x, y \in Nat : x * y \in Nat
            OBVIOUS
        <3>3. g * (k - 1) + g = g * k
            BY <1>1, <1>3
        <3> QED BY <1>1, <3>1, <3>2, <3>3
    <2> HIDE DEF b
    <2>2. b % q \in Logs
        BY <2>1, OrderType
    <2>3. Groth16!Sum(Groth16!Point1[b % q], p) = Groth16!Point1[((b % q) + g) % q]
        BY <2>2, GroupFacts
    <2>4. ((b % q) + g) % q = (b + g) % q
        BY <1>1, <2>1, ModAdd
    <2> QED BY <2>1, <2>3, <2>4 DEF b
<1> HIDE DEF p, q
<1>4. upTo = Rule(upTo)
    <2>1. \A k \in 0..s : k # 0 => k - 1 \in 0..s /\ k \in Nat
        OBVIOUS
    <2>2. \A k \in 0..s : upTo[k] = IF k = 0 THEN Groth16!Infinity ELSE Groth16!Sum(upTo[k - 1], p)
        BY <1>2, <1>3, <2>1
    <2>3. upTo = [k \in 0..s |-> upTo[k]]
        OBVIOUS
    <2> QED BY <2>2, <2>3
<1>5. times = Rule(times)
    <2> HIDE DEF Rule, upTo
    <2> QED BY <1>4
<1>6. Groth16!scalar_mul(p, s) = times[s]
    BY DEF Groth16!scalar_mul
<1> HIDE DEF times
<1> DEFINE Holds == {k \in Nat : k <= s => times[k] = Groth16!Point1[(g * k) % q]}
<1>7. 0 \in Holds
    <2>1. 0 \in 0..s
        OBVIOUS
    <2> QED BY <1>2, <1>5, <2>1
<1>8. ASSUME NEW k \in Nat, k \in Holds PROVE k + 1 \in Holds
    <2> SUFFICES ASSUME k + 1 <= s PROVE times[k + 1] = Groth16!Point1[(g * (k + 1)) % q]
        OBVIOUS
    <2>1. k <= s /\ k + 1 \in 0..s /\ k + 1 # 0 /\ (k + 1) - 1 = k /\ k + 1 \in Nat
        OBVIOUS
    <2>2. times[k] = Groth16!Point1[(g * k) % q]
        BY <1>8, <2>1
    <2>3. times[k + 1] = Groth16!Sum(times[k], p)
        BY <1>5, <2>1
    <2>4. Groth16!Sum(Groth16!Point1[(g * ((k + 1) - 1)) % q], p) = Groth16!Point1[(g * (k + 1)) % q]
        BY <1>3, <2>1
    <2> QED BY <2>1, <2>2, <2>3, <2>4
<1>9. s \in Holds
    <2>1. \A k \in Nat : k \in Holds => k + 1 \in Holds
        BY <1>8
    <2> HIDE DEF Holds
    <2>2. Nat \subseteq Holds
        BY <1>7, <2>1, Induction
    <2> QED BY <2>2
<1> QED BY <1>6, <1>9 DEF p, q
----------------------------------------------------------------------------
(* What the loop over the inputs has added. *)

InputType == input \in [1..Groth16!NumInputs -> Inputs]

\* An input times its point of the key, and the sum of the first k of these.
Term(k) == input[k] * MCKey.IC[k + 1]
Terms(k) == [j \in 1..Groth16!NumInputs |-> IF j <= k THEN Term(j) ELSE 0]
UpTo(k) == SumFunction(Terms(k))

LEMMA TermType ==
    ASSUME InputType
    PROVE  /\ \A k \in 1..Groth16!NumInputs : input[k] \in Nat /\ Term(k) \in Nat
           /\ \A k \in Nat : Terms(k) \in [1..Groth16!NumInputs -> Int]
<1> DEFINE N == Groth16!NumInputs
<1>1. N \in Nat
    BY KeyType
<1>2. ASSUME NEW k \in 1..N PROVE input[k] \in Nat /\ Term(k) \in Nat
    <2>1. input[k] \in Nat
        BY KeyType DEF InputType
    <2>2. MCKey.IC[k + 1] \in Nat
        <3>1. k + 1 - 1 = k
            BY <1>2
        <3>2. k \in 1..N + 1 /\ k + 1 \in 1..N + 1
            BY <1>1, <1>2
        <3> QED BY <3>2, KeyType, OrderType
    <2>3. \A x, y \in Nat : x * y \in Nat
        OBVIOUS
    <2> QED BY <2>1, <2>2, <2>3 DEF Term
<1>3. ASSUME NEW k \in Nat PROVE Terms(k) \in [1..N -> Int]
    <2>1. \A j \in 1..N : Term(j) \in Int
        BY <1>2
    <2> HIDE DEF N
    <2> QED BY <2>1 DEF Terms, N
<1> QED BY <1>2, <1>3

LEMMA UpToStep ==
    ASSUME InputType
    PROVE  /\ UpTo(0) = 0
           /\ \A k \in 0..Groth16!NumInputs - 1 : UpTo(k + 1) = UpTo(k) + Term(k + 1)
           /\ Groth16!Weighted = MCKey.IC[1] + UpTo(Groth16!NumInputs)
           /\ UpTo(Groth16!NumInputs) \in Int
<1> DEFINE N == Groth16!NumInputs
<1>1. N \in Nat /\ IsFiniteSet(1..N)
    BY KeyType, FS_Interval
<1>2. \A k \in 1..N : Term(k) \in Nat
    BY TermType
<1>3. \A k \in Nat : Terms(k) \in [1..N -> Int]
    BY TermType
<1>4. \A k \in Nat, j \in 1..N : Terms(k)[j] = IF j <= k THEN Term(j) ELSE 0
    BY DEF Terms
<1>5. UpTo(0) = 0
    <2>1. {} \in SUBSET (1..N) /\ 0 \in Int /\ Cardinality({}) = 0
        BY FS_EmptySet
    <2>2. \A j \in 1..N : Terms(0)[j] = IF j \in {} THEN 0 ELSE 0
        BY <1>1, <1>4
    <2>3. Terms(0) \in [1..N -> Int]
        BY <1>3
    <2> DEFINE D == 1..N
               none == Terms(0)
               T == {}
    <2>4. IsFiniteSet(D) /\ T \in SUBSET D /\ none \in [D -> Int] /\ Cardinality(T) = 0
        BY <1>1, <2>1, <2>3
    <2>5. \A j \in D : none[j] = IF j \in T THEN 0 ELSE 0
        BY <2>2
    <2> HIDE DEF D, none, T
    <2>6. SumFunction(none) = 0 * Cardinality(T)
        BY <2>1, <2>4, <2>5, SumConstant
    <2> QED BY <2>4, <2>6 DEF UpTo, none
<1>6. ASSUME NEW k \in 0..N - 1 PROVE UpTo(k + 1) = UpTo(k) + Term(k + 1)
    <2> DEFINE D == 1..N
               from == Terms(k)
               to == Terms(k + 1)
               c == Term(k + 1)
               last == k + 1
    <2>1. k \in Nat /\ last \in Nat /\ last \in D /\ c \in Nat
        BY <1>1, <1>2
    <2>2. \A j \in D : to[j] = IF j = last THEN from[j] + c ELSE from[j]
        <3> SUFFICES ASSUME NEW j \in D PROVE to[j] = IF j = last THEN from[j] + c ELSE from[j]
            OBVIOUS
        <3>1. /\ to[j] = IF j <= k + 1 THEN Term(j) ELSE 0
              /\ from[j] = IF j <= k THEN Term(j) ELSE 0
            BY <1>4, <2>1
        <3>2. j = last => Term(j) = c
            OBVIOUS
        <3>3. Term(j) \in Nat /\ j \in Nat
            BY <1>2
        <3> HIDE DEF c, to, from
        <3> QED BY <2>1, <3>1, <3>2, <3>3
    <2>3. from \in [D -> Int] /\ to \in [D -> Int] /\ IsFiniteSet(D)
        BY <1>1, <1>3, <2>1
    <2>4. UpTo(k) = SumFunction(from) /\ UpTo(k + 1) = SumFunction(to)
        BY DEF UpTo
    <2> HIDE DEF D, from, to, c, last
    <2>5. c \in Int /\ last \in D
        BY <2>1
    <2>6. SumFunction(to) = SumFunction(from) + c
        BY <2>2, <2>3, <2>5, SumOneMore
    <2> QED BY <2>4, <2>6 DEF c
<1>7. Terms(N) = [k \in 1..N |-> input[k] * MCKey.IC[k + 1]]
    <2>1. \A j \in 1..N : j <= N
        BY <1>1
    <2> HIDE DEF N
    <2> QED BY <2>1 DEF Terms, Term, N
<1>8. Groth16!Weighted = FoldFunction(+, MCKey.IC[1], [k \in 1..N |-> input[k] * MCKey.IC[k + 1]])
    BY Zenon DEF Groth16!Weighted, Groth16!F!FoldFunction, FoldFunction, Groth16!F!FoldFunctionOnSet,
                 FoldFunctionOnSet, MapThenFoldSet, Groth16!F!MapThenFoldSet
<1>9. Groth16!Weighted = FoldFunction(+, MCKey.IC[1], Terms(N))
    BY <1>7, <1>8, Zenon
<1> DEFINE t == Terms(N)
           first == MCKey.IC[1]
<1>10. t \in [1..N -> Int] /\ first \in Int
    <2>1. first \in Int
        <3>1. 1 \in 1..N + 1
            BY <1>1
        <3>2. first \in Logs
            BY <3>1, KeyType
        <3> HIDE DEF first
        <3> QED BY <3>2, OrderType
    <2>2. t \in [1..N -> Int]
        BY <1>1, <1>3
    <2> QED BY <2>1, <2>2
<1>11. Groth16!Weighted = FoldFunction(+, first, t)
    BY <1>9, Zenon
<1>12. UpTo(N) = SumFunction(t)
    BY DEF UpTo
<1> DEFINE D == 1..N
<1> HIDE DEF D, t, first
<1>13. FoldFunction(+, first, t) = first + SumFunction(t) /\ SumFunction(t) \in Int
    <2>1. IsFiniteSet(D) /\ t \in [D -> Int]
        BY <1>1, <1>10 DEF D
    <2>2. FoldFunction(+, first, t) = first + SumFunction(t)
        BY <1>10, <2>1, FoldTotal, Zenon
    <2>3. SumFunction(t) \in Int
        BY <2>1, SumType
    <2> QED BY <2>2, <2>3, Zenon
<1>14. Groth16!Weighted = first + SumFunction(t)
    BY <1>11, <1>13, Zenon
<1>15. Groth16!Weighted = MCKey.IC[1] + UpTo(N) /\ UpTo(N) \in Int
    BY <1>12, <1>13, <1>14, Zenon DEF first
<1>16. \A k \in 0..N - 1 : UpTo(k + 1) = UpTo(k) + Term(k + 1)
    BY <1>6
<1> HIDE DEF N
<1> QED BY <1>5, <1>15, <1>16 DEF N
----------------------------------------------------------------------------
(* What the pairing tells of the points. *)

LEMMA LogarithmFirst ==
    ASSUME NEW s \in Logs
    PROVE  Groth16!Logarithm(Groth16!Point1, Groth16!Point1[s]) = {s}
<1>1. \A t \in Logs : Groth16!Point1[t] = Groth16!Point1[s] <=> t = s
    BY GroupFacts
<1> QED BY <1>1, GroupFacts DEF Groth16!Logarithm

\* The first coordinate of a point of the second group spells its logarithm.
LEMMA SecondPoint ==
    ASSUME NEW s \in Logs
    PROVE  /\ Groth16!Point2[s].X = <<s % PRIME_Q, s \div PRIME_Q>>
           /\ s = PRIME_Q * (s \div PRIME_Q) + (s % PRIME_Q)
           /\ Groth16!Below2(Groth16!Point2[s])
<1> DEFINE q == PRIME_Q
<1>1. q \in Nat \ {0} /\ s \in Nat /\ s < q * q
    <2>1. SNARK_SCALAR_FIELD <= q * q
        BY VerifierAssumption DEF Groth16!GroupAssumption
    <2>2. q \in Nat \ {0} /\ s \in Nat /\ s < SNARK_SCALAR_FIELD /\ SNARK_SCALAR_FIELD \in Nat
        BY OrderType DEF Logs
    <2>3. \A x \in Nat : x * x \in Nat
        OBVIOUS
    <2>4. q * q \in Nat
        BY <2>2, <2>3
    <2> HIDE DEF q
    <2> QED BY <2>1, <2>2, <2>4
<1>2. Groth16!Point2[s] = [X |-> <<s % q, s \div q>>, Y |-> <<(s + 1) % q, (2 * s) % q>>]
    BY DEF Groth16!Point2, Logs
<1> HIDE DEF q
<1>3. s = q * (s \div q) + (s % q)
    <2>1. s % q = s - q * (s \div q) /\ s \div q \in Nat
        BY <1>1, DivMod
    <2>2. q * (s \div q) \in Nat
        BY <1>1, <2>1
    <2> QED BY <1>1, <2>1, <2>2
<1>4. /\ s % q \in 0..q - 1 /\ (s + 1) % q \in 0..q - 1 /\ (2 * s) % q \in 0..q - 1
    BY <1>1
<1>5. s \div q \in 0..q - 1
    <2> DEFINE d == s \div q
    <2>1. d \in Nat /\ s = q * d + (s % q) /\ s % q \in Nat
        <3>1. s \div q \in Nat /\ s % q \in Nat
            BY <1>1
        <3> QED BY <1>3, <3>1
    <2> HIDE DEF d
    <2>2. q * d <= s
        <3>1. q * d \in Nat
            BY <1>1, <2>1
        <3> QED BY <2>1, <3>1
    <2>3. d >= q => q * d >= q * q
        BY <1>1, <2>1
    <2> QED BY <1>1, <2>1, <2>2, <2>3 DEF d
<1> QED BY <1>2, <1>3, <1>4, <1>5 DEF Groth16!Below2, Groth16!Field, q

LEMMA LogarithmSecond ==
    ASSUME NEW s \in Logs
    PROVE  Groth16!Logarithm(Groth16!Point2, Groth16!Point2[s]) = {s}
<1>1. ASSUME NEW t \in Logs, Groth16!Point2[t] = Groth16!Point2[s] PROVE t = s
    <2>1. <<t % PRIME_Q, t \div PRIME_Q>> = <<s % PRIME_Q, s \div PRIME_Q>>
        BY <1>1, SecondPoint
    <2>2. t % PRIME_Q = s % PRIME_Q /\ t \div PRIME_Q = s \div PRIME_Q
        BY <2>1
    <2> QED BY <2>2, SecondPoint
<1> QED BY <1>1, GroupFacts DEF Groth16!Logarithm

\* A coordinate that was lifted is no element of the field.
LEMMA LiftedOut ==
    ASSUME NEW s \in Logs, NEW l \in Lifts
    PROVE  /\ Groth16!Below([X |-> Groth16!Point1[s].X, Y |-> Groth16!Point1[s].Y + l]) <=> l = 0
           /\ Groth16!Below(Groth16!Point1[s])
           /\ l = 0 => [X |-> Groth16!Point1[s].X, Y |-> Groth16!Point1[s].Y + l] = Groth16!Point1[s]
<1> DEFINE p == Groth16!Point1[s]
<1>1. PRIME_Q \in Nat \ {0} /\ l \in Nat /\ l % PRIME_Q = 0
    BY OrderType, VerifierAssumption DEF Groth16!LiftAssumption
<1>2. p \in [X : Groth16!Field, Y : Groth16!Field]
    BY <1>1, GroupFacts DEF Groth16!G1, Groth16!Infinity, Groth16!Field
<1> HIDE DEF p
<1>3. p.X \in 0..PRIME_Q - 1 /\ p.Y \in 0..PRIME_Q - 1 /\ p = [X |-> p.X, Y |-> p.Y]
    BY <1>2 DEF Groth16!Field
<1>4. l # 0 => l >= PRIME_Q
    <2> SUFFICES ASSUME l < PRIME_Q PROVE l = 0
        BY <1>1
    <2>1. (PRIME_Q * 0 + l) % PRIME_Q = l
        BY <1>1, ModUnique
    <2>2. PRIME_Q * 0 + l = l
        BY <1>1
    <2> QED BY <1>1, <2>1, <2>2
<1>5. p.Y + l \in 0..PRIME_Q - 1 <=> l = 0
    BY <1>1, <1>3, <1>4
<1>6. l = 0 => p.Y + l = p.Y
    BY <1>1, <1>3
<1> QED BY <1>3, <1>5, <1>6 DEF Groth16!Below, Groth16!Field, p

\* Four pairs of points with these logarithms, and the product of their pairings.
PointPairs(left, right) ==
    << <<Groth16!Point1[left[1]], Groth16!Point2[right[1]]>>,
       <<Groth16!Point1[left[2]], Groth16!Point2[right[2]]>>,
       <<Groth16!Point1[left[3]], Groth16!Point2[right[3]]>>,
       <<Groth16!Point1[left[4]], Groth16!Point2[right[4]]>> >>
Product(left, right) ==
    left[1] * right[1] + left[2] * right[2] + left[3] * right[3] + left[4] * right[4]

\* Of points, the pairing is the product of their logarithms.
LEMMA PairingProduct ==
    ASSUME NEW left, NEW right, \A k \in 1..4 : left[k] \in Logs /\ right[k] \in Logs
    PROVE  Groth16!pairing(PointPairs(left, right))
            = IF Product(left, right) % SNARK_SCALAR_FIELD = 0 THEN "true" ELSE "false"
<1> DEFINE pairs == PointPairs(left, right)
           logs == [k \in DOMAIN pairs |->
                       Groth16!Logarithm(Groth16!Point1, pairs[k][1])
                           \X Groth16!Logarithm(Groth16!Point2, pairs[k][2])]
           product(k) == LET pair == CHOOSE pair \in logs[k] : TRUE IN pair[1] * pair[2]
<1>1. /\ DOMAIN pairs = {1, 2, 3, 4}
      /\ \A k \in {1, 2, 3, 4} : pairs[k] = <<Groth16!Point1[left[k]], Groth16!Point2[right[k]]>>
    BY DEF PointPairs
<1>2. Groth16!pairing(pairs) =
        IF \E k \in DOMAIN pairs : logs[k] = {} THEN "reverted"
        ELSE IF (product(1) + product(2) + product(3) + product(4)) % SNARK_SCALAR_FIELD = 0
             THEN "true" ELSE "false"
    BY Zenon DEF Groth16!pairing
<1> HIDE DEF pairs
<1>3. ASSUME NEW k \in DOMAIN pairs PROVE logs[k] = {<<left[k], right[k]>>}
    <2> DEFINE s == left[k]
               t == right[k]
    <2>1. /\ s \in Logs /\ t \in Logs
          /\ pairs[k][1] = Groth16!Point1[s] /\ pairs[k][2] = Groth16!Point2[t]
        BY <1>1
    <2>2. logs[k] = Groth16!Logarithm(Groth16!Point1, pairs[k][1])
                        \X Groth16!Logarithm(Groth16!Point2, pairs[k][2])
        OBVIOUS
    <2> HIDE DEF logs, s, t
    <2>3. logs[k] = {s} \X {t}
        BY <2>1, <2>2, LogarithmFirst, LogarithmSecond, Zenon
    <2>4. {s} \X {t} = {<<s, t>>}
        OBVIOUS
    <2> QED BY <2>3, <2>4, Zenon DEF s, t
<1> HIDE DEF logs
<1>4. \A k \in DOMAIN pairs : logs[k] # {}
    BY <1>3
<1>5. ASSUME NEW k \in DOMAIN pairs PROVE product(k) = left[k] * right[k]
    <2> DEFINE chosen == CHOOSE pair \in logs[k] : TRUE
    <2>1. chosen \in logs[k]
        BY <1>4
    <2>2. product(k) = chosen[1] * chosen[2]
        OBVIOUS
    <2> HIDE DEF chosen, product
    <2>3. chosen = <<left[k], right[k]>>
        BY <1>3, <2>1
    <2> QED BY <2>2, <2>3
<1> HIDE DEF product
<1>6. product(1) + product(2) + product(3) + product(4) = Product(left, right)
    BY <1>1, <1>5 DEF Product
<1>7. Groth16!pairing(pairs) =
        IF (product(1) + product(2) + product(3) + product(4)) % SNARK_SCALAR_FIELD = 0
        THEN "true" ELSE "false"
    BY <1>2, <1>4
<1> QED BY <1>6, <1>7, Zenon DEF pairs
----------------------------------------------------------------------------
(* The equation. *)

\* Of two numbers whose sum is a multiple of the order, both are or neither is.
LEMMA BothMultiples ==
    ASSUME NEW q \in Nat \ {0}, NEW x \in Int, NEW y \in Int, NEW z \in Int, x + y = q * z
    PROVE  x % q = 0 <=> y % q = 0
<1>1. ASSUME NEW v \in Int, NEW w \in Int, v + w = q * z, v % q = 0 PROVE w % q = 0
    <2> DEFINE d == v \div q
    <2>1. d \in Int /\ v = q * d
        <3>1. v \div q \in Int /\ v % q = v - q * (v \div q)
            OBVIOUS
        <3>2. q * (v \div q) \in Int
            BY <3>1
        <3> QED BY <1>1, <3>1, <3>2
    <2> HIDE DEF d
    <2>2. z - d \in Int /\ q * (z - d) = q * z - q * d
        BY <2>1
    <2>3. w = q * (z - d)
        <3>1. q * z \in Int /\ q * d \in Int
            BY <2>1
        <3> QED BY <1>1, <2>1, <2>2, <3>1
    <2>4. \A k \in Int : (q * k) % q = 0
        OBVIOUS
    <2> QED BY <2>2, <2>3, <2>4
<1>2. y + x = q * z
    OBVIOUS
<1> QED BY <1>1, <1>2

\* The logarithms of the four pairs that verifyProof gives to the pairing.
LeftLogs(w) ==
    <<(SNARK_SCALAR_FIELD - proof.a) % SNARK_SCALAR_FIELD, MCKey.alfa1,
      w % SNARK_SCALAR_FIELD, proof.c>>
RightLogs == <<proof.b, MCKey.beta2, MCKey.gamma2, MCKey.delta2>>

\* The product of the pairings is one exactly when the equation holds.
LEMMA PairingEquation ==
    ASSUME proof.a \in Logs, proof.b \in Logs, proof.c \in Logs, NEW w \in Nat
    PROVE  Product(LeftLogs(w), RightLogs) % SNARK_SCALAR_FIELD = 0
            <=> (proof.a * proof.b - MCKey.alfa1 * MCKey.beta2 - w * MCKey.gamma2
                    - proof.c * MCKey.delta2) % SNARK_SCALAR_FIELD = 0
<1> DEFINE q == SNARK_SCALAR_FIELD
           a1 == proof.a
           b1 == proof.b
           a2 == MCKey.alfa1
           b2 == MCKey.beta2
           g == MCKey.gamma2
           c1 == proof.c
           d1 == MCKey.delta2
           m == (q - a1) % q
           e == IF a1 = 0 THEN 0 ELSE 1
           u == w % q
           d == w \div q
<1>1. /\ q \in Nat \ {0} /\ {a1, b1, a2, b2, g, c1, d1} \subseteq Nat
      /\ a1 \in 0..q - 1
    <2>1. {a1, b1, a2, b2, g, c1, d1} \subseteq Logs
        BY KeyType
    <2> HIDE DEF a1, b1, a2, b2, g, c1, d1
    <2> QED BY <2>1, OrderType DEF Logs
<1> HIDE DEF q, a1, b1, a2, b2, g, c1, d1
<1>2. m \in Nat /\ e \in Nat /\ m = q * e - a1
    <2>1. CASE a1 = 0
        <3>1. q - a1 = q /\ q % q = 0
            BY <1>1, <2>1
        <3> QED BY <1>1, <2>1, <3>1
    <2>2. CASE a1 # 0
        <3>1. q - a1 \in 0..q - 1
            BY <1>1, <2>2
        <3>2. (q * 0 + (q - a1)) % q = q - a1
            BY <1>1, <3>1, ModUnique
        <3>3. q * 0 + (q - a1) = q - a1
            BY <1>1
        <3> QED BY <1>1, <2>2, <3>1, <3>2, <3>3
    <2> QED BY <2>1, <2>2
<1>3. u \in Nat /\ d \in Nat /\ u = w - q * d
    <2>1. w % q = w - q * (w \div q)
        BY <1>1
    <2>2. w % q \in Nat /\ w \div q \in Nat
        BY <1>1
    <2> QED BY <2>1, <2>2
<1> HIDE DEF m, e, u, d
<1> DEFINE X == m * b1 + a2 * b2 + u * g + c1 * d1
           Y == a1 * b1 - a2 * b2 - w * g - c1 * d1
           z == e * b1 - d * g
<1>4. \A x, y \in Nat : x * y \in Nat
    OBVIOUS
<1>5. /\ m * b1 \in Nat /\ a2 * b2 \in Nat /\ u * g \in Nat /\ c1 * d1 \in Nat /\ a1 * b1 \in Nat
      /\ w * g \in Nat /\ e * b1 \in Nat /\ d * g \in Nat
    BY <1>1, <1>2, <1>3, <1>4
<1>6. m * b1 = q * (e * b1) - a1 * b1
    <2>1. m * b1 = (q * e - a1) * b1
        BY <1>2
    <2>2. (q * e - a1) * b1 = q * (e * b1) - a1 * b1
        BY <1>1, <1>2
    <2> QED BY <2>1, <2>2
<1>7. u * g = w * g - q * (d * g)
    <2>1. u * g = (w - q * d) * g
        BY <1>3
    <2>2. (w - q * d) * g = w * g - q * (d * g)
        BY <1>1, <1>3
    <2> QED BY <2>1, <2>2
<1>8. q * z = q * (e * b1) - q * (d * g) /\ q * (e * b1) \in Nat /\ q * (d * g) \in Nat
    BY <1>1, <1>4, <1>5
<1>9. X \in Int /\ Y \in Int /\ z \in Int
    BY <1>5
<1>10. X + Y = q * z
    BY <1>5, <1>6, <1>7, <1>8
<1> HIDE DEF X, Y, z
<1>11. X % q = 0 <=> Y % q = 0
    BY <1>1, <1>9, <1>10, BothMultiples
<1>12. X = Product(LeftLogs(w), RightLogs)
    BY DEF X, Product, LeftLogs, RightLogs, m, u, q, a1, b1, a2, b2, g, c1, d1
<1> QED BY <1>11, <1>12 DEF Y, q, a1, b1, a2, b2, g, c1, d1
----------------------------------------------------------------------------
(* The call of verifyProof. *)

\* The arguments that the bytes of the proof become.
Sent == [A |-> [X |-> Groth16!Point1[proof.a].X, Y |-> Groth16!Point1[proof.a].Y + lift],
         B |-> Groth16!Point2[proof.b],
         C |-> Groth16!Point1[proof.c]]

GivenType ==
    /\ proof \in [a : Scalars, b : Scalars, c : Logs]
    /\ InputType /\ lift \in Lifts

\* Before an answer vk_x is the multiple of the generator that the inputs so far
\* add up to, and an answer is that of the equation.
VerifierInv ==
    /\ GivenType
    /\ phase \in {"raw", "range", "inputs", "true", "false", "reverted"}
    /\ phase # "raw" => args = Sent
    /\ phase \in {"inputs", "true", "false"} => lift = 0
    /\ added \in 0..Groth16!NumInputs /\ UpTo(added) \in Nat
    /\ phase \in {"raw", "range"} => added = 0
    /\ phase \in {"raw", "range", "inputs"} =>
        vk_x = Groth16!Point1[UpTo(added) % SNARK_SCALAR_FIELD]
    /\ \A k \in 1..added : input[k] < SNARK_SCALAR_FIELD
    /\ phase \in {"true", "false"} =>
        added = Groth16!NumInputs /\ (phase = "true" <=> Groth16!Equation)
    /\ phase = "reverted" => ~Groth16!Canonical

WeightedIs == Groth16!Weighted = MCKey.IC[1] + UpTo(Groth16!NumInputs)

LEMMA WeightedSum == InputType => WeightedIs
BY UpToStep DEF WeightedIs

LEMMA InitVerifier ==
    ASSUME Groth16!Init
    PROVE  VerifierInv
<1>1. GivenType
    BY DEF Groth16!Init, GivenType, InputType, Logs
<1>2. phase = "raw" /\ added = 0 /\ vk_x = Groth16!Infinity
    BY DEF Groth16!Init
<1>3. UpTo(0) = 0
    BY <1>1, UpToStep DEF GivenType
<1>4. vk_x = Groth16!Point1[UpTo(added) % SNARK_SCALAR_FIELD]
    <2>1. 0 % SNARK_SCALAR_FIELD = 0
        BY OrderType
    <2> QED BY <1>2, <1>3, <2>1, PointZero
<1>5. added \in 0..Groth16!NumInputs /\ UpTo(added) \in Nat /\ 1..added = {}
    BY <1>2, <1>3, KeyType
<1> QED BY <1>1, <1>2, <1>4, <1>5 DEF VerifierInv

\* What was given stays, and what is computed from it.
LEMMA VerifierSame ==
    ASSUME GivenType, UNCHANGED <<proof, input, lift>>
    PROVE  /\ GivenType' /\ \A k : UpTo(k)' = UpTo(k)
           /\ Sent' = Sent
           /\ Groth16!Equation' <=> Groth16!Equation
           /\ Groth16!Canonical' <=> Groth16!Canonical
<1>1. InputType /\ GivenType'
    BY DEF GivenType, InputType
<1>2. \A k : UpTo(k)' = UpTo(k)
    BY DEF UpTo, Terms, Term
<1>3. Groth16!Weighted' = Groth16!Weighted
    <2>1. InputType'
        BY <1>1 DEF GivenType
    <2>2. WeightedIs'
        BY <2>1, WeightedSum, PTL
    <2>3. WeightedIs
        BY <1>1, WeightedSum
    <2> QED BY <1>2, <2>2, <2>3 DEF WeightedIs
<1>4. Groth16!Equation' <=> Groth16!Equation
    BY <1>3 DEF Groth16!Equation
<1>5. Groth16!Canonical' <=> Groth16!Canonical
    BY DEF Groth16!Canonical
<1> QED BY <1>1, <1>2, <1>4, <1>5 DEF Sent

LEMMA EncodeStep ==
    ASSUME VerifierInv, Groth16!ProofToEthereumProof
    PROVE  VerifierInv'
<1> DEFINE p == Groth16!Point2[proof.b]
<1>1. /\ phase = "raw" /\ phase' = "range" /\ UNCHANGED <<proof, input, lift, added, vk_x>>
      /\ args' = [A |-> [X |-> Groth16!Point1[proof.a].X, Y |-> Groth16!Point1[proof.a].Y + lift],
                  B |-> [X |-> <<p.X[1], p.X[2]>>, Y |-> <<p.Y[1], p.Y[2]>>],
                  C |-> [X |-> Groth16!Point1[proof.c].X, Y |-> Groth16!Point1[proof.c].Y]]
    BY DEF Groth16!ProofToEthereumProof, Groth16!given, Groth16!Raw, Groth16!Halves
<1>2. GivenType /\ proof.a \in Logs /\ proof.b \in Logs /\ proof.c \in Logs
    BY KeyType DEF VerifierInv, GivenType
<1>3. p = [X |-> <<p.X[1], p.X[2]>>, Y |-> <<p.Y[1], p.Y[2]>>]
    BY <1>2 DEF Groth16!Point2, Logs
<1>4. Groth16!Point1[proof.c] = [X |-> Groth16!Point1[proof.c].X, Y |-> Groth16!Point1[proof.c].Y]
    BY <1>2, GroupFacts DEF Groth16!G1, Groth16!Infinity
<1> HIDE DEF p
<1>5. args' = Sent
    BY <1>1, <1>3, <1>4 DEF Sent, p
<1>6. /\ GivenType' /\ UpTo(added)' = UpTo(added) /\ Sent' = Sent
      /\ Groth16!Canonical' <=> Groth16!Canonical
    BY <1>1, <1>2, VerifierSame
<1> QED BY <1>1, <1>5, <1>6 DEF VerifierInv

LEMMA RangeStep ==
    ASSUME VerifierInv, Groth16!CheckRange
    PROVE  VerifierInv'
<1>1. /\ phase = "range" /\ UNCHANGED <<proof, input, lift, args, added, vk_x>>
      /\ phase' = IF Groth16!Below(args.A) /\ Groth16!Below2(args.B) /\ Groth16!Below(args.C)
                  THEN "inputs" ELSE "reverted"
    BY DEF Groth16!CheckRange, Groth16!given
<1>2. GivenType /\ proof.a \in Logs /\ proof.b \in Logs /\ proof.c \in Logs /\ lift \in Lifts
    BY KeyType DEF VerifierInv, GivenType
<1>3. /\ args.A = [X |-> Groth16!Point1[proof.a].X, Y |-> Groth16!Point1[proof.a].Y + lift]
      /\ args.B = Groth16!Point2[proof.b] /\ args.C = Groth16!Point1[proof.c] /\ args = Sent
    BY <1>1 DEF VerifierInv, Sent
<1>4. Groth16!Below2(args.B) /\ Groth16!Below(args.C) /\ (Groth16!Below(args.A) <=> lift = 0)
    BY <1>2, <1>3, SecondPoint, LiftedOut
<1>5. phase' = IF lift = 0 THEN "inputs" ELSE "reverted"
    BY <1>1, <1>4
<1>6. lift # 0 => ~Groth16!Canonical
    BY DEF Groth16!Canonical
<1>7. /\ GivenType' /\ UpTo(added)' = UpTo(added) /\ Sent' = Sent
      /\ Groth16!Canonical' <=> Groth16!Canonical
    BY <1>1, <1>2, VerifierSame
<1> QED BY <1>1, <1>3, <1>5, <1>6, <1>7 DEF VerifierInv

LEMMA AddStep ==
    ASSUME VerifierInv, Groth16!AddInput
    PROVE  VerifierInv'
<1> DEFINE N == Groth16!NumInputs
           r0 == SNARK_SCALAR_FIELD
           word == input[added + 1]
           log == MCKey.IC[added + 2]
           u == UpTo(added)
<1>1. /\ phase = "inputs" /\ added < N /\ UNCHANGED <<proof, input, lift, args>>
      /\ GivenType /\ added \in 0..N /\ u \in Nat /\ args = Sent /\ lift = 0
      /\ \A k \in 1..added : input[k] < r0
    BY DEF Groth16!AddInput, Groth16!given, VerifierInv
<1>2. N \in Nat /\ added \in Nat /\ added + 1 \in 1..N /\ added + 2 \in 1..N + 1
    BY <1>1, KeyType
<1>3. word \in Nat /\ log \in Logs /\ r0 \in Nat \ {0} /\ Term(added + 1) \in Nat
    BY <1>1, <1>2, KeyType, TermType, OrderType DEF GivenType
<1>4. /\ GivenType' /\ \A k : UpTo(k)' = UpTo(k)
      /\ Sent' = Sent /\ (Groth16!Canonical' <=> Groth16!Canonical)
    BY <1>1, VerifierSame
<1>5. CASE ~Groth16!Fits(word)
    <2>1. phase' = "reverted" /\ UNCHANGED <<added, vk_x>>
        BY <1>5 DEF Groth16!AddInput
    <2>2. ~(word < r0)
        BY <1>5 DEF Groth16!Fits
    <2>3. ~Groth16!Canonical
        BY <1>2, <2>2 DEF Groth16!Canonical
    <2> QED BY <1>1, <1>4, <2>1, <2>3 DEF VerifierInv
<1>6. CASE Groth16!Fits(word)
    <2>1. /\ vk_x' = Groth16!plus(vk_x, Groth16!scalar_mul(Groth16!Factor(added), word))
          /\ added' = added + 1 /\ phase' = phase
        BY <1>6 DEF Groth16!AddInput
    <2>2. word < r0
        BY <1>6 DEF Groth16!Fits
    <2>3. Groth16!Factor(added) = Groth16!Point1[log]
        <3>1. added + 1 + 1 = added + 2
            BY <1>2
        <3> QED BY <3>1 DEF Groth16!Factor, Groth16!IC
    <2>4. Term(added + 1) = log * word
        <3>1. Term(added + 1) = word * log
            <4>1. added + 1 + 1 = added + 2
                BY <1>2
            <4> QED BY <4>1 DEF Term
        <3>2. log \in Nat
            BY <1>3, OrderType
        <3> HIDE DEF word, log
        <3> QED BY <1>3, <3>1, <3>2
    <2>5. UpTo(added + 1) = u + Term(added + 1)
        <3>1. added \in 0..N - 1
            BY <1>1, <1>2
        <3> QED BY <1>1, <3>1, UpToStep DEF GivenType
    <2>6. vk_x = Groth16!Point1[u % r0]
        BY <1>1 DEF VerifierInv
    <2> DEFINE t == Term(added + 1)
    <2>7. Groth16!scalar_mul(Groth16!Factor(added), word) = Groth16!Point1[t % r0]
        BY <1>3, <2>3, <2>4, ScalarMul
    <2>8. u % r0 \in Logs /\ t % r0 \in Logs
        BY <1>1, <1>3, OrderType
    <2> HIDE DEF t, u, word, log
    <2>9. vk_x' = Groth16!Point1[((u % r0) + (t % r0)) % r0]
        BY <2>1, <2>6, <2>7, <2>8, GroupFacts DEF Groth16!plus
    <2>10. ((u % r0) + (t % r0)) % r0 = (u + t) % r0
        <3>1. t \in Nat /\ u \in Nat /\ t % r0 \in Nat
            BY <1>1, <1>3, <2>8, OrderType DEF t
        <3>2. ((u % r0) + (t % r0)) % r0 = (u + (t % r0)) % r0
            BY <1>3, <3>1, ModAdd
        <3>3. ((t % r0) + u) % r0 = (t + u) % r0
            BY <1>3, <3>1, ModAdd
        <3>4. u + (t % r0) = (t % r0) + u /\ t + u = u + t
            BY <3>1
        <3> QED BY <3>2, <3>3, <3>4
    <2>11. UpTo(added)' = UpTo(added + 1)
        BY <1>4, <2>1
    <2>12. UpTo(added)' = u + t /\ u + t \in Nat
        BY <1>1, <1>3, <2>5, <2>11 DEF t
    <2>13. \A k \in 1..added' : input'[k] < r0
        <3>1. \A k \in 1..added + 1 : k \in 1..added \/ k = added + 1
            BY <1>2
        <3> QED BY <1>1, <2>1, <2>2, <3>1 DEF word
    <2>14. added' \in 0..N
        BY <1>2, <2>1
    <2>15. /\ phase' = "inputs" /\ args' = Sent' /\ lift' = 0 /\ UpTo(added)' \in Nat
           /\ vk_x' = Groth16!Point1[UpTo(added)' % r0]
        BY <1>1, <1>4, <2>1, <2>9, <2>10, <2>12
    <2> QED BY <1>4, <2>13, <2>14, <2>15 DEF VerifierInv
<1> QED BY <1>5, <1>6

\* What the call answers is the equation's truth.
LEMMA AnswerStep ==
    ASSUME VerifierInv, Groth16!verifyProof
    PROVE  VerifierInv'
<1> DEFINE q == SNARK_SCALAR_FIELD
           N == Groth16!NumInputs
           first == MCKey.IC[1]
           u == UpTo(N)
           w == u + first
<1>1. /\ phase = "inputs" /\ added = N /\ UNCHANGED <<proof, input, lift, args, added>>
      /\ GivenType /\ u \in Nat /\ args = Sent /\ lift = 0 /\ lift \in Lifts
      /\ vk_x = Groth16!Point1[u % q]
    BY DEF Groth16!verifyProof, Groth16!given, VerifierInv, GivenType
<1>2. proof.a \in Logs /\ proof.b \in Logs /\ proof.c \in Logs
    BY <1>1, KeyType DEF GivenType
<1>3. q \in Nat \ {0} /\ first \in Logs /\ first \in Nat /\ u % q \in Logs
    <2>1. N \in Nat /\ 1 \in 1..N + 1
        BY KeyType
    <2>2. first \in Logs
        BY <2>1, KeyType
    <2> HIDE DEF first, u
    <2> QED BY <1>1, <2>2, OrderType
<1>4. args.A = Groth16!Point1[proof.a] /\ args.B = Groth16!Point2[proof.b] /\ args.C = Groth16!Point1[proof.c]
    BY <1>1, <1>2, LiftedOut DEF Sent
<1>5. Groth16!negate(args.A) = Groth16!Point1[(q - proof.a) % q] /\ (q - proof.a) % q \in Logs
    <2>1. q - proof.a \in Nat
        BY <1>2, <1>3 DEF Logs
    <2> QED BY <1>2, <1>4, <2>1, GroupFacts, OrderType
<1>6. vk_x' = Groth16!Point1[w % q] /\ w \in Nat /\ w % q \in Logs
    <2>1. vk_x' = Groth16!plus(vk_x, Groth16!IC(0))
        BY DEF Groth16!verifyProof
    <2>2. Groth16!IC(0) = Groth16!Point1[first]
        BY DEF Groth16!IC
    <2> HIDE DEF first, u
    <2>3. vk_x' = Groth16!Point1[((u % q) + first) % q]
        BY <1>1, <1>3, <2>1, <2>2, GroupFacts DEF Groth16!plus
    <2>4. ((u % q) + first) % q = w % q
        BY <1>1, <1>3, ModAdd
    <2>5. w \in Nat
        BY <1>1, <1>3
    <2> QED BY <2>3, <2>4, <2>5, OrderType
<1>7. phase' = Groth16!pairing(<< <<Groth16!Point1[(q - proof.a) % q], Groth16!Point2[proof.b]>>,
                                  <<Groth16!Point1[MCKey.alfa1], Groth16!Point2[MCKey.beta2]>>,
                                  <<Groth16!Point1[w % q], Groth16!Point2[MCKey.gamma2]>>,
                                  <<Groth16!Point1[proof.c], Groth16!Point2[MCKey.delta2]>> >>)
    <2>1. phase' = Groth16!pairing(<< <<Groth16!negate(args.A), args.B>>,
                                      <<Groth16!Point1[MCKey.alfa1], Groth16!Point2[MCKey.beta2]>>,
                                      <<vk_x', Groth16!Point2[MCKey.gamma2]>>,
                                      <<args.C, Groth16!Point2[MCKey.delta2]>> >>)
        BY Zenon DEF Groth16!verifyProof
    <2> HIDE DEF w, q
    <2> QED BY <1>4, <1>5, <1>6, <2>1, Zenon
<1> DEFINE sum == Product(LeftLogs(w), RightLogs)
<1>8. phase' = IF sum % q = 0 THEN "true" ELSE "false"
    <2> DEFINE left == LeftLogs(w)
               right == RightLogs
    <2>1. \A k \in 1..4 : left[k] \in Logs /\ right[k] \in Logs
        <3> HIDE DEF w
        <3>1. \A k \in 1..4 : k \in {1, 2, 3, 4}
            OBVIOUS
        <3> QED BY <1>2, <1>5, <1>6, <3>1, KeyType DEF LeftLogs, RightLogs
    <2>2. phase' = Groth16!pairing(PointPairs(left, right))
        BY <1>7 DEF PointPairs, LeftLogs, RightLogs
    <2> HIDE DEF left, right
    <2>3. phase' = IF Product(left, right) % q = 0 THEN "true" ELSE "false"
        BY <2>1, <2>2, PairingProduct
    <2> QED BY <2>3 DEF left, right
<1>9. sum % q = 0 <=> Groth16!Equation
    <2>1. Groth16!Weighted = w
        <3>1. Groth16!Weighted = first + u
            BY <1>1, UpToStep DEF GivenType
        <3> HIDE DEF first, u
        <3> QED BY <1>1, <1>3, <3>1
    <2>2. Groth16!Equation <=>
            (proof.a * proof.b - MCKey.alfa1 * MCKey.beta2 - w * MCKey.gamma2
                - proof.c * MCKey.delta2) % q = 0
        BY <2>1, Zenon DEF Groth16!Equation
    <2> HIDE DEF w
    <2> QED BY <1>2, <1>6, <2>2, PairingEquation
<1> HIDE DEF sum
<1>10. /\ GivenType' /\ UpTo(added)' = UpTo(added) /\ Sent' = Sent
       /\ Groth16!Equation' <=> Groth16!Equation
    BY <1>1, VerifierSame
<1>11. phase' \in {"true", "false"} /\ (phase' = "true" <=> Groth16!Equation')
    BY <1>8, <1>9, <1>10
<1> HIDE DEF w, q, first, u, N
<1>12. /\ args' = Sent' /\ lift' = 0 /\ added' = N /\ \A k \in 1..added' : input'[k] < q
       /\ added' \in 0..N /\ UpTo(added)' \in Nat
    BY <1>1, <1>10 DEF VerifierInv, N, q
<1> QED BY <1>10, <1>11, <1>12 DEF VerifierInv, N, q

\* The verifier's state while it is called.
CalledInv == part = "verifier" => VerifierInv

\* The inductive invariant of the verifier: the point it holds is the sum over
\* the inputs passed, and its answer is the truth of the equation.
THEOREM VerifierInvariant == FoundationsSpec => []CalledInv
<1>1. FoundationsInit => CalledInv
    BY InitVerifier DEF FoundationsInit, CalledInv
<1>2. CalledInv /\ [FoundationsNext]_allVars => CalledInv'
    <2> SUFFICES ASSUME CalledInv, [FoundationsNext]_allVars, part' = "verifier" PROVE VerifierInv'
        BY DEF CalledInv
    <2>1. part = "verifier" /\ VerifierInv
        BY DEF FoundationsNext, allVars, CalledInv
    <2>2. Groth16!Next \/ UNCHANGED verifierVars
        BY <2>1 DEF FoundationsNext, allVars, Aggregate, Slash, VerifyProof, HashWords, GrowFour, GrowEight
    <2>3. CASE UNCHANGED verifierVars
        <3>1. UNCHANGED <<proof, input, lift, args, phase, added, vk_x>>
            BY <2>3 DEF verifierVars
        <3>2. /\ GivenType' /\ UpTo(added)' = UpTo(added) /\ Sent' = Sent
              /\ Groth16!Equation' <=> Groth16!Equation
              /\ Groth16!Canonical' <=> Groth16!Canonical
            BY <2>1, <3>1, VerifierSame DEF VerifierInv
        <3> QED BY <2>1, <3>1, <3>2 DEF VerifierInv
    <2> QED BY <2>1, <2>2, <2>3, EncodeStep, RangeStep, AddStep, AnswerStep DEF Groth16!Next
<1> QED BY <1>1, <1>2, PTL DEF FoundationsSpec

\* What the verifier contract accepts satisfies the Groth16 equation for exactly
\* the inputs given: no second word for the same input, no second encoding of a
\* point, whatever the group and the inputs.
THEOREM AcceptedIsSound == FoundationsSpec => []ProofSound
<1>1. CalledInv => ProofSound
    BY DEF CalledInv, VerifierInv, ProofSound, Groth16!Sound, Groth16!Canonical
<1> QED BY <1>1, VerifierInvariant, PTL

\* What satisfies the equation, as the node encodes it, is never refused.
THEOREM SatisfyingIsAccepted == FoundationsSpec => []ProofComplete
<1>1. CalledInv => ProofComplete
    BY DEF CalledInv, VerifierInv, ProofComplete, Groth16!Complete
<1> QED BY <1>1, VerifierInvariant, PTL
==============================================================================
