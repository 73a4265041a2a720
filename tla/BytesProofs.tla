---------------------------- MODULE BytesProofs ----------------------------
(***************************************************************************)
(* Proofs about bytes, for any width of a byte.  Common to all of them:    *)
(* Read gives what Write wrote, up to what the width cuts off (ReadBack,   *)
(* Written), and powers of a byte.                                         *)
(*                                                                         *)
(* PacketBytes, for any samples and codec data:                            *)
(*   - records: of a sample packed by generate_fragments, the index        *)
(*     holds the fields (EntryMade, RecordTells, IndexReads), and the two  *)
(*     programs make the same packet of them (SameSample, SamePrefix);     *)
(*   - the inductive invariant BInv: file and response are sequences of    *)
(*     the packets of the same samples, hence SameBytes;                   *)
(*   - the player: it meets the packets where they were put (LaidOut,      *)
(*     TagsFound) and reads in each what was packed (TagShows, FoundIn),   *)
(*     hence PlayerReads.                                                  *)
(*                                                                         *)
(* Bootstrap, for any run table:                                           *)
(*   - letters: four of six bits are three bytes of eight (TripleNumber),  *)
(*     so that what was encoded is decoded, padding and all (Decodes);     *)
(*   - boxes: what lies in a box lies in the box around it (Split,         *)
(*     LiesInside, InfoIs), and a player that goes from row to row comes   *)
(*     to every one (RowFound, PlacesFound);                               *)
(*   - the inductive invariant MInv: rows in their box, then the boxes     *)
(*     around them, then their letters, hence ReaderFindsRows.             *)
(***************************************************************************)
EXTENDS PacketBytes, Bootstrap, NumberFacts, SequenceTheorems

LEMMA ByteIs == BYTE \in Nat \ {0} /\ BYTE >= 2 /\ \E q \in Nat \ {0} : BYTE = 4 * q
<1>1. PICK b \in Nat \ {0} : b = BYTE /\ b % 4 = 0
  BY ByteAssumption
<1>2. b % 4 = 0
  BY <1>1
<1>3. PICK q \in Int : b = 4 * q
  BY <1>2
<1>4. q \in Nat \ {0}
  BY <1>3
<1> QED
  BY <1>1, <1>3, <1>4

(* A function on m..n that begins with a and goes on as F says. *)
Recursion(g, m, n, S, a, F) ==
  /\ g \in [m..n -> S]
  /\ g[m] = a
  /\ \A i \in (m + 1)..n : g[i] = F[<<i, g[i - 1]>>]

(* There is one. *)
LEMMA RecursionExists ==
  ASSUME NEW m \in Int, NEW n \in Int, m <= n, NEW S, NEW a \in S,
         NEW F, \A i \in (m + 1)..n, v \in S : F[<<i, v>>] \in S
  PROVE  \E g : Recursion(g, m, n, S, a, F)
<1> DEFINE Right(k, g) ==
             /\ g \in [m..(m + k) -> S]
             /\ g[m] = a
             /\ \A i \in (m + 1)..(m + k) : g[i] = F[<<i, g[i - 1]>>]
           P == {k \in Nat : m + k <= n => \E g : Right(k, g)}
<1>1. 0 \in P
  <2>1. Right(0, [j \in m..m |-> a])
    <3>1. m + 0 = m /\ (m + 1)..(m + 0) = {} /\ m \in m..m
      OBVIOUS
    <3> QED BY <3>1
  <2> HIDE DEF Right
  <2> QED BY <2>1
<1>2. ASSUME NEW k \in Nat, k \in P PROVE k + 1 \in P
  <2> SUFFICES ASSUME m + k + 1 <= n PROVE \E g : Right(k + 1, g)
    <3> HIDE DEF Right
    <3>1. k + 1 \in Nat /\ m + (k + 1) = m + k + 1
      OBVIOUS
    <3> QED BY <3>1
  <2>1. PICK g : Right(k, g)
    <3>1. m + k <= n
      OBVIOUS
    <3> HIDE DEF Right
    <3> QED BY <1>2, <3>1
  <2>2. PICK e \in Int : e = m + k + 1
    OBVIOUS
  <2>3. PICK x \in S : x = F[<<e, g[e - 1]>>]
    <3> HIDE DEF P, Right
    <3>1. e \in (m + 1)..n /\ e - 1 \in m..(m + k)
      BY <2>2
    <3>2. g[e - 1] \in S
      BY <2>1, <3>1 DEF Right
    <3> QED BY <3>1, <3>2
  <2>4. PICK h : h = [i \in m..e |-> IF i = e THEN x ELSE g[i]]
    OBVIOUS
  <2>5. ASSUME NEW i \in m..(m + k) PROVE h[i] = g[i] /\ i \in m..e /\ g[i] \in S
    BY <2>1, <2>2, <2>4
  <2>6. h[e] = x
    BY <2>2, <2>4
  <2>7. h \in [m..e -> S]
    <3>1. ASSUME NEW i \in m..e, i # e PROVE i \in m..(m + k)
      BY <2>2, <3>1
    <3>2. ASSUME NEW i \in m..e PROVE (IF i = e THEN x ELSE g[i]) \in S
      BY <2>5, <3>1
    <3> QED BY <2>4, <3>2
  <2>8. ASSUME NEW i \in (m + 1)..e PROVE h[i] = F[<<i, h[i - 1]>>]
    <3>1. CASE i = e
      <4>1. i - 1 \in m..(m + k)
        BY <2>2, <3>1
      <4>2. h[i - 1] = g[e - 1]
        BY <2>5, <3>1, <4>1
      <4> QED BY <2>3, <2>6, <3>1, <4>2
    <3>2. CASE i # e
      <4>1. i \in m..(m + k) /\ i - 1 \in m..(m + k) /\ i \in (m + 1)..(m + k)
        BY <2>2, <3>2
      <4>2. h[i] = g[i] /\ h[i - 1] = g[i - 1]
        BY <2>5, <4>1
      <4>3. g[i] = F[<<i, g[i - 1]>>]
        BY <2>1, <4>1
      <4> QED BY <4>2, <4>3
    <3> QED BY <3>1, <3>2
  <2>9. h[m] = a
    <3>1. m \in m..(m + k)
      OBVIOUS
    <3> QED BY <2>1, <2>5, <3>1
  <2>10. e = m + (k + 1)
    BY <2>2
  <2> QED BY <2>7, <2>8, <2>9, <2>10
<1>3. \A k \in Nat : k \in P
  <2> HIDE DEF P
  <2> QED BY <1>1, <1>2, Induction
<1>4. PICK k \in Nat : m + k = n
  <2>1. n - m \in Nat /\ m + (n - m) = n
    OBVIOUS
  <2> QED BY <2>1
<1>5. \E g : Right(k, g)
  <2>1. k \in P
    <3> HIDE DEF P
    <3> QED BY <1>3
  <2>2. m + k <= n
    <3> HIDE DEF P
    <3> QED BY <1>4
  <2> HIDE DEF Right
  <2> QED BY <2>1, <2>2
<1> QED
  BY <1>4, <1>5 DEF Recursion

(* Powers of BYTE. *)
LEMMA Powers ==
  /\ Power[0] = 1
  /\ \A i \in 1..8 : Power[i] = BYTE * Power[i - 1]
  /\ \A i \in 0..8 : Power[i] \in Nat \ {0}
<1>1. BYTE \in Nat /\ BYTE >= 2
  BY ByteIs
<1> DEFINE Times(g) == [k \in 0..8 |-> IF k = 0 THEN 1 ELSE BYTE * g[k - 1]]
<1>2. \E g : g = Times(g)
  <2>1. PICK F : F = [q \in (1..8) \X Nat |-> BYTE * q[2]]
    OBVIOUS
  <2>2. \A i \in 1..8, v \in Nat : F[<<i, v>>] = BYTE * v
    BY <2>1
  <2>3. \A i \in 1..8, v \in Nat : F[<<i, v>>] \in Nat
    BY <1>1, <2>2
  <2>4. PICK g : g \in [0..8 -> Nat] /\ g[0] = 1 /\ \A i \in 1..8 : g[i] = F[<<i, g[i - 1]>>]
    <3>1. 0 \in Int /\ 8 \in Int /\ 0 <= 8 /\ 1 \in Nat
      OBVIOUS
    <3>2. \A i \in (0 + 1)..8, v \in Nat : F[<<i, v>>] \in Nat
      BY <2>3
    <3>3. PICK g : Recursion(g, 0, 8, Nat, 1, F)
      BY <3>1, <3>2, RecursionExists, Zenon
    <3>4. g \in [0..8 -> Nat] /\ g[0] = 1
      BY <3>3 DEF Recursion
    <3>5. \A i \in (0 + 1)..8 : g[i] = F[<<i, g[i - 1]>>]
      BY <3>3 DEF Recursion
    <3>6. \A i \in 1..8 : g[i] = F[<<i, g[i - 1]>>]
      BY <3>5
    <3> QED BY <3>4, <3>6
  <2>5. ASSUME NEW k \in 0..8 PROVE g[k] = IF k = 0 THEN 1 ELSE BYTE * g[k - 1]
    <3>1. CASE k = 0
      BY <2>4, <3>1
    <3>2. CASE k # 0
      <4>1. k \in 1..8 /\ k - 1 \in 0..8
        BY <3>2
      <4>2. g[k - 1] \in Nat
        BY <2>4, <4>1
      <4>3. F[<<k, g[k - 1]>>] = BYTE * g[k - 1]
        BY <2>2, <4>1, <4>2
      <4> QED BY <2>4, <3>2, <4>1, <4>3
    <3> QED BY <3>1, <3>2
  <2>6. g = Times(g)
    BY <2>4, <2>5
  <2> QED BY <2>6
<1>3. Power = Times(Power)
  <2>1. Power = CHOOSE g : g = Times(g)
    BY Zenon DEF Power
  <2> HIDE DEF Times
  <2> QED BY <1>2, <2>1, Zenon
<1>4. Power[0] = 1 /\ \A i \in 1..8 : Power[i] = BYTE * Power[i - 1]
  BY <1>3
<1> DEFINE P == {k \in Nat : k <= 8 => Power[k] \in Nat \ {0}}
<1>5. 0 \in P
  BY <1>4
<1>6. ASSUME NEW k \in Nat, k \in P PROVE k + 1 \in P
  <2> SUFFICES ASSUME k + 1 <= 8 PROVE Power[k + 1] \in Nat \ {0}
    OBVIOUS
  <2>1. PICK x : x = Power[k]
    OBVIOUS
  <2>2. k + 1 \in 1..8 /\ (k + 1) - 1 = k
    OBVIOUS
  <2>3. Power[k + 1] = BYTE * x /\ x \in Nat \ {0}
    BY <1>4, <1>6, <2>1, <2>2
  <2>4. BYTE * x \in Nat \ {0}
    BY <1>1, <2>3
  <2> QED BY <2>3, <2>4
<1>7. \A k \in Nat : k \in P
  <2> HIDE DEF P
  <2> QED BY <1>5, <1>6, Induction
<1> QED
  BY <1>4, <1>7

(* Division by a product, one factor after the other. *)
LEMMA DivisionByProduct ==
  ASSUME NEW a \in Nat, NEW b \in Nat \ {0}, NEW c \in Nat \ {0}
  PROVE  /\ a \div (b * c) = (a \div b) \div c
         /\ a % (b * c) = ((a \div b) % c) * b + (a % b)
<1> DEFINE q == a \div b
           r == a % b
           p == q \div c
           s == q % c
<1>1. q \in Int /\ r \in 0..(b - 1) /\ a = b * q + r
  BY Division
<1>2. p \in Int /\ s \in 0..(c - 1) /\ q = c * p + s
  <2> HIDE DEF q
  <2> QED BY <1>1, Division
<1> HIDE DEF q, r, p, s
<1>3. PICK n \in Nat \ {0} : n = b * c
  <2>1. b * c \in Nat \ {0}
    OBVIOUS
  <2> QED BY <2>1
<1>4. PICK t \in Int : t = s * b + r
  BY <1>1, <1>2
<1>5. a = n * p + t
  <2>1. a = b * (c * p + s) + r
    BY <1>1, <1>2
  <2>2. b * (c * p + s) = (b * c) * p + s * b
    BY <1>2
  <2>3. (b * c) * p \in Int /\ s * b \in Int /\ r \in Int
    BY <1>1, <1>2
  <2> QED BY <1>3, <1>4, <2>1, <2>2, <2>3
<1>6. t \in 0..(n - 1)
  <2>1. s * b >= 0 /\ s * b <= (c - 1) * b /\ s * b \in Int
    BY <1>2
  <2>2. (c - 1) * b = n - b
    BY <1>3
  <2>3. r >= 0 /\ r <= b - 1 /\ r \in Int
    BY <1>1
  <2> QED BY <1>4, <2>1, <2>2, <2>3
<1>7. a \div n = p /\ a % n = t
  BY <1>2, <1>5, <1>6, DivisionIs
<1> QED
  BY <1>3, <1>4, <1>7 DEF p, q, r, s

(* What Read reads: each byte after the first shifts those before it. *)
Reading(upto, bytes, p, w) ==
  /\ Read(bytes, p, w) = upto[w]
  /\ upto \in [0..w -> Nat]
  /\ upto[0] = 0
  /\ \A i \in 1..w : upto[i] = upto[i - 1] * BYTE + bytes[p + i - 1]

LEMMA ReadIs ==
  ASSUME NEW bytes, NEW p \in Nat, NEW w \in Nat,
         \A i \in 1..w : bytes[p + i - 1] \in Nat
  PROVE  \E upto : Reading(upto, bytes, p, w)
<1>1. BYTE \in Nat
  BY ByteIs
<1> DEFINE Adds(g) == [i \in 0..w |-> IF i = 0 THEN 0 ELSE g[i - 1] * BYTE + bytes[p + i - 1]]
<1>2. \E g : g \in [0..w -> Nat] /\ g = Adds(g)
  <2>1. PICK F : F = [q \in (1..w) \X Nat |-> q[2] * BYTE + bytes[p + q[1] - 1]]
    OBVIOUS
  <2>2. \A i \in 1..w, v \in Nat : F[<<i, v>>] = v * BYTE + bytes[p + i - 1]
    BY <2>1
  <2>3. ASSUME NEW i \in 1..w, NEW v \in Nat PROVE F[<<i, v>>] \in Nat
    <3>1. bytes[p + i - 1] \in Nat /\ v * BYTE \in Nat
      BY <1>1
    <3> QED BY <2>2, <3>1
  <2>4. PICK g : g \in [0..w -> Nat] /\ g[0] = 0 /\ \A i \in 1..w : g[i] = F[<<i, g[i - 1]>>]
    <3>1. 0 \in Int /\ w \in Int /\ 0 <= w /\ 0 \in Nat
      OBVIOUS
    <3>2. ASSUME NEW i \in (0 + 1)..w, NEW v \in Nat PROVE F[<<i, v>>] \in Nat
      <4>1. i \in 1..w
        OBVIOUS
      <4> QED BY <2>3, <4>1
    <3>3. PICK g : Recursion(g, 0, w, Nat, 0, F)
      BY <3>1, <3>2, RecursionExists, Zenon
    <3>4. g \in [0..w -> Nat] /\ g[0] = 0
      BY <3>3 DEF Recursion
    <3>5. \A i \in (0 + 1)..w : g[i] = F[<<i, g[i - 1]>>]
      BY <3>3 DEF Recursion
    <3>6. \A i \in 1..w : g[i] = F[<<i, g[i - 1]>>]
      BY <3>5
    <3> QED BY <3>4, <3>6
  <2>5. ASSUME NEW k \in 0..w
        PROVE  g[k] = IF k = 0 THEN 0 ELSE g[k - 1] * BYTE + bytes[p + k - 1]
    <3>1. CASE k = 0
      BY <2>4, <3>1
    <3>2. CASE k # 0
      <4>1. k \in 1..w /\ k - 1 \in 0..w
        BY <3>2
      <4>2. g[k - 1] \in Nat
        BY <2>4, <4>1
      <4>3. F[<<k, g[k - 1]>>] = g[k - 1] * BYTE + bytes[p + k - 1]
        BY <2>2, <4>1, <4>2
      <4> QED BY <2>4, <3>2, <4>1, <4>3
    <3> QED BY <3>1, <3>2
  <2>6. g = Adds(g)
    BY <2>4, <2>5
  <2> QED BY <2>4, <2>6
<1>3. PICK g : g = CHOOSE h : h = Adds(h)
  OBVIOUS
<1>4. g = Adds(g)
  <2> HIDE DEF Adds
  <2> QED BY <1>2, <1>3, Zenon
<1>5. Read(bytes, p, w) = g[w]
  BY <1>3, Zenon DEF Read
<1>6. g[0] = 0 /\ \A i \in 1..w : g[i] = g[i - 1] * BYTE + bytes[p + i - 1]
  <2>1. ASSUME NEW k \in 0..w
        PROVE  g[k] = IF k = 0 THEN 0 ELSE g[k - 1] * BYTE + bytes[p + k - 1]
    BY <1>4
  <2>2. 0 \in 0..w /\ \A i \in 1..w : i \in 0..w /\ i # 0
    OBVIOUS
  <2> HIDE DEF Adds
  <2> QED BY <2>1, <2>2
<1> DEFINE P == {k \in Nat : k <= w => g[k] \in Nat}
<1>7. 0 \in P
  BY <1>6
<1>8. ASSUME NEW k \in Nat, k \in P PROVE k + 1 \in P
  <2> SUFFICES ASSUME k + 1 <= w PROVE g[k + 1] \in Nat
    OBVIOUS
  <2>1. PICK x : x = g[k]
    OBVIOUS
  <2>2. k + 1 \in 1..w /\ (k + 1) - 1 = k /\ k <= w
    OBVIOUS
  <2>3. x \in Nat /\ x * BYTE \in Nat
    BY <1>1, <1>8, <2>1, <2>2
  <2>4. g[k + 1] = x * BYTE + bytes[p + (k + 1) - 1]
    BY <1>6, <2>1, <2>2
  <2>5. bytes[p + (k + 1) - 1] \in Nat
    BY <2>2
  <2> QED BY <2>3, <2>4, <2>5
<1>9. \A k \in Nat : k \in P
  <2> HIDE DEF P
  <2> QED BY <1>7, <1>8, Induction
<1>10. g \in [0..w -> Nat]
  <2>1. \A k \in 0..w : g[k] \in Nat
    BY <1>9
  <2>2. g = [i \in 0..w |-> g[i]]
    <3>1. DOMAIN g = 0..w
      BY <1>4
    <3> QED BY <1>4
  <2> QED BY <2>1, <2>2
<1> QED
  BY <1>5, <1>6, <1>10 DEF Reading

LEMMA QuotientIsNat ==
  ASSUME NEW a \in Nat, NEW n \in Nat \ {0}
  PROVE  a \div n \in Nat /\ a % n \in Nat
OBVIOUS

(* Read undoes Write, but for what the width cuts off. *)
LEMMA ReadBack ==
  ASSUME NEW bytes, NEW p \in Nat, NEW w \in 0..8, NEW n \in Nat,
         \A i \in 1..w : bytes[p + i - 1] = (n \div Power[w - i]) % BYTE
  PROVE  Read(bytes, p, w) = n % Power[w]
<1>1. BYTE \in Nat \ {0}
  BY ByteIs
<1>2. ASSUME NEW i \in 0..w PROVE Power[w - i] \in Nat \ {0} /\ Power[i] \in Nat \ {0}
  <2>1. w - i \in 0..8 /\ i \in 0..8
    OBVIOUS
  <2> QED BY <2>1, Powers
<1>3. ASSUME NEW i \in 1..w PROVE bytes[p + i - 1] \in Nat
  <2>1. PICK x \in Nat \ {0} : x = Power[w - i]
    BY <1>2
  <2>2. n \div x \in Nat
    BY QuotientIsNat
  <2>3. (n \div x) % BYTE \in Nat
    BY <1>1, <2>2, QuotientIsNat
  <2> QED BY <2>1, <2>3
<1>4. PICK upto : /\ Read(bytes, p, w) = upto[w]
                  /\ upto \in [0..w -> Nat]
                  /\ upto[0] = 0
                  /\ \A i \in 1..w : upto[i] = upto[i - 1] * BYTE + bytes[p + i - 1]
  <2>1. w \in Nat
    OBVIOUS
  <2>2. PICK upto : Reading(upto, bytes, p, w)
    BY <1>3, <2>1, ReadIs
  <2> QED BY <2>2 DEF Reading
<1> DEFINE P == {k \in Nat : k <= w => upto[k] = (n \div Power[w - k]) % Power[k]}
<1>5. 0 \in P
  <2>1. PICK x \in Nat \ {0} : x = Power[w - 0]
    <3>1. 0 \in 0..w
      OBVIOUS
    <3> QED BY <1>2, <3>1
  <2>2. PICK q \in Nat : q = n \div x
    BY QuotientIsNat
  <2>3. q % 1 = 0
    OBVIOUS
  <2> QED BY <1>4, <2>1, <2>2, <2>3, Powers
<1>6. ASSUME NEW k \in Nat, k \in P PROVE k + 1 \in P
  <2> SUFFICES ASSUME k + 1 <= w PROVE upto[k + 1] = (n \div Power[w - (k + 1)]) % Power[k + 1]
    OBVIOUS
  <2>1. PICK x \in Nat \ {0} : x = Power[w - (k + 1)]
    <3>1. k + 1 \in 0..w
      OBVIOUS
    <3> QED BY <1>2, <3>1
  <2>2. PICK y \in Nat \ {0} : y = Power[k]
    <3>1. k \in 0..w
      OBVIOUS
    <3> QED BY <1>2, <3>1
  <2>3. Power[w - k] = BYTE * x
    <3>1. w - k \in 1..8 /\ (w - k) - 1 = w - (k + 1)
      OBVIOUS
    <3>2. Power[w - k] = BYTE * Power[(w - k) - 1]
      BY <3>1, Powers
    <3> QED BY <2>1, <3>1, <3>2
  <2>4. Power[k + 1] = BYTE * y
    <3>1. k + 1 \in 1..8 /\ (k + 1) - 1 = k
      OBVIOUS
    <3>2. Power[k + 1] = BYTE * Power[(k + 1) - 1]
      BY <3>1, Powers
    <3> QED BY <2>2, <3>1, <3>2
  <2>5. PICK m \in Nat : m = n \div x
    BY QuotientIsNat
  <2>6. n \div Power[w - k] = m \div BYTE
    <3>1. n \div (x * BYTE) = (n \div x) \div BYTE
      BY <1>1, DivisionByProduct
    <3>2. BYTE * x = x * BYTE
      BY <1>1
    <3> QED BY <2>3, <2>5, <3>1, <3>2
  <2>7. m % (BYTE * y) = ((m \div BYTE) % y) * BYTE + (m % BYTE)
    BY <1>1, DivisionByProduct
  <2>8. upto[k] = (m \div BYTE) % y
    <3>1. k <= w
      OBVIOUS
    <3>2. upto[k] = (n \div Power[w - k]) % Power[k]
      BY <1>6, <3>1
    <3> QED BY <2>2, <2>6, <3>2
  <2>9. upto[k + 1] = upto[k] * BYTE + (m % BYTE)
    <3>1. k + 1 \in 1..w /\ (k + 1) - 1 = k
      OBVIOUS
    <3>2. upto[k + 1] = upto[(k + 1) - 1] * BYTE + bytes[p + (k + 1) - 1]
      BY <1>4, <3>1
    <3>3. bytes[p + (k + 1) - 1] = (n \div Power[w - (k + 1)]) % BYTE
      BY <3>1
    <3> QED BY <2>1, <2>5, <3>1, <3>2, <3>3
  <2> HIDE DEF P
  <2> QED BY <2>1, <2>4, <2>5, <2>7, <2>8, <2>9
<1>7. \A k \in Nat : k \in P
  <2> HIDE DEF P
  <2> QED BY <1>5, <1>6, Induction
<1>8. upto[w] = (n \div Power[w - w]) % Power[w]
  <2>1. w \in P /\ w \in Nat
    <3> HIDE DEF P
    <3> QED BY <1>7
  <2> QED BY <2>1
<1>9. n \div Power[w - w] = n
  <2>1. w - w = 0 /\ n \div 1 = n
    OBVIOUS
  <2> QED BY <2>1, Powers
<1> QED
  BY <1>4, <1>8, <1>9

(* What Write writes. *)
LEMMA Written ==
  ASSUME NEW n \in Nat, NEW w \in 0..8
  PROVE  /\ Write(n, w) \in Seq(Nat)
         /\ Len(Write(n, w)) = w
         /\ \A i \in 1..w : Write(n, w)[i] = (n \div Power[w - i]) % BYTE
<1>1. ASSUME NEW i \in 1..w PROVE (n \div Power[w - i]) % BYTE \in Nat
  <2>1. w - i \in 0..8
    OBVIOUS
  <2>2. PICK x \in Nat \ {0} : x = Power[w - i]
    BY <2>1, Powers
  <2>3. n \div x \in Nat /\ BYTE \in Nat \ {0}
    BY QuotientIsNat, ByteIs
  <2>4. (n \div x) % BYTE \in Nat
    BY <2>3, QuotientIsNat
  <2> QED BY <2>2, <2>4
<1> DEFINE e(i) == (n \div Power[w - i]) % BYTE
<1>2. \A i \in 1..w : e(i) \in Nat
  BY <1>1
<1> HIDE DEF e
<1>3. PICK s : s = [i \in 1..w |-> e(i)]
  OBVIOUS
<1>4. s \in Seq(Nat) /\ Len(s) = w /\ \A i \in 1..w : s[i] = e(i)
  BY <1>2, <1>3
<1>5. Write(n, w) = s
  BY <1>3, Zenon DEF Write, e
<1> QED
  BY <1>4, <1>5 DEF e

(* Only what the width cuts off is lost. *)
LEMMA WrittenRemainder ==
  ASSUME NEW n \in Nat, NEW w \in 0..8
  PROVE  Write(n % Power[w], w) = Write(n, w)
<1>1. BYTE \in Nat \ {0}
  BY ByteIs
<1>2. PICK W \in Nat \ {0} : W = Power[w]
  BY Powers
<1>3. PICK q \in Nat, r \in Nat : q = n \div W /\ r = n % W /\ n = W * q + r
  <2>1. n \div W \in Nat /\ n % W \in Nat
    BY QuotientIsNat
  <2>2. n = W * (n \div W) + (n % W)
    BY Division
  <2> QED BY <2>1, <2>2
<1> DEFINE P == {k \in Nat : k <= w => \E x \in Nat : W = Power[w - k] * x /\ x = Power[k]}
<1>4. 0 \in P
  <2>1. Power[w - 0] = W /\ Power[0] = 1 /\ W * 1 = W
    BY <1>2, Powers
  <2> QED BY <2>1
<1>5. ASSUME NEW k \in Nat, k \in P PROVE k + 1 \in P
  <2> SUFFICES ASSUME k + 1 <= w
               PROVE  \E x \in Nat : W = Power[w - (k + 1)] * x /\ x = Power[k + 1]
    OBVIOUS
  <2>1. PICK x \in Nat : W = Power[w - k] * x /\ x = Power[k]
    BY <1>5
  <2>2. w - (k + 1) \in 0..8 /\ w - k \in 1..8 /\ (w - k) - 1 = w - (k + 1)
        /\ k + 1 \in 1..8 /\ (k + 1) - 1 = k
    OBVIOUS
  <2>3. PICK y \in Nat \ {0} : y = Power[w - (k + 1)]
    BY <2>2, Powers
  <2>4. Power[w - k] = BYTE * y
    BY <2>2, <2>3, Powers
  <2>5. Power[k + 1] = BYTE * x
    BY <2>1, <2>2, Powers
  <2>6. (BYTE * y) * x = y * (BYTE * x) /\ BYTE * x \in Nat
    BY <1>1, <2>1, <2>3
  <2> HIDE DEF P
  <2> QED BY <2>1, <2>3, <2>4, <2>5, <2>6
<1>6. \A k \in Nat : k \in P
  <2> HIDE DEF P
  <2> QED BY <1>4, <1>5, Induction
<1>7. ASSUME NEW i \in 1..w
      PROVE  (n \div Power[w - i]) % BYTE = (r \div Power[w - i]) % BYTE
  <2>1. PICK x \in Nat : W = Power[w - i] * x /\ x = Power[i]
    <3>1. i \in P /\ i <= w
      <4> HIDE DEF P
      <4> QED BY <1>6
    <3> QED BY <3>1
  <2>2. PICK y \in Nat \ {0} : y = Power[w - i]
    <3>1. w - i \in 0..8
      OBVIOUS
    <3> QED BY <3>1, Powers
  <2>3. PICK z \in Nat : x = BYTE * z
    <3>1. i \in 1..8 /\ i - 1 \in 0..8
      OBVIOUS
    <3>2. Power[i] = BYTE * Power[i - 1] /\ Power[i - 1] \in Nat
      BY <3>1, Powers
    <3> QED BY <2>1, <3>2
  <2> HIDE DEF P
  <2>4. n = (y * (BYTE * z)) * q + r
    BY <1>3, <2>1, <2>2, <2>3
  <2>5. PICK a \in Nat : a = r \div y
    BY QuotientIsNat
  <2>6. PICK b \in 0..(y - 1) : r = y * a + b
    <3>1. r % y \in 0..(y - 1) /\ r = y * (r \div y) + (r % y)
      BY Division
    <3> QED BY <2>5, <3>1
  <2>7. n \div y = BYTE * (z * q) + a
    <3>1. PICK t \in Nat : t = BYTE * (z * q) + a
      <4>1. BYTE * (z * q) \in Nat
        BY <1>1, <1>3
      <4> QED BY <2>5, <4>1
    <3>2. n = y * t + b
      <4>1. PICK B \in Nat : B = BYTE
        BY <1>1
      <4>2. (y * (B * z)) * q = y * (B * (z * q))
        OBVIOUS
      <4>3. t = B * (z * q) + a
        BY <3>1, <4>1
      <4>4. PICK v \in Nat : v = B * (z * q)
        <5>1. z * q \in Nat
          OBVIOUS
        <5>2. B * (z * q) \in Nat
          BY <5>1
        <5> QED BY <5>2
      <4>5. y * t = y * v + y * a
        BY <4>3, <4>4
      <4>6. n = y * v + r
        BY <2>4, <4>1, <4>2, <4>4
      <4>7. y * v \in Nat /\ y * a \in Nat /\ y * t \in Nat
        OBVIOUS
      <4> QED BY <2>6, <4>5, <4>6, <4>7
    <3>3. n \div y = t
      BY <3>2, DivisionIs
    <3> QED BY <3>1, <3>3
  <2>8. PICK c \in Nat, d \in 0..(BYTE - 1) : a = BYTE * c + d /\ d = a % BYTE
    <3>1. a % BYTE \in 0..(BYTE - 1) /\ a = BYTE * (a \div BYTE) + (a % BYTE)
      BY <1>1, Division
    <3>2. a \div BYTE \in Nat
      BY <1>1, QuotientIsNat
    <3> QED BY <3>1, <3>2
  <2>9. PICK u \in Nat : u = BYTE * (z * q) + a
    <3>1. BYTE * (z * q) \in Nat
      BY <1>1, <1>3
    <3> QED BY <2>5, <3>1
  <2>10. u % BYTE = d
    <3>1. PICK v \in Nat : v = z * q + c
      <4>1. z * q \in Nat
        BY <1>3
      <4> QED BY <4>1
    <3>2. u = BYTE * v + d
      <4>1. PICK B \in Nat : B = BYTE
        BY <1>1
      <4>2. a = B * c + d
        BY <2>8, <4>1
      <4>3. u = B * (z * q) + a
        BY <2>9, <4>1
      <4>4. B * (z * q + c) = B * (z * q) + B * c
        OBVIOUS
      <4>5. z * q \in Nat /\ B * c \in Nat
        OBVIOUS
      <4>6. B * (z * q) \in Nat
        BY <4>5
      <4> QED BY <3>1, <4>1, <4>2, <4>3, <4>4, <4>5, <4>6
    <3> QED BY <1>1, <3>2, DivisionIs
  <2> QED BY <2>2, <2>5, <2>7, <2>8, <2>9, <2>10
<1> HIDE DEF P
<1>8. Write(n, w) = [i \in 1..w |-> (n \div Power[w - i]) % BYTE]
  BY Zenon DEF Write
<1>9. Write(r, w) = [i \in 1..w |-> (r \div Power[w - i]) % BYTE]
  BY Zenon DEF Write
<1>10. Write(n, w) = Write(r, w)
  BY <1>7, <1>8, <1>9, Zenon
<1> QED
  BY <1>2, <1>3, <1>10

(* Two sequences, one after the other. *)
Joined(r, a, b, S) ==
  /\ r \in Seq(S)
  /\ Len(r) = Len(a) + Len(b)
  /\ \A i \in 1..Len(a) : r[i] = a[i]
  /\ \A i \in 1..Len(b) : r[Len(a) + i] = b[i]

LEMMA Concatenated ==
  ASSUME NEW S, NEW a \in Seq(S), NEW b \in Seq(S)
  PROVE  Joined(a \o b, a, b, S)
<1>1. PICK m \in Nat, n \in Nat : m = Len(a) /\ n = Len(b)
  BY LenProperties
<1>2. PICK r : r = a \o b
  OBVIOUS
<1>3. r \in Seq(S) /\ Len(r) = m + n /\ \A i \in 1..(m + n) : r[i] = IF i <= m THEN a[i] ELSE b[i - m]
  BY <1>1, <1>2, ConcatProperties
<1>4. ASSUME NEW i \in 1..m PROVE r[i] = a[i]
  <2>1. i \in 1..(m + n) /\ i <= m
    OBVIOUS
  <2> QED BY <1>3, <2>1
<1>5. ASSUME NEW i \in 1..n PROVE r[m + i] = b[i]
  <2>1. PICK k \in Int : k = m + i
    OBVIOUS
  <2>2. k \in 1..(m + n) /\ ~(k <= m) /\ k - m = i
    BY <2>1
  <2>3. r[k] = b[k - m]
    BY <1>3, <2>2
  <2> QED BY <2>1, <2>2, <2>3
<1>6. Joined(r, a, b, S)
  BY <1>1, <1>3, <1>4, <1>5 DEF Joined
<1> QED
  BY <1>2, <1>6

(* Flattened sequences lie one after the other, each from its place on. *)
Laid(flat, seqs, n, at, S) ==
  /\ flat \in Seq(S)
  /\ Len(flat) = at[n + 1]
  /\ \A i \in 1..n : \A j \in 1..Len(seqs[i]) :
       at[i] + j \in 1..at[i + 1] /\ at[i + 1] <= at[n + 1] /\ flat[at[i] + j] = seqs[i][j]

LEMMA FlattenLays ==
  ASSUME NEW S, NEW n \in Nat \ {0}, NEW seqs, Len(seqs) = n,
         \A k \in 1..n : seqs[k] \in Seq(S),
         NEW at, \A k \in 1..(n + 1) : at[k] \in Nat,
         at[1] = 0, \A k \in 1..n : at[k + 1] = at[k] + Len(seqs[k])
  PROVE  Laid(FlattenSeq(seqs), seqs, n, at, S)
<1> DEFINE Joins(g) == [i \in 1..n |-> IF i = 1 THEN seqs[i] ELSE g[i - 1] \o seqs[i]]
<1>1. \E g : g \in [1..n -> Seq(S)] /\ g = Joins(g)
  <2>1. PICK F : F = [q \in (2..n) \X Seq(S) |-> q[2] \o seqs[q[1]]]
    OBVIOUS
  <2>2. \A i \in 2..n, v \in Seq(S) : F[<<i, v>>] = v \o seqs[i]
    BY <2>1
  <2>3. ASSUME NEW i \in (1 + 1)..n, NEW v \in Seq(S) PROVE F[<<i, v>>] \in Seq(S)
    <3>1. i \in 1..n /\ i \in 2..n
      OBVIOUS
    <3>2. seqs[i] \in Seq(S)
      BY <3>1
    <3>3. v \o seqs[i] \in Seq(S)
      BY <3>2, ConcatProperties
    <3> QED BY <2>2, <3>1, <3>3
  <2>4. PICK g : g \in [1..n -> Seq(S)] /\ g[1] = seqs[1] /\ \A i \in 2..n : g[i] = F[<<i, g[i - 1]>>]
    <3>1. 1 \in Int /\ n \in Int /\ 1 <= n /\ seqs[1] \in Seq(S)
      OBVIOUS
    <3>2. PICK g : Recursion(g, 1, n, Seq(S), seqs[1], F)
      BY <2>3, <3>1, RecursionExists, Zenon
    <3>3. g \in [1..n -> Seq(S)] /\ g[1] = seqs[1]
      BY <3>2 DEF Recursion
    <3>4. \A i \in (1 + 1)..n : g[i] = F[<<i, g[i - 1]>>]
      BY <3>2 DEF Recursion
    <3>5. ASSUME NEW i \in 2..n PROVE g[i] = F[<<i, g[i - 1]>>]
      <4>1. i \in (1 + 1)..n
        OBVIOUS
      <4> QED BY <3>4, <4>1
    <3> QED BY <3>3, <3>5
  <2>5. ASSUME NEW k \in 1..n
        PROVE  g[k] = IF k = 1 THEN seqs[k] ELSE g[k - 1] \o seqs[k]
    <3>1. CASE k = 1
      BY <2>4, <3>1
    <3>2. CASE k # 1
      <4>1. k \in 2..n /\ k - 1 \in 1..n
        BY <3>2
      <4>2. g[k - 1] \in Seq(S)
        BY <2>4, <4>1
      <4>3. F[<<k, g[k - 1]>>] = g[k - 1] \o seqs[k]
        BY <2>2, <4>1, <4>2
      <4> QED BY <2>4, <3>2, <4>1, <4>3
    <3> QED BY <3>1, <3>2
  <2>6. g = Joins(g)
    BY <2>4, <2>5
  <2> QED BY <2>4, <2>6
<1>2. PICK g : g = CHOOSE h : h = Joins(h)
  OBVIOUS
<1>3. g = Joins(g)
  <2> HIDE DEF Joins
  <2> QED BY <1>1, <1>2, Zenon
<1>4. FlattenSeq(seqs) = g[n]
  <2>1. Len(seqs) # 0
    OBVIOUS
  <2>2. FlattenSeq(seqs) = (CHOOSE h : h = [i \in 1..Len(seqs) |->
                                              IF i = 1 THEN seqs[i] ELSE h[i - 1] \o seqs[i]])[Len(seqs)]
    BY <2>1, Zenon DEF FlattenSeq
  <2> QED BY <1>2, <2>2, Zenon
<1>5. g[1] = seqs[1] /\ \A i \in 2..n : g[i] = g[i - 1] \o seqs[i]
  <2>1. ASSUME NEW k \in 1..n
        PROVE  g[k] = IF k = 1 THEN seqs[k] ELSE g[k - 1] \o seqs[k]
    BY <1>3
  <2>2. 1 \in 1..n /\ \A i \in 2..n : i \in 1..n /\ i # 1
    OBVIOUS
  <2> HIDE DEF Joins
  <2> QED BY <2>1, <2>2
<1> HIDE DEF Joins
<1>6. ASSUME NEW k \in 1..n PROVE Len(seqs[k]) \in Nat /\ seqs[k] \in Seq(S)
  BY LenProperties
<1> DEFINE Here(k) ==
             /\ g[k] \in Seq(S)
             /\ Len(g[k]) = at[k + 1]
             /\ \A i \in 1..k : \A j \in 1..Len(seqs[i]) :
                  at[i] + j \in 1..at[i + 1] /\ at[i + 1] <= at[k + 1] /\ g[k][at[i] + j] = seqs[i][j]
           P == {k \in Nat : k + 1 <= n => at[k + 1] \in Nat /\ Here(k + 1)}
<1>7. 0 \in P
  <2>1. 1 \in 1..n
    OBVIOUS
  <2>2. at[2] = Len(seqs[1]) /\ Len(seqs[1]) \in Nat
    <3>1. at[1 + 1] = at[1] + Len(seqs[1]) /\ Len(seqs[1]) \in Nat
      BY <1>6, <2>1
    <3> QED BY <3>1
  <2>3. g[1] \in Seq(S) /\ Len(g[1]) = at[2]
    BY <1>5, <1>6, <2>1, <2>2
  <2>4. ASSUME NEW i \in 1..1, NEW j \in 1..Len(seqs[i])
        PROVE  at[i] + j \in 1..at[i + 1] /\ at[i + 1] <= at[2] /\ g[1][at[i] + j] = seqs[i][j]
    <3>1. i = 1
      OBVIOUS
    <3>2. at[i] + j = j /\ at[i + 1] = at[2] /\ j \in 1..at[2]
      BY <2>2, <3>1
    <3> QED BY <1>5, <2>2, <3>1, <3>2
  <2>5. Here(1)
    BY <2>3, <2>4
  <2> HIDE DEF Here
  <2>6. at[1] \in Nat /\ 0 + 1 = 1
    OBVIOUS
  <2> QED BY <2>5, <2>6
<1>8. ASSUME NEW k \in Nat, k \in P PROVE k + 1 \in P
  <2> SUFFICES ASSUME k + 2 <= n PROVE at[k + 2] \in Nat /\ Here(k + 2)
    <3> HIDE DEF Here
    <3>1. k + 1 \in Nat /\ (k + 1) + 1 = k + 2
      OBVIOUS
    <3> QED BY <3>1
  <2>1. at[k + 1] \in Nat /\ Here(k + 1)
    <3> HIDE DEF Here
    <3>1. k + 1 <= n
      OBVIOUS
    <3> QED BY <1>8, <3>1
  <2> HIDE DEF P
  <2>2. PICK m \in 1..n : m = k + 1 /\ m + 1 \in 2..n
    <3>1. k + 1 \in 1..n /\ (k + 1) + 1 \in 2..n
      OBVIOUS
    <3> QED BY <3>1
  <2>3. at[m] \in Nat /\ Here(m) /\ at[m + 1] = at[m] + Len(seqs[m]) /\ Len(seqs[m]) \in Nat
    <3> HIDE DEF Here
    <3>1. at[m + 1] = at[m] + Len(seqs[m]) /\ Len(seqs[m]) \in Nat
      BY <1>6
    <3> QED BY <2>1, <2>2, <3>1
  <2>4. at[m + 1] \in Nat
    BY <2>3
  <2>5. m + 1 \in 1..n
    BY <2>2
  <2>6. /\ at[(m + 1) + 1] = at[m + 1] + Len(seqs[m + 1])
        /\ Len(seqs[m + 1]) \in Nat /\ seqs[m + 1] \in Seq(S)
    BY <1>6, <2>5
  <2>7. g[m + 1] = g[m] \o seqs[m + 1]
    <3>1. (m + 1) - 1 = m
      BY <2>2
    <3> QED BY <1>5, <2>2, <3>1
  <2>8. g[m] \in Seq(S) /\ Len(g[m]) = at[m + 1]
    BY <2>3
  <2>9. PICK a, b, r : a = g[m] /\ b = seqs[m + 1] /\ r = a \o b
    OBVIOUS
  <2>10. a \in Seq(S) /\ b \in Seq(S) /\ Len(a) \in Nat /\ Len(b) \in Nat
    BY <2>4, <2>6, <2>8, <2>9
  <2>11. /\ r \in Seq(S)
         /\ Len(r) = Len(a) + Len(b)
         /\ \A i \in 1..Len(a) : r[i] = a[i]
         /\ \A i \in 1..Len(b) : r[Len(a) + i] = b[i]
    <3>1. Joined(r, a, b, S)
      <4> HIDE DEF Here
      <4>1. r = a \o b
        BY <2>9
      <4>2. a \in Seq(S) /\ b \in Seq(S)
        BY <2>10
      <4>3. Joined(a \o b, a, b, S)
        BY <4>2, Concatenated
      <4> QED BY <4>1, <4>3, Zenon
    <3> QED BY <3>1 DEF Joined
  <2>12. ASSUME NEW i \in 1..(m + 1), NEW j \in 1..Len(seqs[i])
         PROVE  /\ at[i] + j \in 1..at[i + 1] /\ at[i + 1] <= at[(m + 1) + 1]
                /\ g[m + 1][at[i] + j] = seqs[i][j]
    <3>1. CASE i = m + 1
      <4>1. at[i] + j \in 1..at[i + 1] /\ at[i + 1] = at[(m + 1) + 1] /\ at[i + 1] \in Nat
        BY <2>4, <2>6, <3>1, SMTT(60)
      <4>2. r[Len(a) + j] = b[j]
        BY <2>9, <2>11, <3>1
      <4>3. at[i] = Len(a) /\ b = seqs[i]
        BY <2>8, <2>9, <3>1
      <4>4. g[m + 1][at[i] + j] = seqs[i][j]
        <5>1. g[m + 1] = r
          BY <2>7, <2>9
        <5> QED BY <4>2, <4>3, <5>1
      <4>5. at[i + 1] <= at[(m + 1) + 1]
        BY <4>1
      <4> QED BY <4>1, <4>4, <4>5
    <3>2. CASE i # m + 1
      <4>1. i \in 1..m
        BY <3>2
      <4>2. at[i] + j \in 1..at[i + 1] /\ at[i + 1] <= at[m + 1] /\ g[m][at[i] + j] = seqs[i][j]
        BY <2>3, <4>1
      <4>3. i \in 1..n
        BY <4>1
      <4>4. at[i + 1] \in Nat
        <5>1. i + 1 \in 1..(n + 1)
          BY <4>3
        <5> QED BY <5>1
      <4>5. at[i] + j \in 1..Len(a)
        <5>1. PICK u \in Nat, v \in Nat, w \in Nat : u = at[i] /\ v = at[i + 1] /\ w = at[m + 1]
          <6>1. i \in 1..(n + 1)
            BY <4>3
          <6> QED BY <2>4, <4>4, <6>1
        <5>2. u + j \in 1..v /\ v <= w
          BY <4>2, <5>1
        <5>3. u + j \in 1..w
          BY <5>2
        <5> QED BY <2>8, <2>9, <5>1, <5>3
      <4>6. r[at[i] + j] = a[at[i] + j]
        BY <2>11, <4>5
      <4>7. at[i + 1] <= at[(m + 1) + 1]
        <5>1. PICK v \in Nat, w \in Nat, l \in Nat : v = at[i + 1] /\ w = at[m + 1] /\ l = Len(seqs[m + 1])
          BY <2>4, <2>6, <4>4
        <5>2. v <= w /\ at[(m + 1) + 1] = w + l
          BY <2>6, <4>2, <5>1
        <5>3. v <= w + l
          BY <5>2
        <5> QED BY <5>1, <5>2, <5>3
      <4> QED BY <2>7, <2>9, <4>2, <4>6, <4>7
    <3> QED BY <3>1, <3>2
  <2>13. Here(m + 1)
    <3>1. g[m + 1] = r
      BY <2>7, <2>9
    <3>2. Len(g[m + 1]) = at[(m + 1) + 1]
      BY <2>6, <2>8, <2>9, <2>11, <3>1
    <3> QED BY <2>11, <2>12, <3>1, <3>2
  <2> HIDE DEF Here
  <2>14. m + 1 = k + 2
    BY <2>2
  <2> QED BY <2>4, <2>13, <2>14
<1>9. \A k \in Nat : k \in P
  <2> HIDE DEF P
  <2> QED BY <1>7, <1>8, Induction
<1>10. Here(n)
  <2>1. n - 1 \in Nat /\ (n - 1) + 1 = n
    OBVIOUS
  <2>2. n - 1 \in P
    <3> HIDE DEF P
    <3> QED BY <1>9, <2>1
  <2> HIDE DEF Here
  <2> QED BY <2>1, <2>2
<1> HIDE DEF P
<1> QED
  BY <1>4, <1>10 DEF Laid

-----------------------------------------------------------------------------
(* What the index holds of a sample. *)
EntryOK(se) ==
  /\ se.offset \in Nat /\ se.size \in Nat
  /\ se.timestamp \in 0..(WORD - 1) /\ se.composition \in Nat

Flags(se) == IF video(se) THEN IF keyframe(se) THEN 3 ELSE 1 ELSE 0

Tells(r, se) ==
  /\ r \in Seq(Nat) /\ Len(r) = 16
  /\ \A i \in 1..4 : /\ r[i] = (se.offset \div Power[4 - i]) % BYTE
                     /\ r[4 + i] = (se.size \div Power[4 - i]) % BYTE
                     /\ r[8 + i] = (se.timestamp \div Power[4 - i]) % BYTE
  /\ \A i \in 1..3 : r[12 + i] = (composition_offset(se) \div Power[3 - i]) % BYTE
  /\ r[16] = Flags(se)

LEMMA Widths ==
  /\ WORD = BYTE * U24 /\ U24 \in Nat \ {0} /\ WORD \in Nat \ {0}
  /\ U24 <= WORD \div 2
<1>1. BYTE \in Nat /\ BYTE >= 2
  BY ByteIs
<1>2. 3 \in 0..8 /\ 4 \in 1..8 /\ 4 \in 0..8 /\ 4 - 1 = 3
  OBVIOUS
<1>3. PICK u \in Nat \ {0} : u = Power[3]
  BY <1>2, Powers
<1>4. Power[4] = BYTE * u
  BY <1>2, <1>3, Powers
<1>5. PICK w \in Nat \ {0} : w = Power[4]
  BY <1>2, Powers
<1>6. w >= 2 * u
  <2>1. PICK b \in Nat : b = BYTE /\ b >= 2
    BY <1>1
  <2>2. w = b * u
    BY <1>4, <1>5, <2>1
  <2>3. b * u >= 2 * u
    BY <2>1
  <2> QED BY <2>2, <2>3
<1>7. u <= w \div 2
  BY <1>6
<1> QED
  BY <1>3, <1>4, <1>5, <1>7 DEF U24, WORD

LEMMA RecordTells ==
  ASSUME NEW se, EntryOK(se)
  PROVE  Tells(Record(se), se)
<1>1. PICK o \in Nat, s \in Nat, ts \in Nat : o = se.offset /\ s = se.size /\ ts = se.timestamp
  BY DEF EntryOK
<1>2. PICK c \in Nat : c = composition_offset(se)
  <2>1. U24 \in Nat \ {0} /\ se.composition \in Nat
    BY Widths DEF EntryOK
  <2>2. se.composition % U24 \in Nat
    BY <2>1, QuotientIsNat
  <2> QED BY <2>2 DEF composition_offset
<1>3. PICK f \in Nat : f = Flags(se)
  BY DEF Flags
<1>4. PICK a, b, d, e, g : a = Write(o, 4) /\ b = Write(s, 4) /\ d = Write(ts, 4) /\ e = Write(c, 3) /\ g = <<f>>
  OBVIOUS
<1>5. 4 \in 0..8 /\ 3 \in 0..8
  OBVIOUS
<1>6. a \in Seq(Nat) /\ Len(a) = 4 /\ \A i \in 1..4 : a[i] = (o \div Power[4 - i]) % BYTE
  BY <1>4, <1>5, Written
<1>7. b \in Seq(Nat) /\ Len(b) = 4 /\ \A i \in 1..4 : b[i] = (s \div Power[4 - i]) % BYTE
  BY <1>4, <1>5, Written
<1>8. d \in Seq(Nat) /\ Len(d) = 4 /\ \A i \in 1..4 : d[i] = (ts \div Power[4 - i]) % BYTE
  BY <1>4, <1>5, Written
<1>9. e \in Seq(Nat) /\ Len(e) = 3 /\ \A i \in 1..3 : e[i] = (c \div Power[3 - i]) % BYTE
  BY <1>4, <1>5, Written
<1>10. g \in Seq(Nat) /\ Len(g) = 1 /\ g[1] = f
  BY <1>4
<1>11. PICK x : x = a \o b
  OBVIOUS
<1>12. PICK y : y = x \o d
  OBVIOUS
<1>13. PICK z : z = y \o e
  OBVIOUS
<1>14. PICK r : r = z \o g
  OBVIOUS
<1>15. /\ x \in Seq(Nat) /\ Len(x) = 8
       /\ \A i \in 1..4 : x[i] = a[i]
       /\ \A i \in 1..4 : x[4 + i] = b[i]
  <2>1. Joined(x, a, b, Nat)
    BY <1>6, <1>7, <1>11, Concatenated
  <2> QED BY <1>6, <1>7, <2>1 DEF Joined
<1>16. /\ y \in Seq(Nat) /\ Len(y) = 12
       /\ \A i \in 1..8 : y[i] = x[i]
       /\ \A i \in 1..4 : y[8 + i] = d[i]
  <2>1. Joined(y, x, d, Nat)
    BY <1>8, <1>12, <1>15, Concatenated
  <2> QED BY <1>8, <1>15, <2>1 DEF Joined
<1>17. /\ z \in Seq(Nat) /\ Len(z) = 15
       /\ \A i \in 1..12 : z[i] = y[i]
       /\ \A i \in 1..3 : z[12 + i] = e[i]
  <2>1. Joined(z, y, e, Nat)
    BY <1>9, <1>13, <1>16, Concatenated
  <2> QED BY <1>9, <1>16, <2>1 DEF Joined
<1>18. /\ r \in Seq(Nat) /\ Len(r) = 16
       /\ \A i \in 1..15 : r[i] = z[i]
       /\ r[16] = f
  <2>1. Joined(r, z, g, Nat)
    BY <1>10, <1>14, <1>17, Concatenated
  <2>2. r[15 + 1] = g[1]
    BY <1>10, <1>17, <2>1 DEF Joined
  <2> QED BY <1>10, <1>17, <2>1, <2>2 DEF Joined
<1>19. Record(se) = r
  BY <1>1, <1>2, <1>3, <1>4, <1>11, <1>12, <1>13, <1>14, Zenon DEF Record, Flags
<1>20. ASSUME NEW i \in 1..4 PROVE r[i] = a[i] /\ r[4 + i] = b[i] /\ r[8 + i] = d[i]
  <2>1. /\ i \in 1..8 /\ i \in 1..12 /\ i \in 1..15
        /\ 4 + i \in 1..8 /\ 4 + i \in 1..12 /\ 4 + i \in 1..15
        /\ 8 + i \in 1..12 /\ 8 + i \in 1..15
    OBVIOUS
  <2>2. r[i] = a[i]
    BY <1>15, <1>16, <1>17, <1>18, <2>1
  <2>3. r[4 + i] = b[i]
    BY <1>15, <1>16, <1>17, <1>18, <2>1, SMTT(60)
  <2>4. r[8 + i] = d[i]
    BY <1>16, <1>17, <1>18, <2>1
  <2> QED BY <2>2, <2>3, <2>4
<1>21. ASSUME NEW i \in 1..3 PROVE r[12 + i] = e[i]
  <2>1. 12 + i \in 1..15
    OBVIOUS
  <2> QED BY <1>17, <1>18, <2>1
<1>22. Tells(r, se)
  <2>1. ASSUME NEW i \in 1..4
        PROVE  /\ r[i] = (se.offset \div Power[4 - i]) % BYTE
               /\ r[4 + i] = (se.size \div Power[4 - i]) % BYTE
               /\ r[8 + i] = (se.timestamp \div Power[4 - i]) % BYTE
    BY <1>1, <1>6, <1>7, <1>8, <1>20, Zenon
  <2>2. ASSUME NEW i \in 1..3 PROVE r[12 + i] = (composition_offset(se) \div Power[3 - i]) % BYTE
    BY <1>2, <1>9, <1>21, Zenon
  <2> QED BY <1>3, <1>18, <2>1, <2>2, Zenon DEF Tells
<1> QED
  BY <1>19, <1>22

(* Remainders of what is small enough already. *)
LEMMA SmallRemainder ==
  ASSUME NEW n \in Nat \ {0}, NEW a \in Nat, a < n
  PROVE  a % n = a
<1>1. a = n * 0 + a /\ a \in 0..(n - 1) /\ a \in Int /\ 0 \in Int
  OBVIOUS
<1> QED
  BY <1>1, DivisionIs

LEMMA RemainderTwice ==
  ASSUME NEW n \in Nat \ {0}, NEW a \in Nat
  PROVE  a % n \in 0..(n - 1) /\ (a % n) % n = a % n
<1>1. a \in Int
  OBVIOUS
<1>2. PICK d \in 0..(n - 1) : d = a % n
  BY <1>1, Division
<1>3. d \in Nat /\ d < n
  OBVIOUS
<1>4. d % n = d
  BY <1>3, SmallRemainder
<1> QED
  BY <1>2, <1>4

(* Reads of the fields at position p of a sequence that holds the record.   *)
FieldsAt(ix, p, se) ==
  /\ Read(ix, p, 4) = se.offset % WORD
  /\ Read(ix, p + 4, 4) = se.size % WORD
  /\ Read(ix, p + 8, 4) = se.timestamp
  /\ Read(ix, p + 12, 3) = composition_offset(se)
  /\ ix[p + 15] = Flags(se)

LEMMA FieldsRead ==
  ASSUME NEW ix, NEW p \in Nat, NEW se, EntryOK(se), NEW r, Tells(r, se),
         \A j \in 1..16 : ix[p + j - 1] = r[j]
  PROVE  FieldsAt(ix, p, se)
<1>1. PICK o \in Nat, s \in Nat, ts \in Nat : o = se.offset /\ s = se.size /\ ts = se.timestamp
  BY DEF EntryOK
<1>2. WORD \in Nat \ {0} /\ U24 \in Nat \ {0} /\ WORD = Power[4] /\ U24 = Power[3]
  BY Widths DEF WORD, U24
<1>3. PICK c \in Nat : c = composition_offset(se) /\ c % U24 = c
  <2>1. PICK n \in Nat : n = se.composition
    BY DEF EntryOK
  <2>2. n % U24 \in Nat /\ (n % U24) % U24 = n % U24
    BY <1>2, QuotientIsNat, RemainderTwice
  <2> QED BY <2>1, <2>2 DEF composition_offset
<1>4. ts % WORD = ts
  <2>1. ts < WORD
    BY <1>1, <1>2 DEF EntryOK
  <2> QED BY <1>2, <2>1, SmallRemainder
<1>5. 4 \in 0..8 /\ 3 \in 0..8 /\ p + 4 \in Nat /\ p + 8 \in Nat /\ p + 12 \in Nat
  OBVIOUS
<1>6. ASSUME NEW i \in 1..4 PROVE ix[p + i - 1] = (o \div Power[4 - i]) % BYTE
  <2>1. i \in 1..16
    OBVIOUS
  <2> QED BY <1>1, <2>1 DEF Tells
<1>7. ASSUME NEW i \in 1..4 PROVE ix[(p + 4) + i - 1] = (s \div Power[4 - i]) % BYTE
  <2>1. 4 + i \in 1..16 /\ p + (4 + i) - 1 = (p + 4) + i - 1
    OBVIOUS
  <2>2. ix[p + (4 + i) - 1] = r[4 + i]
    BY <2>1
  <2> QED BY <1>1, <2>1, <2>2 DEF Tells
<1>8. ASSUME NEW i \in 1..4 PROVE ix[(p + 8) + i - 1] = (ts \div Power[4 - i]) % BYTE
  <2>1. 8 + i \in 1..16 /\ p + (8 + i) - 1 = (p + 8) + i - 1
    OBVIOUS
  <2>2. ix[p + (8 + i) - 1] = r[8 + i]
    BY <2>1
  <2> QED BY <1>1, <2>1, <2>2 DEF Tells
<1>9. ASSUME NEW i \in 1..3 PROVE ix[(p + 12) + i - 1] = (c \div Power[3 - i]) % BYTE
  <2>1. 12 + i \in 1..16 /\ p + (12 + i) - 1 = (p + 12) + i - 1
    OBVIOUS
  <2>2. ix[p + (12 + i) - 1] = r[12 + i]
    BY <2>1
  <2> QED BY <1>3, <2>1, <2>2 DEF Tells
<1>10. ix[p + 15] = Flags(se)
  <2>1. 16 \in 1..16 /\ p + 16 - 1 = p + 15
    OBVIOUS
  <2>2. ix[p + 16 - 1] = r[16]
    BY <2>1
  <2> QED BY <2>1, <2>2 DEF Tells
<1>11. Read(ix, p, 4) = o % Power[4]
  BY <1>5, <1>6, ReadBack
<1>12. Read(ix, p + 4, 4) = s % Power[4]
  BY <1>5, <1>7, ReadBack
<1>13. Read(ix, p + 8, 4) = ts % Power[4]
  BY <1>5, <1>8, ReadBack
<1>14. Read(ix, p + 12, 3) = c % Power[3]
  BY <1>5, <1>9, ReadBack
<1> QED
  BY <1>1, <1>2, <1>3, <1>4, <1>10, <1>11, <1>12, <1>13, <1>14, Zenon DEF FieldsAt

LEMMA HeadRead ==
  ASSUME NEW bytes, NEW n \in Nat, \A i \in 1..4 : bytes[i] = (n \div Power[4 - i]) % BYTE
  PROVE  Read(bytes, 1, 4) = n % WORD
<1>1. 4 \in 0..8 /\ 1 \in Nat
  OBVIOUS
<1>2. ASSUME NEW i \in 1..4 PROVE bytes[1 + i - 1] = (n \div Power[4 - i]) % BYTE
  <2>1. 1 + i - 1 = i
    OBVIOUS
  <2> QED BY <2>1
<1>3. Read(bytes, 1, 4) = n % Power[4]
  BY <1>1, <1>2, ReadBack
<1> QED
  BY <1>3 DEF WORD

(* The whole index: its size and, from position 5 on, its records. *)
LEMMA IndexReads ==
  ASSUME NEW N \in Nat, NEW n \in Nat \ {0}, NEW es, \A k \in 1..n : EntryOK(es[k]), NEW ix,
         ix = Write(N, 4) \o FlattenSeq([k \in 1..n |-> Record(es[k])])
  PROVE  /\ Read(ix, 1, 4) = N % WORD
         /\ \A k \in 1..n : FieldsAt(ix, 5 + 16 * (k - 1), es[k])
<1>1. PICK rs : rs = [k \in 1..n |-> Record(es[k])]
  OBVIOUS
<1>2. Len(rs) = n
  BY <1>1
<1>3. ASSUME NEW k \in 1..n PROVE Tells(rs[k], es[k])
  <2>1. rs[k] = Record(es[k])
    BY <1>1
  <2>2. Tells(Record(es[k]), es[k])
    BY RecordTells
  <2> QED BY <2>1, <2>2
<1>4. \A k \in 1..n : rs[k] \in Seq(Nat) /\ Len(rs[k]) = 16
  BY <1>3 DEF Tells
<1>5. PICK at : at = [k \in 1..(n + 1) |-> 16 * (k - 1)]
  OBVIOUS
<1>6. /\ \A k \in 1..(n + 1) : at[k] \in Nat /\ at[k] = 16 * (k - 1)
      /\ at[1] = 0
      /\ \A k \in 1..n : at[k + 1] = at[k] + Len(rs[k])
  <2>1. \A k \in 1..(n + 1) : at[k] = 16 * (k - 1)
    BY <1>5
  <2>2. \A k \in 1..(n + 1) : 16 * (k - 1) \in Nat
    OBVIOUS
  <2>3. ASSUME NEW k \in 1..n PROVE at[k + 1] = at[k] + Len(rs[k])
    <3>1. k \in 1..(n + 1) /\ k + 1 \in 1..(n + 1)
      OBVIOUS
    <3>2. at[k + 1] = 16 * ((k + 1) - 1) /\ at[k] = 16 * (k - 1)
      BY <2>1, <3>1
    <3>3. 16 * ((k + 1) - 1) = 16 * (k - 1) + 16
      OBVIOUS
    <3>4. Len(rs[k]) = 16
      BY <1>4
    <3> QED BY <3>2, <3>3, <3>4
  <2>4. at[1] = 0
    <3>1. 1 \in 1..(n + 1)
      OBVIOUS
    <3> QED BY <2>1, <3>1
  <2> QED BY <2>1, <2>2, <2>3, <2>4
<1>7. PICK flat : flat = FlattenSeq(rs)
  OBVIOUS
<1>8. Laid(flat, rs, n, at, Nat)
  <2>1. \A k \in 1..n : rs[k] \in Seq(Nat)
    BY <1>4
  <2>2. \A k \in 1..(n + 1) : at[k] \in Nat
    BY <1>6
  <2>3. at[1] = 0 /\ \A k \in 1..n : at[k + 1] = at[k] + Len(rs[k])
    BY <1>6
  <2>4. Laid(FlattenSeq(rs), rs, n, at, Nat)
    BY <1>2, <2>1, <2>2, <2>3, FlattenLays
  <2> QED BY <1>7, <2>4
<1>9. PICK h : h = Write(N, 4)
  OBVIOUS
<1>10. h \in Seq(Nat) /\ Len(h) = 4 /\ \A i \in 1..4 : h[i] = (N \div Power[4 - i]) % BYTE
  <2>1. 4 \in 0..8
    OBVIOUS
  <2> QED BY <1>9, <2>1, Written
<1>11. Joined(ix, h, flat, Nat)
  <2>1. ix = h \o flat
    BY <1>1, <1>7, <1>9
  <2>2. flat \in Seq(Nat)
    BY <1>8 DEF Laid
  <2>3. Joined(h \o flat, h, flat, Nat)
    BY <1>10, <2>2, Concatenated
  <2> QED BY <2>1, <2>3, Zenon
<1>12. Read(ix, 1, 4) = N % WORD
  <2>1. ASSUME NEW i \in 1..4 PROVE ix[i] = (N \div Power[4 - i]) % BYTE
    <3>1. i \in 1..Len(h)
      BY <1>10
    <3>2. ix[i] = h[i]
      BY <1>11, <3>1 DEF Joined
    <3> QED BY <1>10, <3>1, <3>2
  <2> QED BY <2>1, HeadRead
<1>13. ASSUME NEW k \in 1..n PROVE FieldsAt(ix, 5 + 16 * (k - 1), es[k])
  <2>1. PICK p \in Nat : p = 5 + 16 * (k - 1)
    <3>1. 5 + 16 * (k - 1) \in Nat
      OBVIOUS
    <3> QED BY <3>1
  <2>2. ASSUME NEW j \in 1..16 PROVE ix[p + j - 1] = rs[k][j]
    <3>1. PICK a \in Nat, b \in Nat, l \in Nat : a = at[k] /\ b = at[k + 1] /\ l = at[n + 1]
      <4>1. k \in 1..(n + 1) /\ k + 1 \in 1..(n + 1) /\ n + 1 \in 1..(n + 1)
        OBVIOUS
      <4> QED BY <1>6, <4>1
    <3>2. p = 5 + a
      <4>1. k \in 1..(n + 1)
        OBVIOUS
      <4> QED BY <1>6, <2>1, <3>1, <4>1
    <3>3. j \in 1..Len(rs[k])
      BY <1>4
    <3>4. a + j \in 1..b /\ b <= l /\ flat[a + j] = rs[k][j] /\ Len(flat) = l
      BY <1>8, <3>1, <3>3 DEF Laid
    <3>5. PICK q \in Nat : q = a + j
      OBVIOUS
    <3>6. q \in 1..Len(flat)
      BY <3>4, <3>5
    <3>7. ix[4 + q] = flat[q]
      BY <1>10, <1>11, <3>6 DEF Joined
    <3>8. 4 + q = p + j - 1
      BY <3>2, <3>5
    <3> QED BY <3>4, <3>5, <3>7, <3>8
  <2>3. FieldsAt(ix, p, es[k])
    BY <1>3, <2>2, FieldsRead
  <2> QED BY <2>1, <2>3
<1> QED
  BY <1>12, <1>13

-----------------------------------------------------------------------------
(* Both programs make the same packet of the same sample. *)
LEMMA SameVideo ==
  ASSUME NEW key, NEW header, NEW comp \in Nat, NEW ts, NEW data, Len(data) \in Nat
  PROVE  SentVideo(key, header, comp, ts, data) = write_video_packet(key, header, comp, ts, data)
<1>1. PICK m : m = Write(comp, 3)
  OBVIOUS
<1>2. Len(m) = 3
  <2>1. 3 \in 0..8
    OBVIOUS
  <2> QED BY <1>1, <2>1, Written
<1>3. PICK l \in Nat : l = Len(data)
  OBVIOUS
<1>4. Len(m) + 2 + Len(data) = l + 5
  BY <1>2, <1>3
<1>5. Packet(9, IF key \/ header THEN 23 ELSE 39, header, ts, m, data) =
        <<9>> \o Write(l + 5, 3) \o Write(ts % U24, 3) \o <<(ts \div U24) % BYTE>>
          \o Write(0, 3) \o <<IF key \/ header THEN 23 ELSE 39, IF header THEN 0 ELSE 1>>
          \o m \o data \o Write(l + 5 + 11, 4)
  BY <1>4, Zenon DEF Packet
<1> QED
  BY <1>1, <1>3, <1>5, Zenon DEF SentVideo, write_video_packet

LEMMA SameAudio ==
  ASSUME NEW header, NEW ts \in Nat, NEW data, Len(data) \in Nat
  PROVE  SentAudio(header, ts, data) = write_audio_packet(header, ts, data)
<1>1. PICK l \in Nat : l = Len(data)
  OBVIOUS
<1>2. Len(<<>>) + 2 + Len(data) = l + 2
  BY <1>1
<1>3. PICK h : h = <<175, IF header THEN 0 ELSE 1>>
  OBVIOUS
<1>4. h \in Seq(Nat)
  <2>1. PICK n \in Nat : n = IF header THEN 0 ELSE 1
    OBVIOUS
  <2>2. <<175, n>> \in Seq(Nat)
    OBVIOUS
  <2> QED BY <1>3, <2>1, <2>2
<1>5. PICK t \in Nat, u \in Nat : t = ts % U24 /\ u = (ts \div U24) % BYTE
  <2>1. U24 \in Nat \ {0} /\ BYTE \in Nat \ {0}
    BY Widths, ByteIs
  <2>2. ts % U24 \in Nat /\ ts \div U24 \in Nat
    BY <2>1, QuotientIsNat
  <2>3. (ts \div U24) % BYTE \in Nat
    BY <2>1, <2>2, QuotientIsNat
  <2> QED BY <2>2, <2>3
<1>6. PICK a, b, c : a = Write(l + 2, 3) /\ b = Write(t, 3) /\ c = Write(0, 3)
  OBVIOUS
<1>7. a \in Seq(Nat) /\ b \in Seq(Nat) /\ c \in Seq(Nat)
  <2>1. 3 \in 0..8 /\ l + 2 \in Nat /\ 0 \in Nat
    OBVIOUS
  <2> QED BY <1>6, <2>1, Written
<1>8. PICK x : x = <<8>> \o a \o b \o <<u>> \o c \o h
  OBVIOUS
<1>9. x \in Seq(Nat)
  <2>1. <<8>> \in Seq(Nat) /\ <<u>> \in Seq(Nat)
    OBVIOUS
  <2>2. <<8>> \o a \in Seq(Nat)
    BY <1>7, <2>1, ConcatProperties
  <2>3. <<8>> \o a \o b \in Seq(Nat)
    BY <1>7, <2>2, ConcatProperties
  <2>4. <<8>> \o a \o b \o <<u>> \in Seq(Nat)
    BY <2>1, <2>3, ConcatProperties
  <2>5. <<8>> \o a \o b \o <<u>> \o c \in Seq(Nat)
    BY <1>7, <2>4, ConcatProperties
  <2>6. <<8>> \o a \o b \o <<u>> \o c \o h \in Seq(Nat)
    BY <1>4, <2>5, ConcatProperties
  <2> QED BY <1>8, <2>6
<1>10. x \o <<>> = x
  BY <1>9, ConcatEmptySeq
<1>11. Packet(8, 175, header, ts, <<>>, data) =
         <<8>> \o Write(l + 2, 3) \o Write(ts % U24, 3) \o <<(ts \div U24) % BYTE>>
           \o Write(0, 3) \o <<175, IF header THEN 0 ELSE 1>>
           \o <<>> \o data \o Write(l + 2 + 11, 4)
  BY <1>2, Zenon DEF Packet
<1>12. Packet(8, 175, header, ts, <<>>, data) = x \o <<>> \o data \o Write(l + 2 + 11, 4)
  BY <1>3, <1>5, <1>6, <1>8, <1>11, Zenon
<1>13. write_audio_packet(header, ts, data) = x \o data \o Write(l + 2 + 11, 4)
  BY <1>1, <1>3, <1>5, <1>6, <1>8, Zenon DEF write_audio_packet
<1> QED
  BY <1>10, <1>12, <1>13, Zenon DEF SentAudio

LEMMA SourceBytesAre ==
  ASSUME NEW o \in Nat, NEW n \in Nat
  PROVE  SourceBytes(o, n) \in Seq(Nat) /\ Len(SourceBytes(o, n)) = n
BY DEF SourceBytes

LEMMA SameSample ==
  ASSUME NEW se, EntryOK(se), se.offset < WORD, se.size < WORD, NEW p \in Nat, FieldsAt(index, p, se)
  PROVE  SentSample(p) = SamplePacket(se)
<1>1. PICK o \in Nat, s \in Nat, ts \in Nat : o = se.offset /\ s = se.size /\ ts = se.timestamp
  BY DEF EntryOK
<1>2. WORD \in Nat \ {0} /\ U24 \in Nat \ {0}
  BY Widths
<1>3. o % WORD = o /\ s % WORD = s
  BY <1>1, <1>2, SmallRemainder
<1>4. Read(index, p, 4) = o /\ Read(index, p + 4, 4) = s /\ Read(index, p + 8, 4) = ts
  BY <1>1, <1>3, Zenon DEF FieldsAt
<1>5. PICK c \in Nat : c = composition_offset(se)
  <2>1. se.composition \in Nat
    BY DEF EntryOK
  <2>2. se.composition % U24 \in Nat
    BY <1>2, <2>1, QuotientIsNat
  <2> QED BY <2>2 DEF composition_offset
<1>6. Read(index, p + 12, 3) = c /\ index[p + 15] = Flags(se)
  BY <1>5, Zenon DEF FieldsAt
<1>7. PICK data : data = SourceBytes(o, s)
  OBVIOUS
<1>8. Len(data) \in Nat
  BY <1>7, SourceBytesAre
<1>9. CASE video(se)
  <2>1. Flags(se) > 0
    BY <1>9 DEF Flags
  <2>2. PICK f : f = Flags(se)
    OBVIOUS
  <2>3. ((f \div 2) % 2 = 1) <=> keyframe(se)
    <3>1. CASE keyframe(se)
      <4>1. f = 3
        BY <1>9, <2>2, <3>1 DEF Flags
      <4>2. 3 = 2 * 1 + 1 /\ 1 = 2 * 0 + 1
        OBVIOUS
      <4>3. 3 \div 2 = 1 /\ 1 % 2 = 1
        OBVIOUS
      <4> QED BY <3>1, <4>1, <4>3
    <3>2. CASE ~keyframe(se)
      <4>1. f = 1
        BY <1>9, <2>2, <3>2 DEF Flags
      <4>2. 1 \div 2 = 0 /\ 0 % 2 = 0
        OBVIOUS
      <4> QED BY <3>2, <4>1, <4>2
    <3> QED BY <3>1, <3>2
  <2>8. PICK key, header : key = ((f \div 2) % 2 = 1) /\ header = FALSE
    OBVIOUS
  <2>4. SentSample(p) = SentVideo(key, header, c, ts, data)
    BY <1>4, <1>6, <1>7, <2>1, <2>2, <2>8, Zenon DEF SentSample
  <2>5. SentVideo(key, header, c, ts, data) = write_video_packet(key, header, c, ts, data)
    BY <1>8, SameVideo
  <2>6. SamplePacket(se) = write_video_packet(keyframe(se), header, c, ts, data)
    BY <1>1, <1>5, <1>7, <1>9, <2>8, Zenon DEF SamplePacket
  <2>7. write_video_packet(key, header, c, ts, data) = write_video_packet(keyframe(se), header, c, ts, data)
    BY <2>3, <2>8, Zenon DEF write_video_packet
  <2> QED BY <2>4, <2>5, <2>6, <2>7, Zenon
<1>10. CASE ~video(se)
  <2>1. ~(Flags(se) > 0)
    BY <1>10 DEF Flags
  <2>2. SentSample(p) = SentAudio(FALSE, ts, data)
    BY <1>4, <1>6, <1>7, <2>1, Zenon DEF SentSample
  <2>3. SamplePacket(se) = write_audio_packet(FALSE, ts, data)
    BY <1>1, <1>7, <1>10, Zenon DEF SamplePacket
  <2>4. SentAudio(FALSE, ts, data) = write_audio_packet(FALSE, ts, data)
    BY <1>8, SameAudio
  <2> QED BY <2>2, <2>3, <2>4
<1> QED
  BY <1>9, <1>10

(* What the two programs write before the samples, for any codec data. *)
CodecOf(v, ex) == [k \in 1..ex[v] |-> (IF v THEN 300 ELSE 400) + k]

PrefixOf(ts, ex) ==
  (IF ex[TRUE] > 0 THEN write_video_packet(TRUE, TRUE, 0, ts, CodecOf(TRUE, ex)) ELSE <<>>)
    \o (IF ex[FALSE] > 0 THEN write_audio_packet(TRUE, ts, CodecOf(FALSE, ex)) ELSE <<>>)

SentPrefixOf(ts, ex) ==
  SentVideo(TRUE, TRUE, 0, ts, CodecOf(TRUE, ex)) \o SentAudio(TRUE, ts, CodecOf(FALSE, ex))

LEMMA CodecOfIs ==
  ASSUME NEW ex, NEW v \in BOOLEAN, ex[v] \in Nat
  PROVE  CodecOf(v, ex) \in Seq(Nat) /\ Len(CodecOf(v, ex)) = ex[v]
<1>1. PICK n \in Nat : n = ex[v]
  OBVIOUS
<1>2. PICK c \in Nat : c = IF v THEN 300 ELSE 400
  OBVIOUS
<1>3. CodecOf(v, ex) = [k \in 1..n |-> c + k]
  BY <1>1, <1>2, Zenon DEF CodecOf
<1>4. PICK s : s = [k \in 1..n |-> c + k]
  OBVIOUS
<1>5. s \in Seq(Nat) /\ Len(s) = n
  BY <1>4
<1> QED
  BY <1>1, <1>3, <1>4, <1>5

LEMMA CodecsAre ==
  ASSUME NEW ex, ex[TRUE] \in Nat, ex[FALSE] \in Nat
  PROVE  /\ CodecOf(TRUE, ex) \in Seq(Nat) /\ Len(CodecOf(TRUE, ex)) = ex[TRUE]
         /\ CodecOf(FALSE, ex) \in Seq(Nat) /\ Len(CodecOf(FALSE, ex)) = ex[FALSE]
<1>1. TRUE \in BOOLEAN /\ FALSE \in BOOLEAN
  OBVIOUS
<1> QED
  BY <1>1, CodecOfIs, Zenon

LEMMA ZeroIsNat == 0 \in Nat
OBVIOUS

LEMMA PositiveIs ==
  ASSUME NEW n \in Nat \ {0}
  PROVE  n > 0
OBVIOUS

(* With both tracks they write the same. *)
LEMMA SamePrefix ==
  ASSUME NEW ex, NEW m \in Nat \ {0}, NEW n \in Nat \ {0}, m = ex[TRUE], n = ex[FALSE], NEW ts \in Nat
  PROVE  SentPrefixOf(ts, ex) = PrefixOf(ts, ex)
<1>1. PICK v, a : v = CodecOf(TRUE, ex) /\ a = CodecOf(FALSE, ex)
  OBVIOUS
<1>2. Len(v) \in Nat /\ Len(a) \in Nat
  <2>1. ex[TRUE] \in Nat /\ ex[FALSE] \in Nat
    <3>1. m \in Nat /\ n \in Nat
      OBVIOUS
    <3> QED BY <3>1, Zenon
  <2> QED BY <1>1, <2>1, CodecsAre, Zenon
<1>3. SentVideo(TRUE, TRUE, 0, ts, v) = write_video_packet(TRUE, TRUE, 0, ts, v)
  <2>1. PICK zero \in Nat : zero = 0
    BY ZeroIsNat, Zenon
  <2>2. PICK t : t = TRUE
    OBVIOUS
  <2>3. SentVideo(t, t, zero, ts, v) = write_video_packet(t, t, zero, ts, v)
    BY <1>2, SameVideo
  <2> QED BY <2>1, <2>2, <2>3, Zenon
<1>4. SentAudio(TRUE, ts, a) = write_audio_packet(TRUE, ts, a)
  BY <1>2, SameAudio, Zenon
<1>5. m > 0 /\ n > 0
  BY PositiveIs, Zenon
<1>6. ex[TRUE] > 0 /\ ex[FALSE] > 0
  BY <1>5, Zenon
<1> QED
  BY <1>1, <1>3, <1>4, <1>6, Zenon DEF SentPrefixOf, PrefixOf

-----------------------------------------------------------------------------
(* What SizeSent counts, for any entries. *)
SentBytes(se) == 11 + (IF video(se) THEN 5 ELSE 2) + se.size + 4

SentUpTo(es) ==
  LET upto[k \in 0..Len(es)] == IF k = 0 THEN 0 ELSE upto[k - 1] + SentBytes(es[k])
  IN  upto

LEMMA SizeSentIs == SizeSent = SentUpTo(entries)
BY Zenon DEF SizeSent, SentUpTo, SentBytes

LEMMA SentUpToIs ==
  ASSUME NEW es, NEW n \in Nat, n = Len(es), \A k \in 1..n : es[k].size \in Nat
  PROVE  /\ SentUpTo(es)[0] = 0
         /\ \A k \in 1..n : SentUpTo(es)[k] = SentUpTo(es)[k - 1] + SentBytes(es[k])
         /\ \A k \in 0..n : SentUpTo(es)[k] \in Nat
<1> DEFINE Adds(g) == [k \in 0..n |-> IF k = 0 THEN 0 ELSE g[k - 1] + SentBytes(es[k])]
<1>1. ASSUME NEW k \in 1..n PROVE SentBytes(es[k]) \in Nat
  <2>1. PICK b \in Nat, c \in Nat : b = es[k].size /\ c = IF video(es[k]) THEN 5 ELSE 2
    OBVIOUS
  <2>2. 11 + c + b + 4 \in Nat
    OBVIOUS
  <2> QED BY <2>1, <2>2 DEF SentBytes
<1>2. \E g : g = Adds(g)
  <2>1. PICK F : F = [q \in (1..n) \X Nat |-> q[2] + SentBytes(es[q[1]])]
    OBVIOUS
  <2>2. \A i \in 1..n, v \in Nat : F[<<i, v>>] = v + SentBytes(es[i])
    BY <2>1
  <2>3. ASSUME NEW i \in (0 + 1)..n, NEW v \in Nat PROVE F[<<i, v>>] \in Nat
    <3>1. i \in 1..n
      OBVIOUS
    <3>2. SentBytes(es[i]) \in Nat
      BY <1>1, <3>1
    <3> QED BY <2>2, <3>1, <3>2
  <2>4. PICK g : g \in [0..n -> Nat] /\ g[0] = 0 /\ \A i \in 1..n : g[i] = F[<<i, g[i - 1]>>]
    <3>1. 0 \in Int /\ n \in Int /\ 0 <= n /\ 0 \in Nat
      OBVIOUS
    <3>2. PICK g : Recursion(g, 0, n, Nat, 0, F)
      BY <2>3, <3>1, RecursionExists, Zenon
    <3>3. g \in [0..n -> Nat] /\ g[0] = 0
      BY <3>2 DEF Recursion
    <3>4. \A i \in (0 + 1)..n : g[i] = F[<<i, g[i - 1]>>]
      BY <3>2 DEF Recursion
    <3>5. \A i \in 1..n : g[i] = F[<<i, g[i - 1]>>]
      BY <3>4
    <3> QED BY <3>3, <3>5
  <2>5. ASSUME NEW k \in 0..n
        PROVE  g[k] = IF k = 0 THEN 0 ELSE g[k - 1] + SentBytes(es[k])
    <3>1. CASE k = 0
      BY <2>4, <3>1
    <3>2. CASE k # 0
      <4>1. k \in 1..n /\ k - 1 \in 0..n
        BY <3>2
      <4>2. g[k - 1] \in Nat
        BY <2>4, <4>1
      <4>3. F[<<k, g[k - 1]>>] = g[k - 1] + SentBytes(es[k])
        BY <2>2, <4>1, <4>2
      <4> QED BY <2>4, <3>2, <4>1, <4>3
    <3> QED BY <3>1, <3>2
  <2>6. g = Adds(g)
    BY <2>4, <2>5
  <2> QED BY <2>6
<1>3. PICK g : g = CHOOSE h : h = Adds(h)
  OBVIOUS
<1>4. g = Adds(g)
  <2> HIDE DEF Adds
  <2> QED BY <1>2, <1>3, Zenon
<1>5. SentUpTo(es) = g
  BY <1>3, Zenon DEF SentUpTo
<1>6. g[0] = 0 /\ \A i \in 1..n : g[i] = g[i - 1] + SentBytes(es[i])
  <2>1. ASSUME NEW k \in 0..n
        PROVE  g[k] = IF k = 0 THEN 0 ELSE g[k - 1] + SentBytes(es[k])
    BY <1>4
  <2>2. 0 \in 0..n /\ \A i \in 1..n : i \in 0..n /\ i # 0
    OBVIOUS
  <2> HIDE DEF Adds
  <2> QED BY <2>1, <2>2
<1> HIDE DEF Adds
<1> DEFINE P == {k \in Nat : k <= n => g[k] \in Nat}
<1>7. 0 \in P
  BY <1>6
<1>8. ASSUME NEW k \in Nat, k \in P PROVE k + 1 \in P
  <2> SUFFICES ASSUME k + 1 <= n PROVE g[k + 1] \in Nat
    OBVIOUS
  <2>1. k + 1 \in 1..n /\ (k + 1) - 1 = k /\ k <= n
    OBVIOUS
  <2>2. g[k] \in Nat
    BY <1>8, <2>1
  <2>3. g[k + 1] = g[k] + SentBytes(es[k + 1]) /\ SentBytes(es[k + 1]) \in Nat
    BY <1>1, <1>6, <2>1
  <2> QED BY <2>2, <2>3
<1>9. \A k \in Nat : k \in P
  <2> HIDE DEF P
  <2> QED BY <1>7, <1>8, Induction
<1>10. \A k \in 0..n : g[k] \in Nat
  BY <1>9
<1> QED
  BY <1>5, <1>6, <1>10

(* The next entry adds its own bytes. *)
OneMore(es, ds, n) ==
  /\ n \in Nat /\ n = Len(es) /\ n + 1 = Len(ds)
  /\ \A k \in 1..n : ds[k] = es[k] /\ es[k].size \in Nat
  /\ ds[n + 1].size \in Nat

LEMMA SentAppend ==
  ASSUME NEW es, NEW ds, NEW n, OneMore(es, ds, n)
  PROVE  SentUpTo(ds)[n + 1] = SentUpTo(es)[n] + SentBytes(ds[n + 1])
<1>1. PICK m \in Nat : m = n + 1 /\ n \in Nat /\ n = Len(es) /\ m = Len(ds)
  BY DEF OneMore
<1>2. \A k \in 1..n : ds[k] = es[k] /\ es[k].size \in Nat
  BY DEF OneMore
<1>3. ds[m].size \in Nat
  BY <1>1 DEF OneMore
<1>4. PICK g, h : g = SentUpTo(es) /\ h = SentUpTo(ds)
  OBVIOUS
<1>5. /\ g[0] = 0
      /\ \A k \in 1..n : g[k] = g[k - 1] + SentBytes(es[k])
  <2>1. n \in Nat /\ n = Len(es) /\ \A k \in 1..n : es[k].size \in Nat
    BY <1>1, <1>2
  <2>2. /\ SentUpTo(es)[0] = 0
        /\ \A k \in 1..n : SentUpTo(es)[k] = SentUpTo(es)[k - 1] + SentBytes(es[k])
    BY <2>1, SentUpToIs
  <2> QED BY <1>4, <2>2
<1>6. /\ h[0] = 0
      /\ \A k \in 1..m : h[k] = h[k - 1] + SentBytes(ds[k])
  <2>1. \A k \in 1..m : ds[k].size \in Nat
    <3>1. ASSUME NEW k \in 1..m PROVE k = m \/ k \in 1..n
      BY <1>1
    <3> QED BY <1>2, <1>3, <3>1
  <2>2. m = Len(ds)
    BY <1>1
  <2>3. /\ SentUpTo(ds)[0] = 0
        /\ \A k \in 1..m : SentUpTo(ds)[k] = SentUpTo(ds)[k - 1] + SentBytes(ds[k])
    BY <2>1, <2>2, SentUpToIs
  <2> QED BY <1>4, <2>3
<1> DEFINE P == {k \in Nat : k <= n => h[k] = g[k]}
<1>7. 0 \in P
  BY <1>5, <1>6
<1>8. ASSUME NEW k \in Nat, k \in P PROVE k + 1 \in P
  <2> SUFFICES ASSUME k + 1 <= n PROVE h[k + 1] = g[k + 1]
    OBVIOUS
  <2>1. k + 1 \in 1..n /\ k + 1 \in 1..m /\ (k + 1) - 1 = k /\ k <= n
    BY <1>1
  <2>2. h[k] = g[k]
    BY <1>8, <2>1
  <2>3. ds[k + 1] = es[k + 1]
    BY <1>2, <2>1
  <2>4. h[k + 1] = h[k] + SentBytes(ds[k + 1])
    BY <1>6, <2>1
  <2>5. g[k + 1] = g[k] + SentBytes(es[k + 1])
    BY <1>5, <2>1
  <2> QED BY <2>2, <2>3, <2>4, <2>5
<1>9. \A k \in Nat : k \in P
  <2> HIDE DEF P
  <2> QED BY <1>7, <1>8, Induction
<1>10. h[n] = g[n]
  BY <1>1, <1>9
<1>11. h[m] = h[n] + SentBytes(ds[m])
  <2>1. m \in 1..m /\ m - 1 = n
    BY <1>1
  <2> QED BY <1>6, <2>1
<1> QED
  BY <1>1, <1>4, <1>10, <1>11

-----------------------------------------------------------------------------
(* What generate_fragments packs of a sample, and can be unpacked. *)
Packed(se, si) ==
  /\ se.offset = si.offset /\ se.size = si.sample_size
  /\ EntryOK(se)
  /\ video(se) = si.video
  /\ video(se) => keyframe(se) = si.keyframe
  /\ composition_offset(se) = ((si.composition_offset * 1000) \div si.timescale) % U24
  /\ \E ms \in Milliseconds(si) : se.timestamp = ms % WORD

(* The lower bits of the word of flags. *)
LEMMA FlagsApart ==
  ASSUME NEW c \in Nat, c < U24, NEW v \in {0, 1}, NEW k \in {0, 1},
         NEW x, x = c + v * (WORD \div 2) + k * (WORD \div 4), k = 1 => v = 1
  PROVE  /\ x \in Nat
         /\ x >= WORD \div 2 <=> v = 1
         /\ v = 1 => ((x \div (WORD \div 4)) % 2 = 1 <=> k = 1)
         /\ x % U24 = c
<1>1. PICK q \in Nat \ {0} : BYTE = 4 * q
  BY ByteIs
<1>2. PICK u \in Nat \ {0} : u = U24 /\ WORD = BYTE * u
  BY Widths
<1>3. PICK m \in Nat \ {0} : m = q * u
  <2>1. q * u \in Nat \ {0}
    OBVIOUS
  <2> QED BY <2>1
<1>4. WORD = 4 * m
  BY <1>1, <1>2, <1>3
<1>5. WORD \div 2 = 2 * m /\ WORD \div 4 = m
  BY <1>4
<1>6. u <= m
  BY <1>3
<1>7. PICK t \in Nat : t = 2 * v + k
  OBVIOUS
<1>8. x = m * t + c
  <2>1. x = c + v * (2 * m) + k * m
    BY <1>5
  <2>2. CASE v = 0
    BY <1>7, <2>1, <2>2
  <2>3. CASE v = 1 /\ k = 0
    BY <1>7, <2>1, <2>3
  <2>4. CASE v = 1 /\ k = 1
    BY <1>7, <2>1, <2>4
  <2> QED BY <2>2, <2>3, <2>4
<1>9. c < m
  BY <1>2, <1>6
<1>10. x \in Nat
  <2>1. m * t \in Nat
    OBVIOUS
  <2> QED BY <1>8, <2>1
<1>11. x \div m = t
  <2>1. c \in 0..(m - 1) /\ x \in Int
    BY <1>9, <1>10
  <2> QED BY <1>8, <2>1, DivisionIs
<1>12. x >= 2 * m <=> v = 1
  <2>1. CASE v = 0
    BY <1>7, <1>8, <1>9, <2>1
  <2>2. CASE v = 1
    <3>1. t >= 2
      BY <1>7, <2>2
    <3>2. m * t >= m * 2
      BY <3>1
    <3> QED BY <1>8, <2>2, <3>2
  <2> QED BY <2>1, <2>2
<1>13. v = 1 => (t % 2 = 1 <=> k = 1)
  BY <1>7
<1>14. x % u = c
  <2>1. PICK n \in Nat : n = q * t
    <3>1. q * t \in Nat
      OBVIOUS
    <3> QED BY <3>1
  <2>2. m * t = u * n
    BY <1>3, <2>1
  <2>3. x = u * n + c
    BY <1>8, <2>2
  <2>4. c \in 0..(u - 1) /\ x \in Int /\ n \in Int
    BY <1>2, <1>10
  <2>5. x \div u = n /\ x % u = c
    BY <2>3, <2>4, DivisionIs
  <2> QED BY <2>5
<1> QED
  BY <1>2, <1>5, <1>10, <1>11, <1>12, <1>13, <1>14

LEMMA EntryMade ==
  ASSUME NEW si, IsSample(si), NEW ms \in Milliseconds(si), NEW se,
         se = SampleEntry(si.offset, si.sample_size, ms,
                          (si.composition_offset * 1000) \div si.timescale, si.video, si.keyframe)
  PROVE  Packed(se, si)
<1>1. U24 \in Nat \ {0} /\ WORD \in Nat \ {0} /\ WORD \div 2 \in Nat /\ WORD \div 4 \in Nat
  BY Widths
<1>2. PICK comp \in Nat : comp = (si.composition_offset * 1000) \div si.timescale
  <2>1. PICK a \in Nat, n \in Nat \ {0} : a = si.composition_offset /\ n = si.timescale
    BY <1>1 DEF IsSample
  <2>2. (a * 1000) \div n \in Nat
    BY QuotientIsNat
  <2> QED BY <2>1, <2>2
<1>3. ms \in Nat
  <2>1. PICK a \in Nat, n \in Nat \ {0} : a = si.timestamp /\ n = si.timescale
    BY DEF IsSample
  <2>2. PICK w \in Nat : w = (a * 1000) \div n
    <3>1. (a * 1000) \div n \in Nat
      BY QuotientIsNat
    <3> QED BY <3>1
  <2>3. ms = w \/ (w > 0 /\ ms = w - 1)
    BY <2>1, <2>2 DEF Milliseconds
  <2> QED BY <2>3
<1>4. PICK c \in Nat : c = comp % U24 /\ c < U24
  <2>1. comp % U24 \in 0..(U24 - 1)
    BY <1>1, RemainderTwice
  <2> QED BY <1>1, <2>1
<1>5. PICK v \in {0, 1} : v = IF si.video THEN 1 ELSE 0
  OBVIOUS
<1>6. PICK k \in {0, 1} : k = IF si.video /\ si.keyframe THEN 1 ELSE 0
  OBVIOUS
<1>7. se = [offset |-> si.offset, size |-> si.sample_size, timestamp |-> ms % WORD,
            composition |-> c + (IF si.video THEN WORD \div 2 ELSE 0)
                              + (IF si.video /\ si.keyframe THEN WORD \div 4 ELSE 0)]
  <2>1. se = SampleEntry(si.offset, si.sample_size, ms, comp, si.video, si.keyframe)
    BY <1>2, Zenon
  <2>2. se = [offset |-> si.offset, size |-> si.sample_size, timestamp |-> ms % WORD,
              composition |-> (comp % U24) + (IF si.video THEN WORD \div 2 ELSE 0)
                                + (IF si.video /\ si.keyframe THEN WORD \div 4 ELSE 0)]
    BY <2>1, Zenon DEF SampleEntry
  <2> QED BY <1>4, <2>2, Zenon
<1>8. PICK x : x = se.composition
  OBVIOUS
<1>9. x = c + (IF si.video THEN WORD \div 2 ELSE 0) + (IF si.video /\ si.keyframe THEN WORD \div 4 ELSE 0)
  BY <1>7, <1>8
<1>10. x = c + v * (WORD \div 2) + k * (WORD \div 4)
  BY <1>1, <1>5, <1>6, <1>9
<1>11. k = 1 => v = 1
  BY <1>5, <1>6
<1>12. /\ x \in Nat
       /\ x >= WORD \div 2 <=> v = 1
       /\ v = 1 => ((x \div (WORD \div 4)) % 2 = 1 <=> k = 1)
       /\ x % U24 = c
  BY <1>4, <1>10, <1>11, FlagsApart
<1>13. video(se) <=> si.video
  BY <1>5, <1>8, <1>12 DEF video
<1>14. video(se) => (keyframe(se) <=> si.keyframe)
  BY <1>5, <1>6, <1>8, <1>12, <1>13 DEF keyframe
<1>15. composition_offset(se) = comp % U24
  BY <1>4, <1>8, <1>12 DEF composition_offset
<1>16. se.timestamp = ms % WORD /\ se.offset = si.offset /\ se.size = si.sample_size
  BY <1>7
<1>17. ms % WORD \in 0..(WORD - 1)
  BY <1>1, <1>3, RemainderTwice
<1>18. EntryOK(se)
  BY <1>8, <1>12, <1>16, <1>17 DEF EntryOK, IsSample
<1>19. video(se) = si.video /\ (video(se) => keyframe(se) = si.keyframe)
  <2>1. si.video \in BOOLEAN /\ si.keyframe \in BOOLEAN
    BY DEF IsSample
  <2>2. video(se) \in BOOLEAN
    BY DEF video
  <2>3. keyframe(se) \in BOOLEAN
    BY DEF keyframe
  <2>4. video(se) = si.video
    BY <1>13, <2>1, <2>2, ZenonT(60)
  <2>5. video(se) => keyframe(se) = si.keyframe
    BY <1>14, <2>1, <2>3, ZenonT(60)
  <2> QED BY <2>4, <2>5, Zenon
<1>20. composition_offset(se) = ((si.composition_offset * 1000) \div si.timescale) % U24
  BY <1>2, <1>15, ZenonT(60)
<1>21. \E t \in Milliseconds(si) : se.timestamp = t % WORD
  BY <1>16, ZenonT(60)
<1> QED
  BY <1>16, <1>18, <1>19, <1>20, <1>21, Zenon DEF Packed

-----------------------------------------------------------------------------
Total(t, ex) == t + 8 + 20 + ex[TRUE] + 17 + ex[FALSE]

FileOf(t, es, ex) ==
  Write(Total(t, ex), 4) \o Letters(mdat) \o PrefixOf(es[1].timestamp, ex)
    \o FlattenSeq([k \in 1..Len(es) |-> SamplePacket(es[k])])

ResponseOf(t, es, ex) ==
  Write(Total(t, ex), 4) \o Letters(mdat) \o SentPrefixOf(es[1].timestamp, ex)
    \o FlattenSeq([k \in 1..Len(es) |-> SamplePacket(es[k])])

IndexedBy(ix, t, es, ex) ==
  /\ Read(ix, 1, 4) = Total(t, ex) % WORD
  /\ \A k \in 1..Len(es) : FieldsAt(ix, 5 + 16 * (k - 1), es[k])

AllPlaced(f) == \A k \in 1..Len(f) : Placed(f[k])

Entry == [offset : Nat, size : Nat, timestamp : Nat, composition : Nat]

Inputs == fragment \in Fragments /\ extra \in [BOOLEAN -> CodecSizes]

Entries ==
  /\ entries \in Seq(Entry)
  /\ Len(entries) <= Len(fragment)
  /\ pc # "entries" => Len(entries) = Len(fragment)
  /\ \A k \in 1..Len(entries) : Packed(entries[k], fragment[k])

Counted == totalsize = SentUpTo(entries)[Len(entries)]

BInv ==
  /\ Inputs /\ Entries /\ Counted
  /\ pc \in {"entries", "index", "file", "response", "done"}
  /\ pc \in {"file", "response", "done"} => IndexedBy(index, totalsize, entries, extra)
  /\ pc \in {"response", "done"} => file = FileOf(totalsize, entries, extra)
  /\ pc = "done" /\ AllPlaced(fragment) => response = ResponseOf(totalsize, entries, extra)

LEMMA InputsAre ==
  ASSUME Inputs
  PROVE  /\ Len(fragment) \in Nat \ {0}
         /\ \A k \in 1..Len(fragment) : IsSample(fragment[k])
         /\ extra[TRUE] \in Nat /\ extra[FALSE] \in Nat
<1>1. Len(fragment) \in Nat \ {0} /\ \A k \in 1..Len(fragment) : IsSample(fragment[k])
  BY FragmentsAssumption, Zenon DEF Inputs
<1>2. extra[TRUE] \in Nat /\ extra[FALSE] \in Nat
  <2>1. TRUE \in BOOLEAN /\ FALSE \in BOOLEAN
    OBVIOUS
  <2>2. extra \in [BOOLEAN -> CodecSizes]
    BY DEF Inputs
  <2>3. extra[TRUE] \in CodecSizes /\ extra[FALSE] \in CodecSizes
    BY <2>1, <2>2, Zenon
  <2> QED BY <2>3, CodecSizesAssumption, Zenon
<1> QED
  BY <1>1, <1>2, Zenon

LEMMA CountedIs ==
  ASSUME Inputs, Entries, Counted
  PROVE  /\ Len(entries) \in Nat
         /\ \A k \in 1..Len(entries) : EntryOK(entries[k])
         /\ totalsize \in Nat /\ Total(totalsize, extra) \in Nat
         /\ totalsize = SizeSent[Len(entries)]
<1>1. Len(entries) \in Nat
  BY DEF Entries
<1>2. \A k \in 1..Len(entries) : EntryOK(entries[k])
  BY Zenon DEF Entries, Packed
<1>3. PICK n \in Nat : n = Len(entries)
  BY <1>1
<1>4. \A k \in 1..n : entries[k].size \in Nat
  BY <1>2, <1>3, Zenon DEF EntryOK
<1>5. \A k \in 0..n : SentUpTo(entries)[k] \in Nat
  BY <1>3, <1>4, SentUpToIs, Zenon
<1>6. totalsize \in Nat
  <2>1. n \in 0..n
    OBVIOUS
  <2> QED BY <1>3, <1>5, <2>1, Zenon DEF Counted
<1>7. Total(totalsize, extra) \in Nat
  <2>1. PICK t, m, k : t = totalsize /\ m = extra[TRUE] /\ k = extra[FALSE]
    OBVIOUS
  <2>2. t \in Nat /\ m \in Nat /\ k \in Nat
    BY <1>6, <2>1, InputsAre, Zenon
  <2>3. t + 8 + 20 + m + 17 + k \in Nat
    BY <2>2
  <2> QED BY <2>1, <2>3, Zenon DEF Total
<1>8. totalsize = SizeSent[Len(entries)]
  BY SizeSentIs, Zenon DEF Counted
<1> QED
  BY <1>1, <1>2, <1>6, <1>7, <1>8, Zenon

LEMMA IndexDone ==
  ASSUME Inputs, Entries, Counted, pc # "entries"
  PROVE  IndexedBy(IndexBytes, totalsize, entries, extra)
<1>1. PICK n \in Nat \ {0} : n = Len(entries)
  BY InputsAre DEF Entries
<1>2. PICK N \in Nat : N = Total(totalsize, extra)
  BY CountedIs
<1>3. N = 8 + 20 + extra[TRUE] + 17 + extra[FALSE] + SizeSent[Len(entries)]
  <2>1. PICK t, m, k : t = totalsize /\ m = extra[TRUE] /\ k = extra[FALSE]
    OBVIOUS
  <2>2. t \in Nat /\ m \in Nat /\ k \in Nat
    BY <2>1, CountedIs, InputsAre, Zenon
  <2>3. t + 8 + 20 + m + 17 + k = 8 + 20 + m + 17 + k + t
    BY <2>2
  <2>4. N = t + 8 + 20 + m + 17 + k
    BY <1>2, <2>1, Zenon DEF Total
  <2>5. t = SizeSent[Len(entries)]
    BY <2>1, CountedIs, Zenon
  <2> QED BY <2>1, <2>3, <2>4, <2>5, Zenon
<1>4. PICK ix : ix = IndexBytes
  OBVIOUS
<1>5. ix = Write(N, 4) \o FlattenSeq([k \in 1..n |-> Record(entries[k])])
  BY <1>1, <1>3, <1>4, Zenon DEF IndexBytes
<1>6. PICK es : es = entries
  OBVIOUS
<1>7. \A k \in 1..n : EntryOK(es[k])
  BY <1>1, <1>6, CountedIs, Zenon
<1>8. ix = Write(N, 4) \o FlattenSeq([k \in 1..n |-> Record(es[k])])
  BY <1>5, <1>6, Zenon
<1>9. Read(ix, 1, 4) = N % WORD /\ \A k \in 1..n : FieldsAt(ix, 5 + 16 * (k - 1), es[k])
  BY <1>7, <1>8, IndexReads, Zenon
<1> QED
  BY <1>1, <1>2, <1>4, <1>6, <1>9, Zenon DEF IndexedBy

LEMMA FileDone == FileBytes = FileOf(totalsize, entries, extra)
BY Zenon DEF FileBytes, FileOf, Total, write_fragment_prefix, PrefixOf, CodecBytes, CodecOf

LEMMA ResponseDone ==
  ASSUME Inputs, Entries, Counted, pc # "entries", AllPlaced(fragment),
         IndexedBy(index, totalsize, entries, extra)
  PROVE  ResponseBytes = ResponseOf(totalsize, entries, extra)
<1>1. PICK n \in Nat \ {0} : n = Len(entries) /\ n = Len(fragment)
  BY InputsAre DEF Entries
<1>2. PICK N \in Nat : N = Total(totalsize, extra)
  BY CountedIs
<1>3. Write(Read(index, 1, 4), 4) = Write(N, 4)
  <2>1. Read(index, 1, 4) = N % Power[4]
    BY <1>2, Zenon DEF IndexedBy, WORD
  <2>2. 4 \in 0..8
    OBVIOUS
  <2>3. Write(N % Power[4], 4) = Write(N, 4)
    BY <2>2, WrittenRemainder
  <2> QED BY <2>1, <2>3, Zenon
<1>4. \A k \in 1..n : EntryOK(entries[k]) /\ FieldsAt(index, 5 + 16 * (k - 1), entries[k])
  BY <1>1, CountedIs, Zenon DEF IndexedBy
<1>5. Read(index, 5 + 8, 4) = entries[1].timestamp
  <2>1. 1 \in 1..n /\ 5 + 16 * (1 - 1) = 5
    OBVIOUS
  <2>2. FieldsAt(index, 5 + 16 * (1 - 1), entries[1])
    BY <1>4, <2>1, Zenon
  <2>3. FieldsAt(index, 5, entries[1])
    BY <2>1, <2>2, Zenon
  <2> QED BY <2>3, Zenon DEF FieldsAt
<1>6. ASSUME NEW k \in 1..n PROVE SentSample(5 + 16 * (k - 1)) = SamplePacket(entries[k])
  <2>1. PICK p \in Nat : p = 5 + 16 * (k - 1)
    <3>1. 5 + 16 * (k - 1) \in Nat
      OBVIOUS
    <3> QED BY <3>1
  <2>2. Packed(entries[k], fragment[k])
    BY <1>1, Zenon DEF Entries
  <2>3. entries[k].offset < WORD /\ entries[k].size < WORD
    <3>1. Placed(fragment[k]) /\ IsSample(fragment[k])
      BY <1>1, InputsAre, Zenon DEF AllPlaced
    <3>2. PICK o \in Nat, s \in Nat : o = fragment[k].offset /\ s = fragment[k].sample_size
      BY <3>1 DEF IsSample
    <3>3. o + s < WORD
      BY <3>1, <3>2 DEF Placed
    <3>4. o < WORD /\ s < WORD
      BY <3>3, Widths
    <3> QED BY <2>2, <3>2, <3>4, Zenon DEF Packed
  <2>4. EntryOK(entries[k]) /\ FieldsAt(index, p, entries[k])
    BY <1>4, <2>1, Zenon
  <2>5. SentSample(p) = SamplePacket(entries[k])
    BY <2>3, <2>4, SameSample, Zenon
  <2> QED BY <2>1, <2>5, Zenon
<1>7. [k \in 1..Len(entries) |-> SentSample(5 + 16 * (k - 1))] = [k \in 1..Len(entries) |-> SamplePacket(entries[k])]
  BY <1>1, <1>6, Zenon
<1>8. \A ts : SentPrefix(ts) = SentPrefixOf(ts, extra)
  BY Zenon DEF SentPrefix, SentPrefixOf, CodecBytes, CodecOf
<1> QED
  BY <1>2, <1>3, <1>5, <1>7, <1>8, Zenon DEF ResponseBytes, ResponseOf

LEMMA BothSame ==
  ASSUME BInv
  PROVE  SameBytes
<1> SUFFICES ASSUME pc = "done", extra[TRUE] > 0, extra[FALSE] > 0, AllPlaced(fragment)
             PROVE  response = file
  BY Zenon DEF SameBytes, AllPlaced
<1>1. Inputs /\ Entries /\ Counted
  BY Zenon DEF BInv
<1>2. file = FileOf(totalsize, entries, extra) /\ response = ResponseOf(totalsize, entries, extra)
  BY DEF BInv
<1>3. PICK m, n : m = extra[TRUE] /\ n = extra[FALSE]
  OBVIOUS
<1>4. m \in Nat \ {0} /\ n \in Nat \ {0}
  <2>1. m \in Nat /\ n \in Nat /\ m > 0 /\ n > 0
    BY <1>1, <1>3, InputsAre, Zenon
  <2> QED BY <2>1
<1>5. entries[1].timestamp \in Nat
  <2>1. Len(entries) = Len(fragment)
    BY <1>1 DEF Entries
  <2>2. 1 \in 1..Len(entries)
    BY <1>1, <2>1, InputsAre
  <2>3. EntryOK(entries[1])
    BY <1>1, <2>2, CountedIs, Zenon
  <2> QED BY <2>3, Widths DEF EntryOK
<1>6. SentPrefixOf(entries[1].timestamp, extra) = PrefixOf(entries[1].timestamp, extra)
  BY <1>3, <1>4, <1>5, SamePrefix, Zenon
<1> QED
  BY <1>2, <1>6, Zenon DEF FileOf, ResponseOf

-----------------------------------------------------------------------------
LEMMA BInit == Init => BInv
<1> SUFFICES ASSUME Init PROVE BInv
  OBVIOUS
<1>1. Inputs /\ pc = "entries" /\ entries = <<>> /\ totalsize = 0
  BY DEF Init, Inputs
<1>2. PICK n \in Nat \ {0} : n = Len(fragment)
  BY <1>1, InputsAre
<1>3. Entries
  BY <1>1, <1>2 DEF Entries
<1>4. Counted
  <2>1. PICK es : es = entries
    OBVIOUS
  <2>2. 0 = Len(es)
    BY <1>1, <2>1
  <2>3. 0 \in Nat /\ \A k \in 1..0 : es[k].size \in Nat
    OBVIOUS
  <2>4. SentUpTo(es)[0] = 0
    BY <2>2, <2>3, SentUpToIs
  <2> QED BY <1>1, <2>1, <2>2, <2>4 DEF Counted
<1> QED
  BY <1>1, <1>3, <1>4 DEF BInv

LEMMA StepMakeEntry ==
  ASSUME BInv, MakeEntry
  PROVE  BInv'
<1>1. Inputs /\ Entries /\ Counted
  BY Zenon DEF BInv
<1>2. pc = "entries" /\ Len(entries) < Len(fragment)
      /\ fragment' = fragment /\ extra' = extra
      /\ pc' = IF Len(entries') = Len(fragment) THEN "index" ELSE pc
  BY DEF MakeEntry
<1>3. PICK n \in Nat, m \in Nat : n = Len(entries) /\ m = Len(fragment) /\ n + 1 <= m
  BY <1>1, <1>2, CountedIs, InputsAre
<1>4. PICK si : si = fragment[n + 1]
  OBVIOUS
<1>5. IsSample(si)
  <2>1. n + 1 \in 1..m
    BY <1>3
  <2> QED BY <1>1, <1>3, <1>4, <2>1, InputsAre, Zenon
<1>6. PICK e : entries' = Append(entries, e) /\ Packed(e, si) /\ e \in Entry
  <2>1. PICK ms \in Milliseconds(si) :
          entries' = Append(entries, SampleEntry(si.offset, si.sample_size, ms,
                                                 (si.composition_offset * 1000) \div si.timescale,
                                                 si.video, si.keyframe))
    <3>1. si = fragment[Len(entries) + 1]
      BY <1>3, <1>4, Zenon
    <3>2. \E ms \in Milliseconds(fragment[Len(entries) + 1]) :
            entries' = Append(entries, SampleEntry(fragment[Len(entries) + 1].offset,
              fragment[Len(entries) + 1].sample_size, ms,
              (fragment[Len(entries) + 1].composition_offset * 1000) \div fragment[Len(entries) + 1].timescale,
              fragment[Len(entries) + 1].video, fragment[Len(entries) + 1].keyframe))
      BY Zenon DEF MakeEntry
    <3>3. PICK ms \in Milliseconds(fragment[Len(entries) + 1]) :
            entries' = Append(entries, SampleEntry(fragment[Len(entries) + 1].offset,
              fragment[Len(entries) + 1].sample_size, ms,
              (fragment[Len(entries) + 1].composition_offset * 1000) \div fragment[Len(entries) + 1].timescale,
              fragment[Len(entries) + 1].video, fragment[Len(entries) + 1].keyframe))
      BY <3>2, Zenon
    <3>4. ms \in Milliseconds(si)
      BY <3>1, Zenon
    <3>5. entries' = Append(entries, SampleEntry(si.offset, si.sample_size, ms,
                                                 (si.composition_offset * 1000) \div si.timescale,
                                                 si.video, si.keyframe))
      BY <3>1, <3>3
    <3> QED BY <3>4, <3>5, ZenonT(60)
  <2>2. PICK e : e = SampleEntry(si.offset, si.sample_size, ms,
                                 (si.composition_offset * 1000) \div si.timescale,
                                 si.video, si.keyframe)
    OBVIOUS
  <2>3. Packed(e, si)
    BY <1>5, <2>2, EntryMade, ZenonT(60)
  <2>4. e \in Entry
    <3>1. EntryOK(e)
      BY <2>3, Zenon DEF Packed
    <3>2. e = [offset |-> si.offset, size |-> si.sample_size, timestamp |-> ms % WORD,
               composition |-> (((si.composition_offset * 1000) \div si.timescale) % U24)
                                 + (IF si.video THEN WORD \div 2 ELSE 0)
                                 + (IF si.video /\ si.keyframe THEN WORD \div 4 ELSE 0)]
      BY <2>2, Zenon DEF SampleEntry
    <3>6. PICK o, s, t, c :
            /\ o = si.offset /\ s = si.sample_size /\ t = ms % WORD
            /\ c = (((si.composition_offset * 1000) \div si.timescale) % U24)
                     + (IF si.video THEN WORD \div 2 ELSE 0)
                     + (IF si.video /\ si.keyframe THEN WORD \div 4 ELSE 0)
      OBVIOUS
    <3>3. e = [offset |-> o, size |-> s, timestamp |-> t, composition |-> c]
      BY <3>2, <3>6, Zenon
    <3>4. e.offset = o /\ e.size = s /\ e.timestamp = t /\ e.composition = c
      BY <3>3
    <3>5. o \in Nat /\ s \in Nat /\ t \in Nat /\ c \in Nat
      BY <3>1, <3>4, Widths DEF EntryOK
    <3> QED BY <3>3, <3>5 DEF Entry
  <2> QED BY <2>1, <2>2, <2>3, <2>4, ZenonT(60)
<1>7. totalsize' = totalsize + si.sample_size + 11 + (IF si.video THEN 5 ELSE 2) + 4
  <2>1. si = fragment[Len(entries) + 1]
    BY <1>3, <1>4, Zenon
  <2>2. totalsize' = totalsize + fragment[Len(entries) + 1].sample_size + 11
                       + (IF fragment[Len(entries) + 1].video THEN 5 ELSE 2) + 4
    BY DEF MakeEntry
  <2> QED BY <2>1, <2>2, Zenon
<1>8. PICK es, ds : es = entries /\ ds = entries'
  OBVIOUS
<1>9. es \in Seq(Entry) /\ e \in Entry /\ ds = Append(es, e)
  BY <1>1, <1>6, <1>8, Zenon DEF Entries
<1>10. /\ ds \in Seq(Entry)
       /\ Len(ds) = n + 1
       /\ \A k \in 1..n : ds[k] = es[k]
       /\ ds[n + 1] = e
  <2>1. n = Len(es)
    BY <1>3, <1>8
  <2> QED BY <1>9, <2>1, AppendProperties
<1>11. Entries'
  <2>1. pc' # "entries" => n + 1 = m
    BY <1>2, <1>3, <1>8, <1>10
  <2>2. ASSUME NEW k \in 1..(n + 1) PROVE Packed(ds[k], fragment[k])
    <3>1. CASE k = n + 1
      BY <1>4, <1>6, <1>10, <3>1, Zenon
    <3>2. CASE k # n + 1
      <4>1. k \in 1..n
        BY <3>2
      <4>2. Packed(es[k], fragment[k])
        BY <1>1, <1>3, <1>8, <4>1, Zenon DEF Entries
      <4> QED BY <1>10, <4>1, <4>2, Zenon
    <3> QED BY <3>1, <3>2
  <2>3. \A k \in 1..Len(entries') : Packed(entries'[k], fragment'[k])
    BY <1>2, <1>8, <1>10, <2>2, Zenon
  <2>4. Len(entries') <= Len(fragment') /\ (pc' # "entries" => Len(entries') = Len(fragment'))
    BY <1>2, <1>3, <1>8, <1>10, <2>1
  <2>5. entries' \in Seq(Entry)
    BY <1>8, <1>10
  <2> QED BY <2>3, <2>4, <2>5, Zenon DEF Entries
<1>12. Counted'
  <2>1. SentUpTo(ds)[n + 1] = SentUpTo(es)[n] + SentBytes(ds[n + 1])
    <3>4. PICK l \in Nat : l = n + 1
      OBVIOUS
    <3>1. \A k \in 1..n : ds[k] = es[k] /\ es[k].size \in Nat
      <4>1. ASSUME NEW k \in 1..n PROVE es[k].size \in Nat
        <5>1. EntryOK(es[k])
          BY <1>1, <1>3, <1>8, CountedIs, Zenon
        <5> QED BY <5>1, Zenon DEF EntryOK
      <4> QED BY <1>10, <4>1, Zenon
    <3>2. ds[l].size \in Nat
      BY <1>6, <1>10, <3>4, Zenon DEF Packed, EntryOK
    <3>3. n = Len(es) /\ l = Len(ds)
      BY <1>3, <1>8, <1>10, <3>4
    <3>5. OneMore(es, ds, n)
      BY <3>1, <3>2, <3>3, <3>4, Zenon DEF OneMore
    <3> QED BY <3>5, SentAppend, Zenon
  <2>2. totalsize = SentUpTo(es)[n]
    BY <1>1, <1>3, <1>8, Zenon DEF Counted
  <2>3. PICK t \in Nat, s \in Nat, c \in Nat :
          t = totalsize /\ s = si.sample_size /\ c = IF si.video THEN 5 ELSE 2
    <3>1. si.sample_size \in Nat
      BY <1>5 DEF IsSample
    <3>2. totalsize \in Nat
      BY <1>1, CountedIs, Zenon
    <3> QED BY <3>1, <3>2
  <2>4. SentBytes(e) = 11 + c + s + 4
    <3>1. video(e) = si.video /\ e.size = si.sample_size
      BY <1>6, Zenon DEF Packed
    <3> QED BY <2>3, <3>1, Zenon DEF SentBytes
  <2>5. totalsize' = t + s + 11 + c + 4
    BY <1>7, <2>3, Zenon
  <2>6. t + s + 11 + c + 4 = t + (11 + c + s + 4)
    BY <2>3
  <2>7. totalsize' = SentUpTo(ds)[n + 1]
    BY <1>10, <2>1, <2>2, <2>3, <2>4, <2>5, <2>6, Zenon
  <2>8. totalsize' = SentUpTo(entries')[Len(entries')]
    BY <1>8, <1>10, <2>7, Zenon
  <2> QED BY <2>8, Zenon DEF Counted
<1>13. Inputs'
  BY <1>1, <1>2 DEF Inputs
<1>14. pc' \in {"entries", "index"}
  BY <1>2
<1> QED
  BY <1>11, <1>12, <1>13, <1>14 DEF BInv

LEMMA StepWriteIndex ==
  ASSUME BInv, WriteIndex
  PROVE  BInv'
<1>1. Inputs /\ Entries /\ Counted
  BY Zenon DEF BInv
<1>2. /\ pc = "index" /\ pc' = "file" /\ index' = IndexBytes
      /\ fragment' = fragment /\ extra' = extra /\ entries' = entries /\ totalsize' = totalsize
  BY DEF WriteIndex
<1>3. IndexedBy(IndexBytes, totalsize, entries, extra)
  BY <1>1, <1>2, IndexDone
<1>4. IndexedBy(index', totalsize', entries', extra')
  BY <1>2, <1>3, Zenon
<1>5. Inputs' /\ Entries' /\ Counted'
  BY <1>1, <1>2 DEF Inputs, Entries, Counted
<1> QED
  BY <1>2, <1>4, <1>5 DEF BInv

LEMMA StepWriteFile ==
  ASSUME BInv, WriteFile
  PROVE  BInv'
<1>1. Inputs /\ Entries /\ Counted /\ (pc = "file" => IndexedBy(index, totalsize, entries, extra))
  BY DEF BInv
<1>2. /\ pc = "file" /\ pc' = "response" /\ file' = FileBytes /\ index' = index
      /\ fragment' = fragment /\ extra' = extra /\ entries' = entries /\ totalsize' = totalsize
  BY DEF WriteFile
<1>3. file' = FileOf(totalsize', entries', extra')
  BY <1>2, FileDone, Zenon
<1>4. IndexedBy(index', totalsize', entries', extra')
  BY <1>1, <1>2, Zenon
<1>5. Inputs' /\ Entries' /\ Counted'
  BY <1>1, <1>2 DEF Inputs, Entries, Counted
<1> QED
  BY <1>2, <1>3, <1>4, <1>5 DEF BInv

LEMMA StepRespond ==
  ASSUME BInv, Respond
  PROVE  BInv'
<1>1. /\ Inputs /\ Entries /\ Counted
      /\ pc = "response" => /\ IndexedBy(index, totalsize, entries, extra)
                            /\ file = FileOf(totalsize, entries, extra)
  BY DEF BInv
<1>2. /\ pc = "response" /\ pc' = "done" /\ response' = ResponseBytes
      /\ index' = index /\ file' = file
      /\ fragment' = fragment /\ extra' = extra /\ entries' = entries /\ totalsize' = totalsize
  BY DEF Respond
<1>3. pc # "entries"
  BY <1>2
<1>4. AllPlaced(fragment) => ResponseBytes = ResponseOf(totalsize, entries, extra)
  BY <1>1, <1>2, <1>3, ResponseDone, Zenon
<1>5. AllPlaced(fragment') => response' = ResponseOf(totalsize', entries', extra')
  BY <1>2, <1>4, Zenon
<1>6. IndexedBy(index', totalsize', entries', extra') /\ file' = FileOf(totalsize', entries', extra')
  BY <1>1, <1>2, Zenon
<1>7. Inputs' /\ Entries' /\ Counted'
  BY <1>1, <1>2 DEF Inputs, Entries, Counted
<1> QED
  BY <1>2, <1>5, <1>6, <1>7 DEF BInv

(* The inductive invariant: what is packed of each sample can be unpacked,  *)
(* the index is read as it was meant, and the two ways are sequences of the *)
(* same packets of the samples, for any fragments and widths of a byte.     *)
THEOREM Invariance == Spec => []BInv
<1>1. ASSUME BInv, [Next]_vars PROVE BInv'
  <2>1. CASE MakeEntry
    BY <1>1, <2>1, StepMakeEntry
  <2>2. CASE WriteIndex
    BY <1>1, <2>2, StepWriteIndex
  <2>3. CASE WriteFile
    BY <1>1, <2>3, StepWriteFile
  <2>4. CASE Respond
    BY <1>1, <2>4, StepRespond
  <2>5. CASE UNCHANGED vars
    <3>1. /\ fragment' = fragment /\ extra' = extra /\ entries' = entries /\ totalsize' = totalsize
          /\ index' = index /\ file' = file /\ response' = response /\ pc' = pc
      BY <2>5 DEF vars
    <3>2. Inputs' /\ Entries' /\ Counted'
      BY <1>1, <3>1 DEF BInv, Inputs, Entries, Counted
    <3> QED BY <1>1, <3>1, <3>2, Zenon DEF BInv
  <2> QED BY <1>1, <2>1, <2>2, <2>3, <2>4, <2>5 DEF Next
<1> QED
  BY BInit, <1>1, PTL DEF Spec

(* A site that moves from the static mode to the index sends the same bytes *)
(* of a movie with both tracks, wherever its samples are below 4 GiB.       *)
THEOREM SameBytesHolds == Spec => []SameBytes
BY Invariance, BothSame, PTL

-----------------------------------------------------------------------------
(* The sequences of T lie one after the other in b, from start on. *)
Places(at, b, T, start) ==
  /\ \A k \in 1..(Len(T) + 1) : at[k] \in Nat
  /\ at[1] = start
  /\ \A k \in 1..Len(T) : at[k + 1] = at[k] + Len(T[k])
  /\ at[Len(T) + 1] = Len(b)
  /\ \A k \in 1..Len(T) : \A j \in 1..Len(T[k]) :
       at[k] + j \in 1..Len(b) /\ b[at[k] + j] = T[k][j]

LaidOut(b, T, start) ==
  /\ b \in Seq(Nat) /\ T \in Seq(Seq(Nat))
  /\ \E at : Places(at, b, T, start)

LEMMA NoneLaid ==
  ASSUME NEW b \in Seq(Nat)
  PROVE  LaidOut(b, <<>>, Len(b))
<1>1. PICK T : T = <<>>
  OBVIOUS
<1>2. T \in Seq(Seq(Nat)) /\ Len(T) = 0
  BY <1>1
<1>3. PICK n \in Nat : n = Len(b)
  OBVIOUS
<1>4. PICK at : at = [k \in 1..1 |-> n]
  OBVIOUS
<1>5. at[1] = n
  BY <1>4
<1>6. Places(at, b, T, n)
  BY <1>2, <1>3, <1>5 DEF Places
<1> QED
  BY <1>1, <1>2, <1>3, <1>6 DEF LaidOut

LEMMA OneLaid ==
  ASSUME NEW t \in Seq(Nat)
  PROVE  LaidOut(t, <<t>>, 0)
<1>1. PICK T : T = <<t>>
  OBVIOUS
<1>2. T \in Seq(Seq(Nat)) /\ Len(T) = 1 /\ T[1] = t
  BY <1>1
<1>3. PICK n \in Nat : n = Len(t)
  OBVIOUS
<1>4. PICK at : at = [k \in 1..2 |-> IF k = 1 THEN 0 ELSE n]
  OBVIOUS
<1>5. at[1] = 0 /\ at[2] = n
  BY <1>4
<1>6. \A k \in 1..1 : k = 1
  OBVIOUS
<1>7. \A k \in 1..2 : k = 1 \/ k = 2
  OBVIOUS
<1>8. Places(at, t, T, 0)
  BY <1>2, <1>3, <1>5, <1>6, <1>7 DEF Places
<1> QED
  BY <1>1, <1>2, <1>8 DEF LaidOut

LEMMA LaidConcat ==
  ASSUME NEW a, NEW b, NEW S, NEW T, NEW start, LaidOut(a, S, start), LaidOut(b, T, 0)
  PROVE  LaidOut(a \o b, S \o T, start)
<1>1. a \in Seq(Nat) /\ b \in Seq(Nat) /\ S \in Seq(Seq(Nat)) /\ T \in Seq(Seq(Nat))
  BY DEF LaidOut
<1>2. PICK f : Places(f, a, S, start)
  BY DEF LaidOut
<1>3. PICK g : Places(g, b, T, 0)
  BY DEF LaidOut
<1>4. PICK m \in Nat, n \in Nat, l \in Nat, o \in Nat : m = Len(S) /\ n = Len(T) /\ l = Len(a) /\ o = Len(b)
  BY <1>1
<1>5. PICK c, U : c = a \o b /\ U = S \o T
  OBVIOUS
<1>6. Joined(c, a, b, Nat)
  BY <1>1, <1>5, Concatenated
<1>7. Joined(U, S, T, Seq(Nat))
  BY <1>1, <1>5, Concatenated
<1>8. /\ c \in Seq(Nat) /\ Len(c) = l + o
      /\ \A i \in 1..l : c[i] = a[i]
      /\ \A i \in 1..o : c[l + i] = b[i]
  BY <1>4, <1>6 DEF Joined
<1>9. /\ U \in Seq(Seq(Nat)) /\ Len(U) = m + n
      /\ \A i \in 1..m : U[i] = S[i]
      /\ \A i \in 1..n : U[m + i] = T[i]
  BY <1>4, <1>7 DEF Joined
<1>10. /\ \A k \in 1..(m + 1) : f[k] \in Nat
       /\ f[1] = start
       /\ \A k \in 1..m : f[k + 1] = f[k] + Len(S[k])
       /\ f[m + 1] = l
       /\ \A k \in 1..m : \A j \in 1..Len(S[k]) : f[k] + j \in 1..l /\ a[f[k] + j] = S[k][j]
  BY <1>2, <1>4 DEF Places
<1>11. /\ \A k \in 1..(n + 1) : g[k] \in Nat
       /\ g[1] = 0
       /\ \A k \in 1..n : g[k + 1] = g[k] + Len(T[k])
       /\ g[n + 1] = o
       /\ \A k \in 1..n : \A j \in 1..Len(T[k]) : g[k] + j \in 1..o /\ b[g[k] + j] = T[k][j]
  BY <1>3, <1>4 DEF Places
<1>12. PICK at : at = [k \in 1..(m + n + 1) |-> IF k <= m THEN f[k] ELSE l + g[k - m]]
  OBVIOUS
<1>13. ASSUME NEW k \in 1..(m + 1) PROVE at[k] = f[k]
  <2>1. CASE k <= m
    BY <1>12, <2>1
  <2>2. CASE k = m + 1
    <3>1. k \in 1..(m + n + 1) /\ ~(k <= m) /\ k - m = 1
      BY <2>2
    <3>2. at[k] = l + g[1]
      BY <1>12, <3>1
    <3> QED BY <1>10, <1>11, <2>2, <3>2
  <2> QED BY <2>1, <2>2
<1>14. ASSUME NEW k \in 1..(n + 1) PROVE at[m + k] = l + g[k] /\ g[k] \in Nat
  <2>1. m + k \in 1..(m + n + 1) /\ ~(m + k <= m) /\ (m + k) - m = k
    OBVIOUS
  <2> QED BY <1>11, <1>12, <2>1
<1>15. ASSUME NEW k \in 1..(m + n) PROVE k \in 1..m \/ \E i \in 1..n : k = m + i
  <2>1. CASE k <= m
    BY <2>1
  <2>2. CASE k > m
    <3>1. k - m \in 1..n /\ k = m + (k - m)
      BY <2>2
    <3> QED BY <3>1
  <2> QED BY <2>1, <2>2
<1>16. ASSUME NEW k \in 1..(m + n + 1) PROVE at[k] \in Nat
  <2>1. CASE k <= m
    <3>1. k \in 1..(m + 1)
      BY <2>1
    <3> QED BY <1>10, <1>13, <3>1
  <2>2. CASE k > m
    <3>1. PICK i \in 1..(n + 1) : k = m + i
      <4>1. k - m \in 1..(n + 1) /\ k = m + (k - m)
        BY <2>2
      <4> QED BY <4>1
    <3> QED BY <1>14, <3>1
  <2> QED BY <2>1, <2>2
<1>17. ASSUME NEW k \in 1..(m + n)
       PROVE  /\ at[k + 1] = at[k] + Len(U[k])
              /\ \A j \in 1..Len(U[k]) : at[k] + j \in 1..Len(c) /\ c[at[k] + j] = U[k][j]
  <2>1. CASE k \in 1..m
    <3>1. k \in 1..(m + 1) /\ k + 1 \in 1..(m + 1)
      BY <2>1
    <3>2. at[k] = f[k] /\ at[k + 1] = f[k + 1] /\ U[k] = S[k]
      BY <1>9, <1>13, <2>1, <3>1
    <3>3. at[k + 1] = at[k] + Len(U[k])
      BY <1>10, <2>1, <3>2
    <3>4. ASSUME NEW j \in 1..Len(U[k]) PROVE at[k] + j \in 1..Len(c) /\ c[at[k] + j] = U[k][j]
      <4>1. f[k] + j \in 1..l /\ a[f[k] + j] = S[k][j]
        BY <1>10, <2>1, <3>2
      <4>2. f[k] + j \in 1..Len(c) /\ c[f[k] + j] = a[f[k] + j]
        BY <1>8, <4>1
      <4> QED BY <3>2, <4>1, <4>2
    <3> QED BY <3>3, <3>4
  <2>2. ASSUME NEW i \in 1..n, k = m + i
        PROVE  /\ at[k + 1] = at[k] + Len(U[k])
               /\ \A j \in 1..Len(U[k]) : at[k] + j \in 1..Len(c) /\ c[at[k] + j] = U[k][j]
    <3>1. i \in 1..(n + 1) /\ i + 1 \in 1..(n + 1) /\ k + 1 = m + (i + 1)
      BY <2>2
    <3>2. /\ at[k] = l + g[i] /\ g[i] \in Nat
          /\ at[k + 1] = l + g[i + 1] /\ g[i + 1] \in Nat
          /\ U[k] = T[i]
      BY <1>9, <1>14, <2>2, <3>1
    <3>3. at[k + 1] = at[k] + Len(U[k])
      <4>1. PICK x \in Nat, y \in Nat : x = g[i] /\ y = g[i + 1]
        BY <3>2
      <4>2. PICK z \in Nat : z = Len(T[i])
        <5>1. T[i] \in Seq(Nat)
          BY <1>1, <1>4, ElementOf
        <5> QED BY <5>1
      <4>3. y = x + z
        BY <1>11, <4>1, <4>2
      <4>4. l + y = l + x + z
        BY <4>3
      <4> QED BY <3>2, <4>1, <4>2, <4>4
    <3>4. ASSUME NEW j \in 1..Len(U[k]) PROVE at[k] + j \in 1..Len(c) /\ c[at[k] + j] = U[k][j]
      <4>1. g[i] + j \in 1..o /\ b[g[i] + j] = T[i][j]
        BY <1>11, <3>2
      <4>2. PICK q \in 1..o : q = g[i] + j
        BY <4>1
      <4>3. l + q \in 1..Len(c) /\ c[l + q] = b[q]
        BY <1>8
      <4>4. at[k] + j = l + q
        <5>1. j \in Nat
          OBVIOUS
        <5> QED BY <3>2, <4>2, <5>1
      <4> QED BY <3>2, <4>1, <4>2, <4>3, <4>4
    <3> QED BY <3>3, <3>4
  <2> QED BY <1>15, <2>1, <2>2
<1>18. at[1] = start
  <2>1. 1 \in 1..(m + 1)
    OBVIOUS
  <2> QED BY <1>10, <1>13, <2>1
<1>19. at[m + n + 1] = Len(c)
  <2>1. n + 1 \in 1..(n + 1) /\ m + (n + 1) = m + n + 1
    OBVIOUS
  <2>2. at[m + (n + 1)] = l + g[n + 1]
    BY <1>14, <2>1
  <2> QED BY <1>8, <1>11, <2>1, <2>2
<1>20. Places(at, c, U, start)
  <2>1. Len(U) = m + n
    BY <1>9
  <2> QED BY <1>16, <1>17, <1>18, <1>19, <2>1 DEF Places
<1> QED
  BY <1>5, <1>8, <1>9, <1>20 DEF LaidOut

LEMMA FlatLaid ==
  ASSUME NEW T \in Seq(Seq(Nat)), T # <<>>
  PROVE  LaidOut(FlattenSeq(T), T, 0)
<1>1. PICK n \in Nat \ {0} : n = Len(T)
  BY EmptySeq
<1>2. ASSUME NEW k \in 1..n PROVE T[k] \in Seq(Nat) /\ Len(T[k]) \in Nat
  <2>1. T[k] \in Seq(Nat)
    BY <1>1, ElementOf
  <2> QED BY <2>1
<1>3. PICK at : /\ \A k \in 1..(n + 1) : at[k] \in Nat
                /\ at[1] = 0
                /\ \A k \in 1..n : at[k + 1] = at[k] + Len(T[k])
  <2>1. PICK F : F = [q \in (2..(n + 1)) \X Nat |-> q[2] + Len(T[q[1] - 1])]
    OBVIOUS
  <2>2. \A i \in 2..(n + 1), v \in Nat : F[<<i, v>>] = v + Len(T[i - 1])
    BY <2>1
  <2>3. PICK m \in Int : m = n + 1
    OBVIOUS
  <2>4. ASSUME NEW i \in (1 + 1)..m, NEW v \in Nat PROVE F[<<i, v>>] \in Nat
    <3>1. i \in 2..(n + 1) /\ i - 1 \in 1..n
      BY <2>3
    <3>2. Len(T[i - 1]) \in Nat
      BY <1>2, <3>1
    <3> QED BY <2>2, <3>1, <3>2
  <2>5. PICK g : Recursion(g, 1, m, Nat, 0, F)
    <3>1. 1 \in Int /\ 1 <= m /\ 0 \in Nat
      BY <2>3
    <3> QED BY <2>4, <3>1, RecursionExists, Zenon
  <2>6. g \in [1..m -> Nat] /\ g[1] = 0
    BY <2>5 DEF Recursion
  <2>7. \A i \in (1 + 1)..m : g[i] = F[<<i, g[i - 1]>>]
    BY <2>5 DEF Recursion
  <2>8. ASSUME NEW k \in 1..n PROVE g[k + 1] = g[k] + Len(T[k])
    <3>1. PICK i \in (1 + 1)..m : i = k + 1
      BY <2>3
    <3>2. i \in 2..(n + 1) /\ i - 1 = k /\ k \in 1..m
      BY <2>3, <3>1
    <3>3. g[i] = F[<<i, g[k]>>] /\ g[k] \in Nat
      BY <2>6, <2>7, <3>2
    <3>4. F[<<i, g[k]>>] = g[k] + Len(T[i - 1])
      BY <2>2, <3>2, <3>3
    <3> QED BY <3>1, <3>2, <3>3, <3>4
  <2>9. \A k \in 1..(n + 1) : g[k] \in Nat
    BY <2>3, <2>6
  <2> QED BY <2>6, <2>8, <2>9
<1>4. PICK b : b = FlattenSeq(T)
  OBVIOUS
<1>5. Laid(b, T, n, at, Nat)
  <2>1. Len(T) = n /\ \A k \in 1..n : T[k] \in Seq(Nat)
    BY <1>1, <1>2
  <2>2. Laid(FlattenSeq(T), T, n, at, Nat)
    BY <1>3, <2>1, FlattenLays
  <2> QED BY <1>4, <2>2
<1>6. b \in Seq(Nat) /\ Len(b) = at[n + 1]
  BY <1>5 DEF Laid
<1>7. ASSUME NEW k \in 1..n, NEW j \in 1..Len(T[k])
      PROVE  at[k] + j \in 1..Len(b) /\ b[at[k] + j] = T[k][j]
  <2>1. at[k] + j \in 1..at[k + 1] /\ at[k + 1] <= at[n + 1] /\ b[at[k] + j] = T[k][j]
    BY <1>5 DEF Laid
  <2>2. PICK x \in Nat, y \in Nat : x = at[k + 1] /\ y = at[n + 1]
    <3>1. k + 1 \in 1..(n + 1) /\ n + 1 \in 1..(n + 1)
      OBVIOUS
    <3> QED BY <1>3, <3>1
  <2> QED BY <1>6, <2>1, <2>2
<1>8. Places(at, b, T, 0)
  BY <1>1, <1>3, <1>6, <1>7 DEF Places
<1> QED
  BY <1>4, <1>6, <1>8 DEF LaidOut

-----------------------------------------------------------------------------

(* A packet as both programs write it: its data begins behind skip bytes,   *)
(* 16 for video and 13 for audio; last is 0 for codec data.                 *)
IsPacket(t, skip, frame, last, comp, ts, data) ==
  /\ t \in Seq(Nat) /\ Len(t) = skip + Len(data) + 4
  /\ t[1] = IF skip = 16 THEN 9 ELSE 8
  /\ \A i \in 1..3 : t[1 + i] = Write(skip - 11 + Len(data), 3)[i]
  /\ \A i \in 1..3 : t[4 + i] = Write(ts % U24, 3)[i]
  /\ t[8] = (ts \div U24) % BYTE
  /\ t[12] = frame /\ t[13] = last
  /\ skip = 16 => \A i \in 1..3 : t[13 + i] = Write(comp, 3)[i]
  /\ \A j \in 1..Len(data) : t[skip + j] = data[j]
  /\ \A i \in 1..4 : t[skip + Len(data) + i] = Write(skip + Len(data), 4)[i]

(* The thirteen bytes that every packet begins with. *)
IsHead(h, type, size, ts, frame, last) ==
  /\ h \in Seq(Nat) /\ Len(h) = 13
  /\ h[1] = type
  /\ \A i \in 1..3 : h[1 + i] = Write(size, 3)[i]
  /\ \A i \in 1..3 : h[4 + i] = Write(ts % U24, 3)[i]
  /\ h[8] = (ts \div U24) % BYTE
  /\ h[12] = frame /\ h[13] = last

LEMMA HeadIs ==
  ASSUME NEW type \in Nat, NEW size \in Nat, NEW ts \in Nat, NEW frame \in Nat, NEW last \in Nat
  PROVE  IsHead(<<type>> \o Write(size, 3) \o Write(ts % U24, 3) \o <<(ts \div U24) % BYTE>>
                  \o Write(0, 3) \o <<frame, last>>, type, size, ts, frame, last)
<1>1. PICK t \in Nat, u \in Nat : t = ts % U24 /\ u = (ts \div U24) % BYTE
  <2>1. U24 \in Nat \ {0} /\ BYTE \in Nat \ {0}
    BY Widths, ByteIs
  <2>2. ts % U24 \in Nat /\ ts \div U24 \in Nat
    BY <2>1, QuotientIsNat
  <2>3. (ts \div U24) % BYTE \in Nat
    BY <2>1, <2>2, QuotientIsNat
  <2> QED BY <2>2, <2>3
<1>2. PICK a, b, c : a = Write(size, 3) /\ b = Write(t, 3) /\ c = Write(0, 3)
  OBVIOUS
<1>3. /\ a \in Seq(Nat) /\ b \in Seq(Nat) /\ c \in Seq(Nat)
      /\ Len(a) = 3 /\ Len(b) = 3 /\ Len(c) = 3
  <2>1. 3 \in 0..8 /\ 0 \in Nat
    OBVIOUS
  <2> QED BY <1>2, <2>1, Written
<1>4. PICK e, d, g : e = <<type>> /\ d = <<u>> /\ g = <<frame, last>>
  OBVIOUS
<1>5. /\ e \in Seq(Nat) /\ d \in Seq(Nat) /\ g \in Seq(Nat)
      /\ Len(e) = 1 /\ Len(d) = 1 /\ Len(g) = 2
      /\ e[1] = type /\ d[1] = u /\ g[1] = frame /\ g[2] = last
  BY <1>4
<1>6. PICK h1 : h1 = e \o a
  OBVIOUS
<1>7. h1 \in Seq(Nat) /\ Len(h1) = 4 /\ h1[1] = type /\ \A i \in 1..3 : h1[1 + i] = a[i]
  <2>1. Joined(h1, e, a, Nat)
    BY <1>3, <1>5, <1>6, Concatenated
  <2> QED BY <1>3, <1>5, <2>1 DEF Joined
<1>8. PICK h2 : h2 = h1 \o b
  OBVIOUS
<1>9. h2 \in Seq(Nat) /\ Len(h2) = 7 /\ (\A i \in 1..4 : h2[i] = h1[i]) /\ \A i \in 1..3 : h2[4 + i] = b[i]
  <2>1. Joined(h2, h1, b, Nat)
    BY <1>3, <1>7, <1>8, Concatenated
  <2> QED BY <1>3, <1>7, <2>1 DEF Joined
<1>10. PICK h3 : h3 = h2 \o d
  OBVIOUS
<1>11. h3 \in Seq(Nat) /\ Len(h3) = 8 /\ (\A i \in 1..7 : h3[i] = h2[i]) /\ h3[8] = u
  <2>1. Joined(h3, h2, d, Nat)
    BY <1>5, <1>9, <1>10, Concatenated
  <2>2. 1 \in 1..Len(d)
    BY <1>5
  <2>3. h3[Len(h2) + 1] = u
    BY <1>5, <2>1, <2>2 DEF Joined
  <2> QED BY <1>5, <1>9, <2>1, <2>3 DEF Joined
<1>12. PICK h4 : h4 = h3 \o c
  OBVIOUS
<1>13. h4 \in Seq(Nat) /\ Len(h4) = 11 /\ \A i \in 1..8 : h4[i] = h3[i]
  <2>1. Joined(h4, h3, c, Nat)
    BY <1>3, <1>11, <1>12, Concatenated
  <2> QED BY <1>3, <1>11, <2>1 DEF Joined
<1>14. PICK h : h = h4 \o g
  OBVIOUS
<1>15. /\ h \in Seq(Nat) /\ Len(h) = 13
       /\ \A i \in 1..11 : h[i] = h4[i]
       /\ h[12] = frame /\ h[13] = last
  <2>1. Joined(h, h4, g, Nat)
    BY <1>5, <1>13, <1>14, Concatenated
  <2>2. 1 \in 1..Len(g) /\ 2 \in 1..Len(g)
    BY <1>5
  <2>3. h[Len(h4) + 1] = frame /\ h[Len(h4) + 2] = last
    BY <1>5, <2>1, <2>2 DEF Joined
  <2> QED BY <1>5, <1>13, <2>1, <2>3 DEF Joined
<1>16. \A i \in 1..8 : h[i] = h3[i]
  BY <1>13, <1>15
<1>17. \A i \in 1..7 : h[i] = h2[i]
  BY <1>11, <1>16
<1>18. h[1] = type /\ \A i \in 1..3 : h[1 + i] = a[i]
  <2>1. \A i \in 1..4 : h[i] = h1[i]
    BY <1>9, <1>17
  <2>2. 1 \in 1..4 /\ \A i \in 1..3 : 1 + i \in 1..4
    OBVIOUS
  <2> QED BY <1>7, <2>1, <2>2
<1>19. \A i \in 1..3 : h[4 + i] = b[i]
  <2>1. \A i \in 1..3 : 4 + i \in 1..7
    OBVIOUS
  <2> QED BY <1>9, <1>17, <2>1
<1>20. h[8] = u
  BY <1>11, <1>16
<1>21. IsHead(h, type, size, ts, frame, last)
  BY <1>1, <1>2, <1>15, <1>18, <1>19, <1>20, Zenon DEF IsHead
<1>22. h = <<type>> \o Write(size, 3) \o Write(ts % U24, 3) \o <<(ts \div U24) % BYTE>>
             \o Write(0, 3) \o <<frame, last>>
  BY <1>1, <1>2, <1>4, <1>6, <1>8, <1>10, <1>12, <1>14, Zenon
<1> QED
  BY <1>21, <1>22, Zenon

LEMMA VideoPacketIs ==
  ASSUME NEW frame \in Nat, NEW last \in Nat, NEW comp \in Nat, NEW ts \in Nat, NEW data \in Seq(Nat)
  PROVE  IsPacket(<<9>> \o Write(Len(data) + 5, 3) \o Write(ts % U24, 3) \o <<(ts \div U24) % BYTE>>
                    \o Write(0, 3) \o <<frame, last>>
                    \o Write(comp, 3) \o data \o Write(Len(data) + 5 + 11, 4),
                  16, frame, last, comp, ts, data)
<1>1. PICK l \in Nat, size \in Nat : l = Len(data) /\ size = Len(data) + 5
  OBVIOUS
<1>2. PICK h : h = <<9>> \o Write(size, 3) \o Write(ts % U24, 3) \o <<(ts \div U24) % BYTE>>
                     \o Write(0, 3) \o <<frame, last>>
  OBVIOUS
<1>3. IsHead(h, 9, size, ts, frame, last)
  <2>1. 9 \in Nat
    OBVIOUS
  <2> QED BY <1>2, <2>1, HeadIs, Zenon
<1>4. PICK c, z : c = Write(comp, 3) /\ z = Write(size + 11, 4)
  OBVIOUS
<1>5. c \in Seq(Nat) /\ Len(c) = 3 /\ z \in Seq(Nat) /\ Len(z) = 4
  <2>1. 3 \in 0..8 /\ 4 \in 0..8 /\ size + 11 \in Nat
    OBVIOUS
  <2> QED BY <1>4, <2>1, Written
<1>6. h \in Seq(Nat) /\ Len(h) = 13
  BY <1>3 DEF IsHead
<1>7. PICK r : r = h \o c
  OBVIOUS
<1>8. r \in Seq(Nat) /\ Len(r) = 16 /\ (\A i \in 1..13 : r[i] = h[i]) /\ \A i \in 1..3 : r[13 + i] = c[i]
  <2>1. Joined(r, h, c, Nat)
    BY <1>5, <1>6, <1>7, Concatenated
  <2> QED BY <1>5, <1>6, <2>1 DEF Joined
<1>9. PICK s : s = r \o data
  OBVIOUS
<1>10. s \in Seq(Nat) /\ Len(s) = 16 + l /\ (\A i \in 1..16 : s[i] = r[i]) /\ \A i \in 1..l : s[16 + i] = data[i]
  <2>1. Joined(s, r, data, Nat)
    BY <1>8, <1>9, Concatenated
  <2> QED BY <1>1, <1>8, <2>1 DEF Joined
<1>11. PICK t : t = s \o z
  OBVIOUS
<1>12. /\ t \in Seq(Nat) /\ Len(t) = 16 + l + 4
       /\ \A i \in 1..(16 + l) : t[i] = s[i]
       /\ \A i \in 1..4 : t[16 + l + i] = z[i]
  <2>1. Joined(t, s, z, Nat)
    BY <1>5, <1>10, <1>11, Concatenated
  <2> QED BY <1>5, <1>10, <2>1 DEF Joined
<1>13. \A i \in 1..16 : t[i] = r[i]
  <2>1. \A i \in 1..16 : i \in 1..(16 + l)
    OBVIOUS
  <2> QED BY <1>10, <1>12, <2>1
<1>14. \A i \in 1..13 : t[i] = h[i]
  BY <1>8, <1>13, SMTT(60)
<1>15. \A i \in 1..3 : t[13 + i] = c[i]
  <2>1. \A i \in 1..3 : 13 + i \in 1..16
    OBVIOUS
  <2> QED BY <1>8, <1>13, <2>1
<1>16. \A j \in 1..l : t[16 + j] = data[j]
  <2>1. \A j \in 1..l : 16 + j \in 1..(16 + l)
    OBVIOUS
  <2> QED BY <1>10, <1>12, <2>1
<1>17. /\ t[1] = 9
       /\ \A i \in 1..3 : t[1 + i] = Write(size, 3)[i]
       /\ \A i \in 1..3 : t[4 + i] = Write(ts % U24, 3)[i]
       /\ t[8] = (ts \div U24) % BYTE
       /\ t[12] = frame /\ t[13] = last
  <2>1. 1 \in 1..13 /\ 8 \in 1..13 /\ 12 \in 1..13 /\ 13 \in 1..13
        /\ \A i \in 1..3 : 1 + i \in 1..13 /\ 4 + i \in 1..13
    OBVIOUS
  <2> QED BY <1>3, <1>14, <2>1, Zenon DEF IsHead
<1>18. 16 - 11 + l = size /\ 16 + l = size + 11
  BY <1>1
<1>19. IsPacket(t, 16, frame, last, comp, ts, data)
  <2>1. \A i \in 1..3 : t[1 + i] = Write(16 - 11 + Len(data), 3)[i]
    BY <1>1, <1>17, <1>18, Zenon
  <2>2. \A i \in 1..4 : t[16 + Len(data) + i] = Write(16 + Len(data), 4)[i]
    BY <1>1, <1>4, <1>12, <1>18, Zenon
  <2> QED BY <1>1, <1>4, <1>12, <1>15, <1>16, <1>17, <2>1, <2>2, Zenon DEF IsPacket
<1> QED
  BY <1>1, <1>2, <1>4, <1>7, <1>9, <1>11, <1>19, Zenon

LEMMA AudioPacketIs ==
  ASSUME NEW frame \in Nat, NEW last \in Nat, NEW comp \in Nat, NEW ts \in Nat, NEW data \in Seq(Nat)
  PROVE  IsPacket(<<8>> \o Write(Len(data) + 2, 3) \o Write(ts % U24, 3) \o <<(ts \div U24) % BYTE>>
                    \o Write(0, 3) \o <<frame, last>>
                    \o data \o Write(Len(data) + 2 + 11, 4),
                  13, frame, last, comp, ts, data)
<1>1. PICK l \in Nat, size \in Nat : l = Len(data) /\ size = Len(data) + 2
  OBVIOUS
<1>2. PICK h : h = <<8>> \o Write(size, 3) \o Write(ts % U24, 3) \o <<(ts \div U24) % BYTE>>
                     \o Write(0, 3) \o <<frame, last>>
  OBVIOUS
<1>3. IsHead(h, 8, size, ts, frame, last)
  <2>1. 8 \in Nat
    OBVIOUS
  <2> QED BY <1>2, <2>1, HeadIs, Zenon
<1>4. PICK z : z = Write(size + 11, 4)
  OBVIOUS
<1>5. z \in Seq(Nat) /\ Len(z) = 4
  <2>1. 4 \in 0..8 /\ size + 11 \in Nat
    OBVIOUS
  <2> QED BY <1>4, <2>1, Written
<1>6. h \in Seq(Nat) /\ Len(h) = 13
  BY <1>3 DEF IsHead
<1>9. PICK s : s = h \o data
  OBVIOUS
<1>10. s \in Seq(Nat) /\ Len(s) = 13 + l /\ (\A i \in 1..13 : s[i] = h[i]) /\ \A i \in 1..l : s[13 + i] = data[i]
  <2>1. Joined(s, h, data, Nat)
    BY <1>6, <1>9, Concatenated
  <2> QED BY <1>1, <1>6, <2>1 DEF Joined
<1>11. PICK t : t = s \o z
  OBVIOUS
<1>12. /\ t \in Seq(Nat) /\ Len(t) = 13 + l + 4
       /\ \A i \in 1..(13 + l) : t[i] = s[i]
       /\ \A i \in 1..4 : t[13 + l + i] = z[i]
  <2>1. Joined(t, s, z, Nat)
    BY <1>5, <1>10, <1>11, Concatenated
  <2> QED BY <1>5, <1>10, <2>1 DEF Joined
<1>14. \A i \in 1..13 : t[i] = h[i]
  <2>1. \A i \in 1..13 : i \in 1..(13 + l)
    OBVIOUS
  <2> QED BY <1>10, <1>12, <2>1
<1>16. \A j \in 1..l : t[13 + j] = data[j]
  <2>1. \A j \in 1..l : 13 + j \in 1..(13 + l)
    OBVIOUS
  <2> QED BY <1>10, <1>12, <2>1
<1>17. /\ t[1] = 8
       /\ \A i \in 1..3 : t[1 + i] = Write(size, 3)[i]
       /\ \A i \in 1..3 : t[4 + i] = Write(ts % U24, 3)[i]
       /\ t[8] = (ts \div U24) % BYTE
       /\ t[12] = frame /\ t[13] = last
  <2>1. 1 \in 1..13 /\ 8 \in 1..13 /\ 12 \in 1..13 /\ 13 \in 1..13
        /\ \A i \in 1..3 : 1 + i \in 1..13 /\ 4 + i \in 1..13
    OBVIOUS
  <2> QED BY <1>3, <1>14, <2>1, Zenon DEF IsHead
<1>18. 13 - 11 + l = size /\ 13 + l = size + 11 /\ 13 # 16
  BY <1>1
<1>19. IsPacket(t, 13, frame, last, comp, ts, data)
  <2>1. \A i \in 1..3 : t[1 + i] = Write(13 - 11 + Len(data), 3)[i]
    BY <1>1, <1>17, <1>18, Zenon
  <2>2. \A i \in 1..4 : t[13 + Len(data) + i] = Write(13 + Len(data), 4)[i]
    BY <1>1, <1>4, <1>12, <1>18, Zenon
  <2> QED BY <1>1, <1>12, <1>16, <1>17, <1>18, <2>1, <2>2, Zenon DEF IsPacket
<1> QED
  BY <1>1, <1>2, <1>4, <1>9, <1>11, <1>19, Zenon
-----------------------------------------------------------------------------
(* Read finds what Write wrote, if it fits. *)
LEMMA ReadWritten ==
  ASSUME NEW b, NEW p \in Nat, NEW w \in 0..8, NEW n \in Nat, n < Power[w],
         \A i \in 1..w : b[p + i - 1] = Write(n, w)[i]
  PROVE  Read(b, p, w) = n
<1>1. \A i \in 1..w : b[p + i - 1] = (n \div Power[w - i]) % BYTE
  BY Written
<1>2. Read(b, p, w) = n % Power[w]
  BY <1>1, ReadBack
<1>3. PICK W \in Nat \ {0} : W = Power[w]
  BY Powers
<1>4. n % W = n
  BY <1>3, SmallRemainder
<1> QED
  BY <1>2, <1>3, <1>4

(* A time in two parts, the lower three bytes and the upper one. *)
LEMMA TimeInParts ==
  ASSUME NEW ts \in Nat, ts < WORD
  PROVE  /\ ts % U24 \in Nat /\ ts % U24 < U24
         /\ (ts % U24) + U24 * ((ts \div U24) % BYTE) = ts
<1>1. PICK u \in Nat \ {0}, B \in Nat \ {0} : u = U24 /\ B = BYTE /\ WORD = B * u
  BY Widths, ByteIs
<1>2. PICK q \in Nat, r \in 0..(u - 1) : q = ts \div u /\ r = ts % u /\ ts = u * q + r
  <2>1. ts \div u \in Nat
    BY QuotientIsNat
  <2>2. ts \in Int
    OBVIOUS
  <2>3. ts % u \in 0..(u - 1) /\ ts = u * (ts \div u) + (ts % u)
    BY <2>2, Division
  <2> QED BY <2>1, <2>3
<1>3. q < B
  <2> SUFFICES ASSUME q >= B PROVE FALSE
    BY <1>2
  <2>1. u * q >= u * B
    OBVIOUS
  <2>2. u * B = B * u
    OBVIOUS
  <2>3. ts < B * u
    BY <1>1
  <2>4. u * q \in Nat /\ B * u \in Nat
    OBVIOUS
  <2> QED BY <1>2, <2>1, <2>2, <2>3, <2>4
<1>4. q % B = q
  BY <1>3, SmallRemainder
<1>5. r + u * q = ts
  <2>1. u * q \in Nat
    OBVIOUS
  <2> QED BY <1>2, <2>1
<1>6. r \in Nat /\ r < u
  OBVIOUS
<1> QED
  BY <1>1, <1>2, <1>4, <1>5, <1>6, Zenon

(* Three bytes hold at least 64 values, and four at least four times as many. *)
LEMMA Room == U24 >= 64 /\ WORD >= U24 + 64 /\ \E h \in Nat : U24 = 2 * h
<1>1. PICK q \in Nat \ {0}, B \in Nat : B = BYTE /\ B = 4 * q /\ B >= 4
  <2>1. PICK q \in Nat \ {0} : BYTE = 4 * q
    BY ByteIs
  <2>2. 4 * q \in Nat /\ 4 * q >= 4
    OBVIOUS
  <2> QED BY <2>1, <2>2
<1>2. PICK p \in Nat : p = Power[1] /\ p = B
  <2>1. 1 \in 1..8 /\ 1 - 1 = 0 /\ B * 1 = B
    OBVIOUS
  <2> QED BY <1>1, <2>1, Powers
<1>3. PICK r \in Nat : r = Power[2] /\ r = B * p
  <2>1. 2 \in 1..8 /\ 2 \in 0..8 /\ 2 - 1 = 1
    OBVIOUS
  <2> QED BY <1>1, <1>2, <2>1, Powers
<1>4. PICK u \in Nat : u = U24 /\ u = B * r
  <2>1. 3 \in 1..8 /\ 3 \in 0..8 /\ 3 - 1 = 2
    OBVIOUS
  <2> QED BY <1>1, <1>3, <2>1, Powers DEF U24
<1>5. r >= 16
  <2>1. B * p >= 4 * 4
    BY <1>1, <1>2
  <2> QED BY <1>3, <2>1
<1>6. u >= 64
  <2>1. B * r >= 4 * r
    BY <1>1
  <2> QED BY <1>4, <1>5, <2>1
<1>7. B * u >= u + 64
  <2>1. B * u >= 4 * u
    BY <1>1
  <2>2. B * u \in Nat
    OBVIOUS
  <2> QED BY <1>6, <2>1, <2>2
<1>8. u = 2 * (2 * (q * r))
  <2>1. u = (4 * q) * r
    BY <1>1, <1>4
  <2>2. (4 * q) * r = 4 * (q * r)
    OBVIOUS
  <2>3. q * r \in Nat
    OBVIOUS
  <2> QED BY <2>1, <2>2, <2>3
<1>9. 2 * (q * r) \in Nat
  <2>1. q * r \in Nat
    OBVIOUS
  <2> QED BY <2>1
<1>10. WORD = B * u
  BY <1>1, <1>4, Widths
<1> QED
  BY <1>4, <1>6, <1>7, <1>8, <1>9, <1>10

(* The packet t lies in b behind a. *)
LiesAt(b, a, t) == a \in Nat /\ \A j \in 1..Len(t) : b[a + j] = t[j]

(* What a player can be told in a packet. *)
Readable(comp, ts, data) ==
  /\ comp \in Nat /\ 2 * comp < U24
  /\ ts \in Nat /\ ts < WORD
  /\ data \in Seq(Nat) /\ Len(data) + 5 < U24

TagTells(tag, skip, frame, last, comp, ts, data) ==
  /\ tag.type = (IF skip = 16 THEN 9 ELSE 8)
  /\ tag.frame = frame
  /\ tag.header <=> last = 0
  /\ tag.time = ts
  /\ skip = 16 => tag.composition = comp
  /\ tag.data = data
  /\ tag.trailer

(* A player that reads a tag where a packet lies finds what was packed.     *)
LEMMA PacketAt ==
  ASSUME NEW skip \in {13, 16}, NEW frame, NEW last, NEW comp, NEW ts, NEW data, NEW t,
         Readable(comp, ts, data), IsPacket(t, skip, frame, last, comp, ts, data),
         NEW b, NEW a, LiesAt(b, a, t)
  PROVE  /\ Read(b, a + 1 + 1, 3) = Len(t) - 15
         /\ TagTells(TagAt(b, a + 1), skip, frame, last, comp, ts, data)
<1>1. PICK l \in Nat : l = Len(data) /\ Len(t) = skip + l + 4 /\ l + 5 < U24
  BY DEF Readable, IsPacket
<1>2. PICK size \in Nat, p \in Nat : size = skip - 11 + l /\ p = a + 1
  BY DEF LiesAt
<1>3. a \in Nat /\ \A j \in 1..(skip + l + 4) : b[a + j] = t[j]
  BY <1>1 DEF LiesAt
<1>4. /\ t[1] = IF skip = 16 THEN 9 ELSE 8
      /\ \A i \in 1..3 : t[1 + i] = Write(size, 3)[i]
      /\ \A i \in 1..3 : t[4 + i] = Write(ts % U24, 3)[i]
      /\ t[8] = (ts \div U24) % BYTE
      /\ t[12] = frame /\ t[13] = last
      /\ skip = 16 => \A i \in 1..3 : t[13 + i] = Write(comp, 3)[i]
      /\ \A j \in 1..l : t[skip + j] = data[j]
      /\ \A i \in 1..4 : t[skip + l + i] = Write(skip + l, 4)[i]
  BY <1>1, <1>2, Zenon DEF IsPacket
<1>5. size < U24 /\ skip + l = 11 + size /\ 11 + size < WORD /\ size = Len(t) - 15
  <2>1. PICK u \in Nat, w \in Nat : u = U24 /\ w = WORD /\ w >= u + 64
    BY Widths, Room
  <2>2. size = skip - 11 + l /\ l + 5 < u
    BY <1>1, <1>2, <2>1
  <2>3. skip = 13 \/ skip = 16
    OBVIOUS
  <2>4. size < u /\ skip + l = 11 + size
    BY <2>2, <2>3
  <2>5. 11 + size < w
    BY <2>1, <2>4
  <2>6. size = Len(t) - 15
    BY <1>1, <2>2, <2>3
  <2> QED BY <2>1, <2>4, <2>5, <2>6
<1>6. 3 \in 0..8 /\ 4 \in 0..8
  OBVIOUS
<1>7. Read(b, p + 1, 3) = size
  <2>1. ASSUME NEW i \in 1..3 PROVE b[(p + 1) + i - 1] = Write(size, 3)[i]
    <3>1. (p + 1) + i - 1 = a + (1 + i) /\ 1 + i \in 1..(skip + l + 4)
      BY <1>2, <1>3
    <3> QED BY <1>3, <1>4, <3>1
  <2>2. p + 1 \in Nat /\ size < Power[3]
    BY <1>5 DEF U24
  <2> QED BY <1>6, <2>1, <2>2, ReadWritten
<1>8. Read(b, p + 4, 3) = ts % U24
  <2>1. ASSUME NEW i \in 1..3 PROVE b[(p + 4) + i - 1] = Write(ts % U24, 3)[i]
    <3>1. (p + 4) + i - 1 = a + (4 + i) /\ 4 + i \in 1..(skip + l + 4)
      BY <1>2, <1>3
    <3> QED BY <1>3, <1>4, <3>1
  <2>2. p + 4 \in Nat
    OBVIOUS
  <2>3. PICK n \in Nat : n = ts % U24 /\ n < Power[3]
    BY TimeInParts DEF Readable, U24
  <2> QED BY <1>6, <2>1, <2>2, <2>3, ReadWritten
<1>9. /\ b[p] = (IF skip = 16 THEN 9 ELSE 8)
      /\ b[p + 7] = (ts \div U24) % BYTE
      /\ b[p + 11] = frame /\ b[p + 12] = last
  <2>1. p + 7 = a + 8 /\ p + 11 = a + 12 /\ p + 12 = a + 13
    BY <1>2, <1>3
  <2>2. 1 \in 1..(skip + l + 4) /\ 8 \in 1..(skip + l + 4)
        /\ 12 \in 1..(skip + l + 4) /\ 13 \in 1..(skip + l + 4)
    OBVIOUS
  <2>3. b[a + 1] = t[1] /\ b[a + 8] = t[8] /\ b[a + 12] = t[12] /\ b[a + 13] = t[13]
    BY <1>3, <2>2, Zenon
  <2> QED BY <1>2, <1>4, <2>1, <2>3, Zenon
<1>10. b[p] = 9 <=> skip = 16
  BY <1>9
<1>11. skip = 16 => Read(b, p + 13, 3) = comp
  <2> SUFFICES ASSUME skip = 16 PROVE Read(b, p + 13, 3) = comp
    OBVIOUS
  <2>1. ASSUME NEW i \in 1..3 PROVE b[(p + 13) + i - 1] = Write(comp, 3)[i]
    <3>1. (p + 13) + i - 1 = a + (13 + i) /\ 13 + i \in 1..(skip + l + 4)
      BY <1>2, <1>3
    <3> QED BY <1>3, <1>4, <3>1
  <2>2. p + 13 \in Nat /\ comp \in Nat /\ comp < Power[3]
    BY Room DEF Readable, U24
  <2> QED BY <1>6, <2>1, <2>2, ReadWritten
<1>12. comp < U24 \div 2
  <2>1. PICK h \in Nat : U24 = 2 * h
    BY Room
  <2>2. U24 \div 2 = h
    BY <2>1
  <2> QED BY <2>1, <2>2 DEF Readable
<1>13. Read(b, p + 11 + size, 4) = 11 + size
  <2>1. ASSUME NEW i \in 1..4 PROVE b[(p + 11 + size) + i - 1] = Write(11 + size, 4)[i]
    <3>1. (p + 11 + size) + i - 1 = a + (skip + l + i) /\ skip + l + i \in 1..(skip + l + 4)
      BY <1>2, <1>3, <1>5
    <3>2. b[a + (skip + l + i)] = t[skip + l + i]
      BY <1>3, <3>1
    <3>3. t[skip + l + i] = Write(11 + size, 4)[i]
      BY <1>4, <1>5, Zenon
    <3> QED BY <3>1, <3>2, <3>3, Zenon
  <2>2. p + 11 + size \in Nat /\ 11 + size \in Nat /\ 11 + size < Power[4]
    BY <1>5 DEF WORD
  <2> QED BY <1>6, <2>1, <2>2, ReadWritten
<1>14. SubSeq(b, p + skip, p + 10 + size) = data
  <2>1. PICK m \in Int, n \in Int : m = p + skip /\ n = p + 10 + size
    BY <1>2
  <2>2. n - m + 1 = l
    <3>1. skip + l = 11 + size /\ skip \in Int
      BY <1>5
    <3> QED BY <2>1, <3>1
  <2>3. ASSUME NEW i \in 1..l PROVE b[m + i - 1] = data[i]
    <3>1. m + i - 1 = a + (skip + i) /\ skip + i \in 1..(skip + l + 4)
      BY <1>2, <1>3, <2>1
    <3> QED BY <1>3, <1>4, <3>1
  <2>4. ASSUME NEW j \in m..n PROVE b[j] \in Nat
    <3>1. PICK i \in 1..l : j = m + i - 1
      <4>1. j - m + 1 \in 1..l /\ j = m + (j - m + 1) - 1
        BY <2>2
      <4> QED BY <4>1
    <3>2. data[i] \in Nat
      BY <1>1 DEF Readable
    <3> QED BY <2>3, <3>1, <3>2
  <2>5. /\ SubSeq(b, m, n) \in Seq(Nat)
        /\ Len(SubSeq(b, m, n)) = IF m <= n THEN n - m + 1 ELSE 0
        /\ \A i \in 1..(n - m + 1) : SubSeq(b, m, n)[i] = b[m + i - 1]
    BY <2>4, SubSeqProperties
  <2>6. PICK s : s = SubSeq(b, m, n)
    OBVIOUS
  <2>7. Len(s) = l
    <3>1. CASE m <= n
      BY <2>2, <2>5, <2>6, <3>1
    <3>2. CASE ~(m <= n)
      BY <2>2, <2>5, <2>6, <3>2
    <3> QED BY <3>1, <3>2
  <2>8. \A i \in 1..l : s[i] = data[i]
    BY <2>2, <2>3, <2>5, <2>6
  <2>9. s \in Seq(Nat) /\ data \in Seq(Nat) /\ Len(s) = Len(data)
    BY <1>1, <2>5, <2>6, <2>7 DEF Readable
  <2>10. s = data
    BY <1>1, <2>8, <2>9, SeqEqual
  <2> QED BY <2>1, <2>6, <2>10
<1>15. PICK tag : tag = TagAt(b, p)
  OBVIOUS
<1>16. (IF b[p] = 9 THEN 16 ELSE 13) = skip
  BY <1>10
<1>17. tag = [type |-> b[p], frame |-> b[p + 11], header |-> b[p + 12] = 0,
              time |-> Read(b, p + 4, 3) + U24 * b[p + 7],
              composition |-> IF (IF b[p] = 9 THEN Read(b, p + 13, 3) ELSE 0) < U24 \div 2
                              THEN (IF b[p] = 9 THEN Read(b, p + 13, 3) ELSE 0)
                              ELSE (IF b[p] = 9 THEN Read(b, p + 13, 3) ELSE 0) - U24,
              data |-> SubSeq(b, p + (IF b[p] = 9 THEN 16 ELSE 13), p + 10 + Read(b, p + 1, 3)),
              trailer |-> Read(b, p + 11 + Read(b, p + 1, 3), 4) = 11 + Read(b, p + 1, 3)]
  BY <1>15, Zenon DEF TagAt
<1>18. PICK type, fr, hd, tm, cm, dt, tr :
         /\ type = b[p] /\ fr = b[p + 11] /\ hd = (b[p + 12] = 0)
         /\ tm = Read(b, p + 4, 3) + U24 * b[p + 7]
         /\ cm = IF (IF b[p] = 9 THEN Read(b, p + 13, 3) ELSE 0) < U24 \div 2
                 THEN (IF b[p] = 9 THEN Read(b, p + 13, 3) ELSE 0)
                 ELSE (IF b[p] = 9 THEN Read(b, p + 13, 3) ELSE 0) - U24
         /\ dt = SubSeq(b, p + (IF b[p] = 9 THEN 16 ELSE 13), p + 10 + Read(b, p + 1, 3))
         /\ tr = (Read(b, p + 11 + Read(b, p + 1, 3), 4) = 11 + Read(b, p + 1, 3))
  OBVIOUS
<1>19. tag = [type |-> type, frame |-> fr, header |-> hd, time |-> tm, composition |-> cm,
              data |-> dt, trailer |-> tr]
  BY <1>17, <1>18, Zenon
<1>20. /\ tag.type = type /\ tag.frame = fr /\ tag.header = hd /\ tag.time = tm
       /\ tag.composition = cm /\ tag.data = dt /\ tag.trailer = tr
  BY <1>19
<1>21. dt = data
  BY <1>7, <1>14, <1>16, <1>18, Zenon
<1>22. tr
  BY <1>7, <1>13, <1>18, Zenon
<1>23. tm = ts
  BY <1>8, <1>9, <1>18, TimeInParts, Zenon DEF Readable
<1>24. skip = 16 => cm = comp
  BY <1>10, <1>11, <1>12, <1>18, Zenon
<1>25. type = (IF skip = 16 THEN 9 ELSE 8) /\ fr = frame /\ (hd <=> last = 0)
  BY <1>9, <1>18, Zenon
<1>26. TagTells(tag, skip, frame, last, comp, ts, data)
  BY <1>20, <1>21, <1>22, <1>23, <1>24, <1>25, Zenon DEF TagTells
<1> QED
  BY <1>2, <1>5, <1>7, <1>15, <1>26, Zenon
TagsFrom(b, n, begin) ==
  [tags |-> [k \in 1..n |-> TagAt(b, begin[k])], end |-> begin[n + 1] - 1]

(* Each packet says its own size. *)
Sized(at, b, T, n) ==
  /\ n \in Nat /\ n = Len(T)
  /\ \A k \in 1..n : Len(T[k]) \in Nat /\ Read(b, at[k] + 1 + 1, 3) = Len(T[k]) - 15

(* The tags of a player begin where the packets do. *)
LEMMA TagsFound ==
  ASSUME NEW b, NEW T, NEW n \in Nat, NEW at, Places(at, b, T, 8), Sized(at, b, T, n)
  PROVE  /\ TagsOf(b, n).end = Len(b)
         /\ \A k \in 1..n : TagsOf(b, n).tags[k] = TagAt(b, at[k] + 1)
<1>19. n \in Nat /\ n = Len(T)
  BY DEF Sized
<1>20. \A k \in 1..n : Len(T[k]) \in Nat /\ Read(b, at[k] + 1 + 1, 3) = Len(T[k]) - 15
  BY DEF Sized
<1>1. /\ \A k \in 1..(n + 1) : at[k] \in Nat
      /\ at[1] = 8 /\ at[n + 1] = Len(b)
      /\ \A k \in 1..n : at[k + 1] = at[k] + Len(T[k])
  BY <1>19 DEF Places
<1> DEFINE Begins(g) == [k \in 1..(n + 1) |->
                           IF k = 1 THEN 9 ELSE g[k - 1] + 15 + Read(b, g[k - 1] + 1, 3)]
<1>2. PICK g : g = [k \in 1..(n + 1) |-> at[k] + 1]
  OBVIOUS
<1>3. ASSUME NEW k \in 1..n
      PROVE  at[k + 1] + 1 = (at[k] + 1) + 15 + Read(b, (at[k] + 1) + 1, 3)
  <2>1. PICK x \in Nat, y \in Nat, z \in Nat : x = at[k] /\ y = at[k + 1] /\ z = Len(T[k])
    <3>1. k \in 1..(n + 1) /\ k + 1 \in 1..(n + 1)
      BY <1>19
    <3> QED BY <1>1, <1>20, <3>1
  <2>2. y = x + z /\ Read(b, x + 1 + 1, 3) = z - 15
    BY <1>1, <1>20, <2>1
  <2>3. y + 1 = (x + 1) + 15 + (z - 15)
    BY <2>2
  <2> QED BY <2>1, <2>2, <2>3, Zenon
<1>4. ASSUME NEW k \in 1..(n + 1), k # 1 PROVE k - 1 \in 1..n /\ (k - 1) + 1 = k
  BY <1>4
<1>5. g = Begins(g)
  <2>1. ASSUME NEW k \in 1..(n + 1)
        PROVE  g[k] = IF k = 1 THEN 9 ELSE g[k - 1] + 15 + Read(b, g[k - 1] + 1, 3)
    <3>1. CASE k = 1
      BY <1>1, <1>2, <3>1
    <3>2. CASE k # 1
      <4>1. PICK j \in 1..n : j = k - 1 /\ j + 1 = k /\ j \in 1..(n + 1)
        <5>1. k - 1 \in 1..n /\ (k - 1) + 1 = k /\ k - 1 \in 1..(n + 1)
          BY <3>2
        <5> QED BY <5>1
      <4>2. g[k] = at[j + 1] + 1 /\ g[j] = at[j] + 1
        BY <1>2, <4>1
      <4> QED BY <1>3, <3>2, <4>1, <4>2, Zenon
    <3> QED BY <3>1, <3>2
  <2> QED BY <1>2, <2>1
<1>6. PICK f : f = CHOOSE h : h = Begins(h)
  OBVIOUS
<1>7. f = Begins(f)
  <2> HIDE DEF Begins
  <2> QED BY <1>5, <1>6, Zenon
<1>8. ASSUME NEW k \in 1..(n + 1)
      PROVE  f[k] = IF k = 1 THEN 9 ELSE f[k - 1] + 15 + Read(b, f[k - 1] + 1, 3)
  BY <1>7
<1>9. TagsOf(b, n) = TagsFrom(b, n, f)
  <2>1. TagsOf(b, n) = TagsFrom(b, n, CHOOSE h : h = Begins(h))
    BY Zenon DEF TagsOf, TagsFrom
  <2> HIDE DEF Begins
  <2> QED BY <1>6, <2>1, Zenon
<1> HIDE DEF Begins
<1> DEFINE P == {k \in Nat : k <= n => f[k + 1] = at[k + 1] + 1}
<1>10. 0 \in P
  <2>1. 1 \in 1..(n + 1) /\ 0 + 1 = 1
    OBVIOUS
  <2>2. f[1] = 9
    BY <1>8, <2>1
  <2> QED BY <1>1, <2>1, <2>2
<1>11. ASSUME NEW k \in Nat, k \in P PROVE k + 1 \in P
  <2> SUFFICES ASSUME k + 1 <= n PROVE f[(k + 1) + 1] = at[(k + 1) + 1] + 1
    OBVIOUS
  <2>1. PICK j \in 1..n : j = k + 1
    OBVIOUS
  <2>2. f[j] = at[j] + 1
    BY <1>11, <2>1
  <2>3. j + 1 \in 1..(n + 1) /\ j + 1 # 1 /\ (j + 1) - 1 = j
    OBVIOUS
  <2>4. f[j + 1] = f[j] + 15 + Read(b, f[j] + 1, 3)
    BY <1>8, <2>3, Zenon
  <2>5. f[j + 1] = at[j + 1] + 1
    BY <1>3, <2>2, <2>4, Zenon
  <2> HIDE DEF P
  <2> QED BY <2>1, <2>5
<1>12. \A k \in Nat : k \in P
  <2> HIDE DEF P
  <2> QED BY <1>10, <1>11, Induction
<1>13. ASSUME NEW k \in 1..(n + 1) PROVE f[k] = at[k] + 1
  <2>1. k - 1 \in Nat /\ k - 1 <= n /\ (k - 1) + 1 = k
    OBVIOUS
  <2>2. f[(k - 1) + 1] = at[(k - 1) + 1] + 1
    BY <1>12, <2>1
  <2> QED BY <2>1, <2>2
<1>14. PICK r : r = TagsOf(b, n)
  OBVIOUS
<1>15. PICK gs, e : gs = [k \in 1..n |-> TagAt(b, f[k])] /\ e = f[n + 1] - 1
  OBVIOUS
<1>16. r.tags = gs /\ r.end = e
  <2>1. r = [tags |-> gs, end |-> e]
    BY <1>9, <1>14, <1>15, Zenon DEF TagsFrom
  <2> QED BY <2>1
<1>17. e = Len(b)
  <2>1. n + 1 \in 1..(n + 1)
    OBVIOUS
  <2>2. f[n + 1] = at[n + 1] + 1 /\ at[n + 1] \in Nat
    BY <1>1, <1>13, <2>1
  <2> QED BY <1>1, <1>15, <2>2
<1>18. ASSUME NEW k \in 1..n PROVE gs[k] = TagAt(b, at[k] + 1)
  <2>1. k \in 1..(n + 1)
    OBVIOUS
  <2>2. f[k] = at[k] + 1
    BY <1>13, <2>1
  <2> QED BY <1>15, <2>2, Zenon
<1> QED
  BY <1>14, <1>16, <1>17, <1>18, Zenon

-----------------------------------------------------------------------------
LEMMA VideoIs ==
  ASSUME NEW key \in BOOLEAN, NEW header \in BOOLEAN, NEW comp \in Nat, NEW ts \in Nat,
         NEW data \in Seq(Nat)
  PROVE  IsPacket(write_video_packet(key, header, comp, ts, data), 16,
                  IF key \/ header THEN 23 ELSE 39, IF header THEN 0 ELSE 1, comp, ts, data)
<1>1. PICK frame \in Nat, last \in Nat :
        frame = (IF key \/ header THEN 23 ELSE 39) /\ last = (IF header THEN 0 ELSE 1)
  OBVIOUS
<1>2. IsPacket(<<9>> \o Write(Len(data) + 5, 3) \o Write(ts % U24, 3) \o <<(ts \div U24) % BYTE>>
                 \o Write(0, 3) \o <<frame, last>>
                 \o Write(comp, 3) \o data \o Write(Len(data) + 5 + 11, 4),
               16, frame, last, comp, ts, data)
  BY VideoPacketIs
<1> QED
  BY <1>1, <1>2, Zenon DEF write_video_packet

LEMMA AudioIs ==
  ASSUME NEW header \in BOOLEAN, NEW comp \in Nat, NEW ts \in Nat, NEW data \in Seq(Nat)
  PROVE  IsPacket(write_audio_packet(header, ts, data), 13, 175,
                  IF header THEN 0 ELSE 1, comp, ts, data)
<1>1. PICK frame \in Nat, last \in Nat : frame = 175 /\ last = (IF header THEN 0 ELSE 1)
  OBVIOUS
<1>2. IsPacket(<<8>> \o Write(Len(data) + 2, 3) \o Write(ts % U24, 3) \o <<(ts \div U24) % BYTE>>
                 \o Write(0, 3) \o <<frame, last>>
                 \o data \o Write(Len(data) + 2 + 11, 4),
               13, frame, last, comp, ts, data)
  BY AudioPacketIs
<1> QED
  BY <1>1, <1>2, Zenon DEF write_audio_packet

(* Quotients of what is below a product. *)
LEMMA QuotientBelow ==
  ASSUME NEW a \in Nat, NEW n \in Nat \ {0}, NEW w \in Nat, a < w * n
  PROVE  a \div n < w
<1>1. PICK q \in Nat, r \in Nat : q = a \div n /\ a = n * q + r
  <2>1. a \div n \in Nat /\ a % n \in Nat /\ a \in Int
    BY QuotientIsNat
  <2>2. a = n * (a \div n) + (a % n)
    BY <2>1, Division
  <2> QED BY <2>1, <2>2
<1>2. q < w
  <2> SUFFICES ASSUME q >= w PROVE FALSE
    OBVIOUS
  <2>1. n * q >= n * w /\ n * w = w * n
    OBVIOUS
  <2>2. n * q \in Nat /\ w * n \in Nat
    OBVIOUS
  <2> QED BY <1>1, <2>1, <2>2
<1> QED
  BY <1>1, <1>2

(* What a player should be told of a packed sample. *)
SkipOf(se) == IF video(se) THEN 16 ELSE 13
FrameOf(se) == IF ~video(se) THEN 175 ELSE IF keyframe(se) THEN 23 ELSE 39

LEMMA SamplePacketIs ==
  ASSUME NEW se, EntryOK(se)
  PROVE  IsPacket(SamplePacket(se), SkipOf(se), FrameOf(se), 1, composition_offset(se),
                  se.timestamp, SourceBytes(se.offset, se.size))
<1>1. PICK o \in Nat, n \in Nat, ts \in Nat : o = se.offset /\ n = se.size /\ ts = se.timestamp
  BY DEF EntryOK
<1>2. PICK c \in Nat : c = composition_offset(se)
  <2>1. U24 \in Nat \ {0} /\ se.composition \in Nat
    BY Widths DEF EntryOK
  <2>2. se.composition % U24 \in Nat
    BY <2>1, QuotientIsNat
  <2> QED BY <2>2 DEF composition_offset
<1>3. PICK data : data = SourceBytes(o, n)
  OBVIOUS
<1>4. data \in Seq(Nat)
  BY <1>3, SourceBytesAre
<1>5. PICK key \in BOOLEAN, header \in BOOLEAN : (key <=> keyframe(se)) /\ ~header
  OBVIOUS
<1>6. CASE video(se)
  <2>1. IsPacket(write_video_packet(key, header, c, ts, data), 16,
                 IF key \/ header THEN 23 ELSE 39, IF header THEN 0 ELSE 1, c, ts, data)
    BY <1>4, VideoIs
  <2>2. (IF key \/ header THEN 23 ELSE 39) = FrameOf(se) /\ (IF header THEN 0 ELSE 1) = 1
    BY <1>5, <1>6, Zenon DEF FrameOf
  <2>3. write_video_packet(key, header, c, ts, data)
          = write_video_packet(keyframe(se), FALSE, c, ts, data)
    BY <1>5, Zenon DEF write_video_packet
  <2>4. SamplePacket(se) = write_video_packet(key, header, c, ts, data)
    BY <1>1, <1>2, <1>3, <1>6, <2>3, Zenon DEF SamplePacket
  <2>5. SkipOf(se) = 16
    BY <1>6, Zenon DEF SkipOf
  <2> QED BY <1>1, <1>2, <1>3, <2>1, <2>2, <2>4, <2>5, Zenon
<1>7. CASE ~video(se)
  <2>1. IsPacket(write_audio_packet(header, ts, data), 13, 175, IF header THEN 0 ELSE 1, c, ts, data)
    BY <1>4, AudioIs
  <2>2. FrameOf(se) = 175 /\ (IF header THEN 0 ELSE 1) = 1 /\ SkipOf(se) = 13
    BY <1>5, <1>7, Zenon DEF FrameOf, SkipOf
  <2>3. write_audio_packet(header, ts, data) = write_audio_packet(FALSE, ts, data)
    BY <1>5, Zenon DEF write_audio_packet
  <2>4. SamplePacket(se) = write_audio_packet(header, ts, data)
    BY <1>1, <1>3, <1>7, <2>3, Zenon DEF SamplePacket
  <2> QED BY <1>1, <1>2, <1>3, <2>1, <2>2, <2>4, Zenon
<1> QED
  BY <1>6, <1>7

(* What fits is not cut. *)
LEMMA NothingCut ==
  ASSUME NEW se, NEW si, IsSample(si), Fits(si), Packed(se, si)
  PROVE  /\ Readable(composition_offset(se), se.timestamp, SourceBytes(se.offset, se.size))
         /\ composition_offset(se) = (si.composition_offset * 1000) \div si.timescale
         /\ (si.timestamp * 1000) \div si.timescale - se.timestamp \in 0..1
<1>1. PICK o \in Nat, n \in Nat, t \in Nat, s \in Nat \ {0}, c \in Nat :
        /\ o = si.offset /\ n = si.sample_size /\ t = si.timestamp
        /\ s = si.timescale /\ c = si.composition_offset
  BY DEF IsSample
<1>2. n + 5 < U24 /\ t * 1000 < WORD * s /\ 2 * c * 1000 < U24 * s
  BY <1>1, ZenonT(60) DEF Fits
<1>3. se.offset = o /\ se.size = n /\ composition_offset(se) = ((c * 1000) \div s) % U24
  BY <1>1, Zenon DEF Packed
<1>4. PICK data : data = SourceBytes(o, n)
  OBVIOUS
<1>5. data \in Seq(Nat) /\ Len(data) = n
  BY <1>4, SourceBytesAre
<1>6. PICK u \in Nat \ {0}, w \in Nat \ {0} : u = U24 /\ w = WORD
  BY Widths
<1>7. PICK q \in Nat : q = (c * 1000) \div s
  <2>1. c * 1000 \in Nat
    OBVIOUS
  <2> QED BY <2>1, QuotientIsNat
<1>8. 2 * q < u
  <2>1. PICK a \in Nat, r \in Nat : a = c * 1000 /\ a = s * q + r
    <3>1. PICK a \in Nat : a = c * 1000
      OBVIOUS
    <3>2. a \div s \in Nat /\ a % s \in Nat /\ a \in Int
      BY QuotientIsNat
    <3>3. a = s * (a \div s) + (a % s)
      BY <3>2, Division
    <3> QED BY <1>7, <3>1, <3>2, <3>3
  <2> SUFFICES ASSUME 2 * q >= u PROVE FALSE
    OBVIOUS
  <2>2. s * (2 * q) >= s * u
    OBVIOUS
  <2>3. s * (2 * q) = 2 * (s * q) /\ s * u = u * s /\ s * q \in Nat /\ u * s \in Nat
    OBVIOUS
  <2>4. 2 * a < u * s
    BY <1>2, <1>6, <2>1
  <2> QED BY <2>1, <2>2, <2>3, <2>4
<1>9. q % u = q
  BY <1>8, SmallRemainder
<1>10. composition_offset(se) = q
  BY <1>3, <1>6, <1>7, <1>9
<1>11. PICK whole \in Nat : whole = (t * 1000) \div s
  <2>1. t * 1000 \in Nat
    OBVIOUS
  <2> QED BY <2>1, QuotientIsNat
<1>12. whole < w
  <2>1. PICK a \in Nat : a = t * 1000 /\ a < w * s
    BY <1>2, <1>6
  <2>2. a \div s < w
    BY <2>1, QuotientBelow
  <2> QED BY <1>11, <2>1, <2>2
<1>13. PICK ms : ms \in Milliseconds(si) /\ se.timestamp = ms % WORD
  BY Zenon DEF Packed
<1>14. ms \in Nat /\ ms <= whole /\ whole - ms \in 0..1
  <2> DEFINE e == si.timestamp * 1000
             v == e \div si.timescale
  <2>3. ms \in {v} \cup (IF v > 0 /\ e % si.timescale = 0 THEN {v - 1} ELSE {})
    <3>1. Milliseconds(si) = {v} \cup (IF v > 0 /\ e % si.timescale = 0 THEN {v - 1} ELSE {})
      BY Zenon DEF Milliseconds
    <3> HIDE DEF e, v
    <3> QED BY <1>13, <3>1, Zenon
  <2>5. v = whole
    BY <1>1, <1>11, ZenonT(60)
  <2> HIDE DEF e, v
  <2>4. ms = v \/ (v > 0 /\ ms = v - 1)
    BY <2>3
  <2> QED BY <2>4, <2>5
<1>15. se.timestamp = ms
  <2>1. ms < w
    BY <1>12, <1>14
  <2>2. ms % w = ms
    BY <1>14, <2>1, SmallRemainder
  <2> QED BY <1>6, <1>13, <2>2, Zenon
<1>16. Readable(q, ms, data)
  <2>1. ms < WORD
    BY <1>6, <1>12, <1>14
  <2>2. Len(data) + 5 < U24 /\ 2 * q < U24
    BY <1>2, <1>5, <1>6, <1>8, Zenon
  <2> QED BY <1>5, <1>14, <2>1, <2>2, Zenon DEF Readable
<1>17. (si.timestamp * 1000) \div si.timescale - se.timestamp \in 0..1
  BY <1>1, <1>11, <1>14, <1>15, ZenonT(60)
<1>18. composition_offset(se) = (si.composition_offset * 1000) \div si.timescale
  BY <1>1, <1>7, <1>10, Zenon
<1> QED
  BY <1>3, <1>4, <1>10, <1>15, <1>16, <1>17, <1>18, Zenon

(* A player is told what the sample was. *)
LEMMA TagShows ==
  ASSUME NEW se, NEW si, IsSample(si), Fits(si), Packed(se, si), NEW tag,
         TagTells(tag, SkipOf(se), FrameOf(se), 1, composition_offset(se), se.timestamp,
                  SourceBytes(se.offset, se.size))
  PROVE  Shows(tag, si)
<1>1. /\ se.offset = si.offset /\ se.size = si.sample_size
      /\ video(se) = si.video
      /\ video(se) => keyframe(se) = si.keyframe
  BY Zenon DEF Packed
<1>2. /\ composition_offset(se) = (si.composition_offset * 1000) \div si.timescale
      /\ (si.timestamp * 1000) \div si.timescale - se.timestamp \in 0..1
  BY NothingCut
<1>3. (SkipOf(se) = 16 <=> video(se)) /\ 1 # 0
  <2>1. 16 # 13 /\ 1 # 0
    OBVIOUS
  <2> QED BY <2>1, Zenon DEF SkipOf
<1>4. tag.type = (IF si.video THEN 9 ELSE 8)
  BY <1>1, <1>3, Zenon DEF TagTells
<1>5. tag.frame = (IF ~si.video THEN 175 ELSE IF si.keyframe THEN 23 ELSE 39)
  BY <1>1, Zenon DEF TagTells, FrameOf
<1>6. ~tag.header /\ tag.trailer /\ tag.data = SourceBytes(si.offset, si.sample_size)
  BY <1>1, <1>3, Zenon DEF TagTells
<1>7. (si.timestamp * 1000) \div si.timescale - tag.time \in 0..1
  BY <1>2, ZenonT(60) DEF TagTells
<1>8. si.video => tag.composition = (si.composition_offset * 1000) \div si.timescale
  BY <1>1, <1>2, <1>3, ZenonT(60) DEF TagTells
<1> QED
  BY <1>4, <1>5, <1>6, <1>7, <1>8, Zenon DEF Shows
-----------------------------------------------------------------------------
(* A packet of codec data. *)
HeaderPacket(t, ts) ==
  \E skip, frame, comp, data :
    skip \in {13, 16} /\ Readable(comp, ts, data) /\ IsPacket(t, skip, frame, 0, comp, ts, data)

(* The samples that fit, and their entries. *)
AllFit(es, n) ==
  /\ n \in Nat \ {0} /\ n = Len(fragment) /\ n = Len(es)
  /\ \A k \in 1..n : IsSample(fragment[k]) /\ Fits(fragment[k]) /\ Packed(es[k], fragment[k])

(* Packets in a box: some of codec data, then those of the samples. *)
BoxOf(T, h, es, n) ==
  /\ h \in Nat /\ Len(T) = h + n
  /\ \A k \in 1..h : HeaderPacket(T[k], es[1].timestamp)
  /\ \A k \in 1..n : T[h + k] = SamplePacket(es[k])

LEMMA FoundIn ==
  ASSUME NEW es, NEW n, AllFit(es, n), NEW h, NEW T, BoxOf(T, h, es, n),
         NEW b, LaidOut(b, T, 8)
  PROVE  Found(b, h)
<1>1. /\ n \in Nat \ {0} /\ n = Len(fragment)
      /\ \A k \in 1..n : IsSample(fragment[k]) /\ Fits(fragment[k]) /\ Packed(es[k], fragment[k])
  BY DEF AllFit
<1>2. /\ h \in Nat /\ Len(T) = h + n
      /\ \A k \in 1..h : HeaderPacket(T[k], es[1].timestamp)
      /\ \A k \in 1..n : T[h + k] = SamplePacket(es[k])
  BY DEF BoxOf
<1>3. PICK at : Places(at, b, T, 8)
  BY DEF LaidOut
<1>4. PICK N \in Nat : N = h + n
  BY <1>1, <1>2
<1>5. ASSUME NEW k \in 1..N PROVE LiesAt(b, at[k], T[k])
  <2>1. k \in 1..(Len(T) + 1) /\ k \in 1..Len(T)
    BY <1>1, <1>2, <1>4
  <2> QED BY <1>3, <2>1, Zenon DEF Places, LiesAt
<1>6. ASSUME NEW k \in 1..h
      PROVE  /\ Len(T[k]) \in Nat
             /\ Read(b, at[k] + 1 + 1, 3) = Len(T[k]) - 15
             /\ TagAt(b, at[k] + 1).header /\ TagAt(b, at[k] + 1).trailer
             /\ TagAt(b, at[k] + 1).time = es[1].timestamp
  <2>1. PICK skip, frame, comp, data :
          /\ skip \in {13, 16} /\ Readable(comp, es[1].timestamp, data)
          /\ IsPacket(T[k], skip, frame, 0, comp, es[1].timestamp, data)
    BY <1>2, Zenon DEF HeaderPacket
  <2>2. PICK last, ts, t, a : last = 0 /\ ts = es[1].timestamp /\ t = T[k] /\ a = at[k]
    OBVIOUS
  <2>3. Readable(comp, ts, data) /\ IsPacket(t, skip, frame, last, comp, ts, data)
    BY <2>1, <2>2, Zenon
  <2>4. LiesAt(b, a, t)
    <3>1. k \in 1..N
      BY <1>1, <1>2, <1>4
    <3> QED BY <1>5, <2>2, <3>1, Zenon
  <2>5. /\ Read(b, a + 1 + 1, 3) = Len(t) - 15
        /\ TagTells(TagAt(b, a + 1), skip, frame, last, comp, ts, data)
    BY <2>1, <2>3, <2>4, PacketAt, Zenon
  <2>6. Len(t) \in Nat
    BY <2>3 DEF IsPacket
  <2>7. TagAt(b, a + 1).header /\ TagAt(b, a + 1).trailer /\ TagAt(b, a + 1).time = ts
    BY <2>2, <2>5, Zenon DEF TagTells
  <2> QED BY <2>2, <2>5, <2>6, <2>7, Zenon
<1>7. ASSUME NEW k \in 1..n
      PROVE  /\ Len(T[h + k]) \in Nat
             /\ Read(b, at[h + k] + 1 + 1, 3) = Len(T[h + k]) - 15
             /\ Shows(TagAt(b, at[h + k] + 1), fragment[k])
             /\ TagAt(b, at[h + k] + 1).time = es[k].timestamp
  <2>1. PICK t, a, se, si, tag : /\ t = T[h + k] /\ a = at[h + k] /\ se = es[k] /\ si = fragment[k]
                                 /\ tag = TagAt(b, a + 1)
    OBVIOUS
  <2>2. IsSample(si) /\ Fits(si) /\ Packed(se, si)
    BY <1>1, <2>1, Zenon
  <2>3. EntryOK(se)
    BY <2>2, Zenon DEF Packed
  <2>4. PICK skip, frame, last, comp, ts, data :
          /\ skip = SkipOf(se) /\ frame = FrameOf(se) /\ last = 1 /\ comp = composition_offset(se)
          /\ ts = se.timestamp /\ data = SourceBytes(se.offset, se.size)
    OBVIOUS
  <2>5. skip \in {13, 16}
    BY <2>4 DEF SkipOf
  <2>6. IsPacket(t, skip, frame, last, comp, ts, data)
    <3>1. t = SamplePacket(se)
      BY <1>2, <2>1, Zenon
    <3> QED BY <2>3, <2>4, <3>1, SamplePacketIs, Zenon
  <2>7. Readable(comp, ts, data)
    <3>1. Readable(composition_offset(se), se.timestamp, SourceBytes(se.offset, se.size))
      BY <2>2, NothingCut
    <3> QED BY <2>4, <3>1, Zenon
  <2>8. LiesAt(b, a, t)
    <3>1. h + k \in 1..N
      BY <1>1, <1>2, <1>4
    <3> QED BY <1>5, <2>1, <3>1, Zenon
  <2>9. /\ Read(b, a + 1 + 1, 3) = Len(t) - 15
        /\ TagTells(TagAt(b, a + 1), skip, frame, last, comp, ts, data)
    BY <2>5, <2>6, <2>7, <2>8, PacketAt, Zenon
  <2>10. Len(t) \in Nat
    BY <2>6 DEF IsPacket
  <2>11. Shows(tag, si)
    BY <2>1, <2>2, <2>4, <2>9, TagShows, Zenon
  <2>12. tag.time = se.timestamp
    BY <2>1, <2>4, <2>9, Zenon DEF TagTells
  <2> QED BY <2>1, <2>9, <2>10, <2>11, <2>12, Zenon
<1>8. ASSUME NEW k \in 1..N PROVE Len(T[k]) \in Nat /\ Read(b, at[k] + 1 + 1, 3) = Len(T[k]) - 15
  <2>1. CASE k <= h
    <3>1. k \in 1..h
      BY <2>1
    <3> QED BY <1>6, <3>1, Zenon
  <2>2. CASE k > h
    <3>1. PICK j \in 1..n : k = h + j
      <4>1. k - h \in 1..n /\ k = h + (k - h)
        BY <1>1, <1>2, <1>4, <2>2
      <4> QED BY <4>1
    <3> QED BY <1>7, <3>1, Zenon
  <2> QED BY <1>2, <2>1, <2>2
<1>9. PICK read : read = TagsOf(b, N)
  OBVIOUS
<1>10. read.end = Len(b) /\ \A k \in 1..N : read.tags[k] = TagAt(b, at[k] + 1)
  <2>1. N = Len(T)
    BY <1>2, <1>4
  <2>3. Sized(at, b, T, N)
    BY <1>8, <2>1, Zenon DEF Sized
  <2>2. /\ TagsOf(b, N).end = Len(b)
        /\ \A k \in 1..N : TagsOf(b, N).tags[k] = TagAt(b, at[k] + 1)
    BY <1>3, <2>3, TagsFound
  <2> QED BY <1>9, <2>2, Zenon
<1>11. ASSUME NEW k \in 1..n PROVE Shows(read.tags[h + k], fragment[k]) /\ read.tags[h + k].time = es[k].timestamp
  <2>1. h + k \in 1..N
    BY <1>1, <1>2, <1>4
  <2> QED BY <1>7, <1>10, <2>1, Zenon
<1>12. read.tags[h + 1].time = es[1].timestamp
  <2>1. 1 \in 1..n
    BY <1>1
  <2> QED BY <1>11, <2>1, Zenon
<1>13. ASSUME NEW k \in 1..h
       PROVE  read.tags[k].header /\ read.tags[k].trailer /\ read.tags[k].time = read.tags[h + 1].time
  <2>1. k \in 1..N
    BY <1>1, <1>2, <1>4
  <2> QED BY <1>6, <1>10, <1>12, <2>1, Zenon
<1> QED
  BY <1>1, <1>4, <1>9, <1>10, <1>11, <1>13, Zenon DEF Found

-----------------------------------------------------------------------------
(* The packets H of codec data, one after the other. *)
IsHeads(b, H, h, ts) ==
  LaidOut(b, H, 0) /\ h \in Nat /\ Len(H) = h /\ \A k \in 1..h : HeaderPacket(H[k], ts)

LEMMA NoHead == ASSUME NEW ts PROVE IsHeads(<<>>, <<>>, 0, ts)
<1>1. PICK e : e = <<>>
  OBVIOUS
<1>2. e \in Seq(Nat) /\ Len(e) = 0
  BY <1>1
<1>3. LaidOut(e, <<>>, Len(e))
  BY <1>2, NoneLaid
<1>4. LaidOut(e, e, 0)
  BY <1>1, <1>2, <1>3, Zenon
<1>5. 0 \in Nat /\ \A k \in 1..0 : HeaderPacket(e[k], ts)
  OBVIOUS
<1>6. IsHeads(e, e, 0, ts)
  BY <1>2, <1>4, <1>5, Zenon DEF IsHeads
<1> QED
  BY <1>1, <1>6, Zenon

LEMMA OneHead ==
  ASSUME NEW t, NEW ts, HeaderPacket(t, ts)
  PROVE  IsHeads(t, <<t>>, 1, ts)
<1>1. t \in Seq(Nat)
  <2>1. PICK skip, frame, comp, data : IsPacket(t, skip, frame, 0, comp, ts, data)
    BY Zenon DEF HeaderPacket
  <2> QED BY <2>1, Zenon DEF IsPacket
<1>2. PICK H : H = <<t>>
  OBVIOUS
<1>3. Len(H) = 1 /\ \A k \in 1..1 : H[k] = t
  BY <1>2
<1>4. LaidOut(t, H, 0)
  BY <1>1, <1>2, OneLaid, Zenon
<1>5. 1 \in Nat
  OBVIOUS
<1>6. IsHeads(t, H, 1, ts)
  BY <1>3, <1>4, <1>5, Zenon DEF IsHeads
<1> QED
  BY <1>2, <1>6, Zenon

LEMMA MoreHeads ==
  ASSUME NEW a, NEW G, NEW g, NEW b, NEW H, NEW h, NEW ts,
         IsHeads(a, G, g, ts), IsHeads(b, H, h, ts)
  PROVE  IsHeads(a \o b, G \o H, g + h, ts)
<1>1. g \in Nat /\ Len(G) = g /\ h \in Nat /\ Len(H) = h /\ LaidOut(a, G, 0) /\ LaidOut(b, H, 0)
  BY Zenon DEF IsHeads
<1>2. LaidOut(a \o b, G \o H, 0)
  BY <1>1, LaidConcat, Zenon
<1>3. PICK J : J = G \o H
  OBVIOUS
<1>4. G \in Seq(Seq(Nat)) /\ H \in Seq(Seq(Nat))
  BY <1>1, Zenon DEF LaidOut
<1>5. Joined(J, G, H, Seq(Nat))
  BY <1>3, <1>4, Concatenated, Zenon
<1>6. Len(J) = g + h /\ (\A k \in 1..g : J[k] = G[k]) /\ \A k \in 1..h : J[g + k] = H[k]
  BY <1>1, <1>5, Zenon DEF Joined
<1>7. ASSUME NEW k \in 1..(g + h) PROVE HeaderPacket(J[k], ts)
  <2>1. CASE k <= g
    <3>1. k \in 1..g
      BY <2>1
    <3>2. HeaderPacket(G[k], ts)
      BY <3>1, Zenon DEF IsHeads
    <3> QED BY <1>6, <3>1, <3>2, Zenon
  <2>2. CASE k > g
    <3>1. PICK j \in 1..h : k = g + j
      <4>1. k - g \in 1..h /\ k = g + (k - g)
        BY <1>1, <2>2
      <4> QED BY <4>1
    <3>2. HeaderPacket(H[j], ts)
      BY Zenon DEF IsHeads
    <3> QED BY <1>6, <3>1, <3>2, Zenon
  <2> QED BY <1>1, <2>1, <2>2
<1>8. g + h \in Nat
  BY <1>1
<1>9. IsHeads(a \o b, J, g + h, ts)
  BY <1>2, <1>3, <1>6, <1>7, <1>8, Zenon DEF IsHeads
<1> QED
  BY <1>3, <1>9, Zenon

LEMMA VideoHead ==
  ASSUME NEW ts \in Nat, ts < WORD, NEW data \in Seq(Nat), Len(data) + 5 < U24
  PROVE  /\ HeaderPacket(write_video_packet(TRUE, TRUE, 0, ts, data), ts)
         /\ Len(write_video_packet(TRUE, TRUE, 0, ts, data)) = 20 + Len(data)
<1>1. PICK key \in BOOLEAN, header \in BOOLEAN, comp \in Nat : key /\ header /\ comp = 0
  OBVIOUS
<1>2. PICK t : t = write_video_packet(key, header, comp, ts, data)
  OBVIOUS
<1>3. IsPacket(t, 16, IF key \/ header THEN 23 ELSE 39, IF header THEN 0 ELSE 1, comp, ts, data)
  BY <1>2, VideoIs, Zenon
<1>4. PICK frame : frame = IF key \/ header THEN 23 ELSE 39
  OBVIOUS
<1>5. IsPacket(t, 16, frame, 0, comp, ts, data)
  BY <1>1, <1>3, <1>4, Zenon
<1>6. Readable(comp, ts, data)
  <2>1. 2 * comp < U24
    BY <1>1, Room
  <2> QED BY <2>1 DEF Readable
<1>7. HeaderPacket(t, ts)
  <2>1. 16 \in {13, 16}
    OBVIOUS
  <2> QED BY <1>5, <1>6, <2>1, Zenon DEF HeaderPacket
<1>8. Len(t) = 20 + Len(data)
  BY <1>5 DEF IsPacket
<1>9. write_video_packet(TRUE, TRUE, 0, ts, data) = t
  BY <1>1, <1>2, Zenon DEF write_video_packet
<1> QED
  BY <1>7, <1>8, <1>9, Zenon

LEMMA AudioHead ==
  ASSUME NEW ts \in Nat, ts < WORD, NEW data \in Seq(Nat), Len(data) + 5 < U24
  PROVE  /\ HeaderPacket(write_audio_packet(TRUE, ts, data), ts)
         /\ Len(write_audio_packet(TRUE, ts, data)) = 17 + Len(data)
<1>1. PICK header \in BOOLEAN, comp \in Nat : header /\ comp = 0
  OBVIOUS
<1>2. PICK t : t = write_audio_packet(header, ts, data)
  OBVIOUS
<1>3. IsPacket(t, 13, 175, IF header THEN 0 ELSE 1, comp, ts, data)
  BY <1>2, AudioIs, Zenon
<1>4. PICK frame : frame = 175
  OBVIOUS
<1>5. IsPacket(t, 13, frame, 0, comp, ts, data)
  BY <1>1, <1>3, <1>4, Zenon
<1>6. Readable(comp, ts, data)
  <2>1. 2 * comp < U24
    BY <1>1, Room
  <2> QED BY <2>1 DEF Readable
<1>7. HeaderPacket(t, ts)
  <2>1. 13 \in {13, 16}
    OBVIOUS
  <2> QED BY <1>5, <1>6, <2>1, Zenon DEF HeaderPacket
<1>8. Len(t) = 17 + Len(data)
  BY <1>5 DEF IsPacket
<1>9. write_audio_packet(TRUE, ts, data) = t
  BY <1>1, <1>2, Zenon DEF write_audio_packet
<1> QED
  BY <1>7, <1>8, <1>9, Zenon
-----------------------------------------------------------------------------
(* The packets of the samples, one after the other. *)
LEMMA SamplesLaid ==
  ASSUME NEW es, NEW n, AllFit(es, n), NEW S, S = [k \in 1..n |-> SamplePacket(es[k])]
  PROVE  /\ LaidOut(FlattenSeq(S), S, 0) /\ Len(S) = n
         /\ Len(FlattenSeq(S)) = SentUpTo(es)[n]
<1>1. /\ n \in Nat \ {0} /\ n = Len(es)
      /\ \A k \in 1..n : IsSample(fragment[k]) /\ Fits(fragment[k]) /\ Packed(es[k], fragment[k])
  BY DEF AllFit
<1>2. ASSUME NEW k \in 1..n
      PROVE  /\ SamplePacket(es[k]) \in Seq(Nat)
             /\ Len(SamplePacket(es[k])) = SentBytes(es[k])
             /\ es[k].size \in Nat
  <2>1. PICK se : se = es[k]
    OBVIOUS
  <2>2. EntryOK(se)
    BY <1>1, <2>1, Zenon DEF Packed
  <2>3. PICK skip, frame, last, comp, ts, data :
          /\ skip = SkipOf(se) /\ frame = FrameOf(se) /\ last = 1 /\ comp = composition_offset(se)
          /\ ts = se.timestamp /\ data = SourceBytes(se.offset, se.size)
    OBVIOUS
  <2>4. PICK t : t = SamplePacket(se)
    OBVIOUS
  <2>5. IsPacket(t, skip, frame, last, comp, ts, data)
    BY <2>2, <2>3, <2>4, SamplePacketIs, Zenon
  <2>6. t \in Seq(Nat) /\ Len(t) = skip + Len(data) + 4
    BY <2>5, Zenon DEF IsPacket
  <2>7. se.offset \in Nat /\ se.size \in Nat
    BY <2>2 DEF EntryOK
  <2>8. Len(data) = se.size
    BY <2>3, <2>7, SourceBytesAre
  <2>9. skip = 11 + (IF video(se) THEN 5 ELSE 2)
    BY <2>3 DEF SkipOf
  <2>10. Len(t) = SentBytes(se)
    BY <2>6, <2>8, <2>9, Zenon DEF SentBytes
  <2> QED BY <2>1, <2>4, <2>6, <2>7, <2>10, Zenon
<1>3. S \in Seq(Seq(Nat)) /\ Len(S) = n /\ \A k \in 1..n : Len(S[k]) = SentBytes(es[k])
  <2>1. \A k \in 1..n : S[k] = SamplePacket(es[k])
    OBVIOUS
  <2>2. \A k \in 1..n : S[k] \in Seq(Nat)
    BY <1>2, <2>1, Zenon
  <2>3. S \in Seq(Seq(Nat)) /\ Len(S) = n
    BY <1>1, <2>2
  <2> QED BY <1>2, <2>1, <2>3, Zenon
<1>4. PICK f : f = FlattenSeq(S)
  OBVIOUS
<1>5. LaidOut(f, S, 0)
  <2>1. S # <<>>
    BY <1>1, <1>3
  <2> QED BY <1>3, <1>4, <2>1, FlatLaid, Zenon
<1>6. PICK at : Places(at, f, S, 0)
  BY <1>5 DEF LaidOut
<1>7. /\ \A k \in 1..(n + 1) : at[k] \in Nat
      /\ at[1] = 0 /\ at[n + 1] = Len(f)
      /\ \A k \in 1..n : at[k + 1] = at[k] + SentBytes(es[k])
  <2>1. Len(S) = n /\ \A k \in 1..n : Len(S[k]) = SentBytes(es[k])
    BY <1>3, Zenon
  <2>2. Places(at, f, S, 0)
    BY <1>6, Zenon
  <2>3. /\ \A k \in 1..(n + 1) : at[k] \in Nat
        /\ at[1] = 0 /\ at[n + 1] = Len(f)
    BY <1>1, <2>1, <2>2 DEF Places
  <2>4. \A k \in 1..n : at[k + 1] = at[k] + Len(S[k])
    BY <1>1, <2>1, <2>2 DEF Places
  <2>5. \A k \in 1..n : at[k + 1] = at[k] + SentBytes(es[k])
    BY <2>1, <2>4, Zenon
  <2> QED BY <2>3, <2>5, Zenon
<1>8. PICK u : u = SentUpTo(es)
  OBVIOUS
<1>9. u[0] = 0 /\ \A k \in 1..n : u[k] = u[k - 1] + SentBytes(es[k])
  <2>1. n \in Nat /\ n = Len(es) /\ \A k \in 1..n : es[k].size \in Nat
    BY <1>1, <1>2
  <2>2. /\ SentUpTo(es)[0] = 0
        /\ \A k \in 1..n : SentUpTo(es)[k] = SentUpTo(es)[k - 1] + SentBytes(es[k])
    BY <2>1, SentUpToIs
  <2> QED BY <1>8, <2>2, Zenon
<1> DEFINE P == {k \in Nat : k <= n => at[k + 1] = u[k]}
<1>10. 0 \in P
  <2>1. 0 + 1 = 1
    OBVIOUS
  <2> QED BY <1>7, <1>9, <2>1
<1>11. ASSUME NEW k \in Nat, k \in P PROVE k + 1 \in P
  <2> SUFFICES ASSUME k + 1 <= n PROVE at[(k + 1) + 1] = u[k + 1]
    OBVIOUS
  <2>1. PICK j \in 1..n : j = k + 1 /\ j - 1 = k
    BY <1>1
  <2>2. at[j] = u[j - 1]
    <3>1. k <= n
      BY <1>1, <2>1
    <3>2. at[k + 1] = u[k]
      BY <1>11, <3>1
    <3> HIDE DEF P
    <3> QED BY <2>1, <3>2, Zenon
  <2>3. at[j + 1] = at[j] + SentBytes(es[j]) /\ u[j] = u[j - 1] + SentBytes(es[j])
    BY <1>7, <1>9
  <2> HIDE DEF P
  <2> QED BY <2>1, <2>2, <2>3, Zenon
<1>12. \A k \in Nat : k \in P
  <2> HIDE DEF P
  <2> QED BY <1>10, <1>11, Induction
<1>13. at[n + 1] = u[n]
  BY <1>1, <1>12
<1> QED
  BY <1>3, <1>4, <1>5, <1>7, <1>8, <1>13, Zenon

(* A box with the packets p of codec data, then those of the samples. *)
LEMMA BoxFound ==
  ASSUME NEW es, NEW n, AllFit(es, n), NEW p, NEW H, NEW h, IsHeads(p, H, h, es[1].timestamp),
         NEW w \in Seq(Nat), Len(w) = 8,
         NEW b, b = w \o p \o FlattenSeq([k \in 1..Len(es) |-> SamplePacket(es[k])])
  PROVE  Found(b, h) /\ Len(b) = 8 + Len(p) + SentUpTo(es)[n]
<1>1. n \in Nat \ {0} /\ n = Len(es)
  BY DEF AllFit
<1>2. PICK S : S = [k \in 1..n |-> SamplePacket(es[k])]
  OBVIOUS
<1>3. PICK f : f = FlattenSeq(S)
  OBVIOUS
<1>4. LaidOut(f, S, 0) /\ Len(S) = n /\ Len(f) = SentUpTo(es)[n]
  <2>1. LaidOut(FlattenSeq(S), S, 0) /\ Len(S) = n /\ Len(FlattenSeq(S)) = SentUpTo(es)[n]
    BY <1>2, SamplesLaid
  <2> QED BY <1>3, <2>1, Zenon
<1>5. b = w \o p \o f
  BY <1>1, <1>2, <1>3, Zenon
<1>6. LaidOut(p, H, 0) /\ h \in Nat /\ Len(H) = h /\ \A k \in 1..h : HeaderPacket(H[k], es[1].timestamp)
  BY Zenon DEF IsHeads
<1>7. PICK v : v = w \o p
  OBVIOUS
<1>8. LaidOut(v, H, 8)
  <2>1. LaidOut(w, <<>>, Len(w))
    BY NoneLaid
  <2>2. LaidOut(w, <<>>, 8)
    BY <2>1
  <2>3. LaidOut(w \o p, <<>> \o H, 8)
    BY <1>6, <2>2, LaidConcat
  <2>4. H \in Seq(Seq(Nat))
    BY <1>6, Zenon DEF LaidOut
  <2>5. <<>> \o H = H
    BY <2>4, ConcatEmptySeq
  <2> QED BY <1>7, <2>3, <2>5
<1>9. PICK T : T = H \o S
  OBVIOUS
<1>10. LaidOut(b, T, 8)
  <2>1. LaidOut(v \o f, H \o S, 8)
    BY <1>4, <1>8, LaidConcat
  <2> QED BY <1>5, <1>7, <1>9, <2>1
<1>11. BoxOf(T, h, es, n)
  <2>1. H \in Seq(Seq(Nat)) /\ S \in Seq(Seq(Nat))
    BY <1>4, <1>6, Zenon DEF LaidOut
  <2>2. Joined(T, H, S, Seq(Nat))
    BY <1>9, <2>1, Concatenated, Zenon
  <2>3. Len(T) = h + n /\ (\A k \in 1..h : T[k] = H[k]) /\ \A k \in 1..n : T[h + k] = S[k]
    BY <1>4, <1>6, <2>2, Zenon DEF Joined
  <2>4. \A k \in 1..n : S[k] = SamplePacket(es[k])
    BY <1>2
  <2>5. \A k \in 1..h : HeaderPacket(T[k], es[1].timestamp)
    BY <1>6, <2>3, Zenon
  <2>6. \A k \in 1..n : T[h + k] = SamplePacket(es[k])
    BY <2>3, <2>4, Zenon
  <2> QED BY <1>6, <2>3, <2>5, <2>6, Zenon DEF BoxOf
<1>12. Found(b, h)
  BY <1>10, <1>11, FoundIn
<1>13. Len(b) = 8 + Len(p) + SentUpTo(es)[n]
  <2>1. p \in Seq(Nat) /\ f \in Seq(Nat) /\ v \in Seq(Nat)
    BY <1>4, <1>6, <1>8, Zenon DEF LaidOut
  <2>2. Joined(v, w, p, Nat) /\ Joined(b, v, f, Nat)
    BY <1>5, <1>7, <2>1, Concatenated, Zenon
  <2>3. Len(v) = Len(w) + Len(p) /\ Len(b) = Len(v) + Len(f)
    BY <2>2, Zenon DEF Joined
  <2> QED BY <1>4, <2>3, Zenon
<1> QED
  BY <1>12, <1>13

(* The packets of codec data in the file, and in the response. *)
LEMMA PrefixHeads ==
  ASSUME NEW ex, NEW m \in Nat, NEW n \in Nat, m = ex[TRUE], n = ex[FALSE],
         m + 5 < U24, n + 5 < U24, NEW ts \in Nat, ts < WORD
  PROVE  \E H : IsHeads(PrefixOf(ts, ex), H,
                        (IF ex[TRUE] > 0 THEN 1 ELSE 0) + (IF ex[FALSE] > 0 THEN 1 ELSE 0), ts)
<1>1. PICK v, a : v = CodecOf(TRUE, ex) /\ a = CodecOf(FALSE, ex)
  OBVIOUS
<1>2. v \in Seq(Nat) /\ Len(v) = m /\ a \in Seq(Nat) /\ Len(a) = n
  <2>1. ex[TRUE] \in Nat /\ ex[FALSE] \in Nat
    BY Zenon
  <2> QED BY <1>1, <2>1, CodecsAre, Zenon
<1>3. Len(v) + 5 < U24 /\ Len(a) + 5 < U24
  BY <1>2, Zenon
<1>4. PICK V, A : V = write_video_packet(TRUE, TRUE, 0, ts, v) /\ A = write_audio_packet(TRUE, ts, a)
  OBVIOUS
<1>5. HeaderPacket(V, ts) /\ HeaderPacket(A, ts)
  BY <1>2, <1>3, <1>4, VideoHead, AudioHead, Zenon
<1>6. PICK G, g : IsHeads(IF ex[TRUE] > 0 THEN V ELSE <<>>, G, g, ts) /\ g = IF ex[TRUE] > 0 THEN 1 ELSE 0
  <2>1. CASE ex[TRUE] > 0
    BY <1>5, <2>1, OneHead, Zenon
  <2>2. CASE ~(ex[TRUE] > 0)
    BY <2>2, NoHead, Zenon
  <2> QED BY <2>1, <2>2, Zenon
<1>7. PICK H, h : IsHeads(IF ex[FALSE] > 0 THEN A ELSE <<>>, H, h, ts) /\ h = IF ex[FALSE] > 0 THEN 1 ELSE 0
  <2>1. CASE ex[FALSE] > 0
    BY <1>5, <2>1, OneHead, Zenon
  <2>2. CASE ~(ex[FALSE] > 0)
    BY <2>2, NoHead, Zenon
  <2> QED BY <2>1, <2>2, Zenon
<1>8. IsHeads((IF ex[TRUE] > 0 THEN V ELSE <<>>) \o (IF ex[FALSE] > 0 THEN A ELSE <<>>), G \o H, g + h, ts)
  BY <1>6, <1>7, MoreHeads, Zenon
<1>9. PrefixOf(ts, ex) = (IF ex[TRUE] > 0 THEN V ELSE <<>>) \o (IF ex[FALSE] > 0 THEN A ELSE <<>>)
  BY <1>1, <1>4, Zenon DEF PrefixOf
<1> QED
  BY <1>6, <1>7, <1>8, <1>9, Zenon

HeadsSent(p, m, n, ts) == (\E H : IsHeads(p, H, 2, ts)) /\ Len(p) = 37 + m + n

LEMMA SentHeads ==
  ASSUME NEW ex, NEW m \in Nat, NEW n \in Nat, m = ex[TRUE], n = ex[FALSE],
         m + 5 < U24, n + 5 < U24, NEW ts \in Nat, ts < WORD
  PROVE  HeadsSent(SentPrefixOf(ts, ex), m, n, ts)
<1>1. PICK v, a : v = CodecOf(TRUE, ex) /\ a = CodecOf(FALSE, ex)
  OBVIOUS
<1>2. v \in Seq(Nat) /\ Len(v) = m /\ a \in Seq(Nat) /\ Len(a) = n
  <2>1. ex[TRUE] \in Nat /\ ex[FALSE] \in Nat
    BY Zenon
  <2> QED BY <1>1, <2>1, CodecsAre, Zenon
<1>3. Len(v) + 5 < U24 /\ Len(a) + 5 < U24
  BY <1>2, Zenon
<1>4. PICK V, A : V = write_video_packet(TRUE, TRUE, 0, ts, v) /\ A = write_audio_packet(TRUE, ts, a)
  OBVIOUS
<1>5. HeaderPacket(V, ts) /\ HeaderPacket(A, ts)
  BY <1>2, <1>3, <1>4, VideoHead, AudioHead, Zenon
<1>6. Len(V) = 20 + m /\ Len(A) = 17 + n
  BY <1>2, <1>3, <1>4, VideoHead, AudioHead, Zenon
<1>7. SentVideo(TRUE, TRUE, 0, ts, v) = V
  <2>1. PICK zero \in Nat : zero = 0
    BY ZeroIsNat, Zenon
  <2>2. PICK t : t = TRUE
    OBVIOUS
  <2>3. Len(v) \in Nat
    BY <1>2
  <2>4. SentVideo(t, t, zero, ts, v) = write_video_packet(t, t, zero, ts, v)
    BY <2>3, SameVideo
  <2> QED BY <1>4, <2>1, <2>2, <2>4, Zenon
<1>8. SentAudio(TRUE, ts, a) = A
  <2>1. Len(a) \in Nat
    BY <1>2
  <2> QED BY <1>4, <2>1, SameAudio, Zenon
<1>9. SentPrefixOf(ts, ex) = V \o A
  BY <1>1, <1>7, <1>8, Zenon DEF SentPrefixOf
<1>10. IsHeads(V \o A, <<V>> \o <<A>>, 2, ts)
  <2>1. IsHeads(V, <<V>>, 1, ts) /\ IsHeads(A, <<A>>, 1, ts)
    BY <1>5, OneHead, Zenon
  <2>2. PICK one : one = 1 /\ one + one = 2
    OBVIOUS
  <2>3. IsHeads(V \o A, <<V>> \o <<A>>, one + one, ts)
    BY <2>1, <2>2, MoreHeads, Zenon
  <2> QED BY <2>2, <2>3, Zenon
<1>11. Len(V \o A) = 37 + m + n
  <2>1. V \in Seq(Nat) /\ A \in Seq(Nat)
    <3>1. LaidOut(V, <<V>>, 0) /\ LaidOut(A, <<A>>, 0)
      BY <1>5, OneHead, Zenon DEF IsHeads
    <3> QED BY <3>1, Zenon DEF LaidOut
  <2>2. PICK k \in Nat, l \in Nat : k = m /\ l = n
    OBVIOUS
  <2>3. Len(V) = 20 + k /\ Len(A) = 17 + l
    BY <1>6, <2>2, Zenon
  <2>4. Len(V \o A) = Len(V) + Len(A)
    <3>1. Joined(V \o A, V, A, Nat)
      BY <2>1, Concatenated, Zenon
    <3> QED BY <3>1, Zenon DEF Joined
  <2>5. Len(V \o A) = 37 + k + l
    <3>1. PICK x \in Nat, y \in Nat : x = Len(V) /\ y = Len(A)
      BY <2>1
    <3>2. x = 20 + k /\ y = 17 + l
      BY <2>3, <3>1, Zenon
    <3>3. x + y = 37 + k + l
      BY <3>2
    <3> QED BY <2>4, <3>1, <3>3, Zenon
  <2> QED BY <2>2, <2>5, Zenon
<1> QED
  BY <1>9, <1>10, <1>11, Zenon DEF HeadsSent

-----------------------------------------------------------------------------
(* The header of the box. *)
LEMMA BoxHeader ==
  ASSUME NEW N \in Nat, NEW w, w = Write(N, 4) \o Letters(mdat)
  PROVE  w \in Seq(Nat) /\ Len(w) = 8 /\ \A i \in 1..4 : w[i] = (N \div Power[4 - i]) % BYTE
<1>1. PICK a : a = Write(N, 4)
  OBVIOUS
<1>2. a \in Seq(Nat) /\ Len(a) = 4 /\ \A i \in 1..4 : a[i] = (N \div Power[4 - i]) % BYTE
  <2>1. 4 \in 0..8
    OBVIOUS
  <2>2. /\ Write(N, 4) \in Seq(Nat) /\ Len(Write(N, 4)) = 4
        /\ \A i \in 1..4 : Write(N, 4)[i] = (N \div Power[4 - i]) % BYTE
    BY <2>1, Written
  <2> QED BY <1>1, <2>2, Zenon
<1>3. PICK l : l = Letters(mdat)
  OBVIOUS
<1>4. l \in Seq(Nat) /\ Len(l) = 4
  <2>1. l = [i \in 1..4 |-> 1]
    BY <1>3 DEF Letters, mdat
  <2> QED BY <2>1
<1>5. Joined(w, a, l, Nat)
  BY <1>1, <1>2, <1>3, <1>4, Concatenated, Zenon
<1>6. Len(w) = 8
  <2>1. Len(w) = Len(a) + Len(l)
    BY <1>5, Zenon DEF Joined
  <2> QED BY <1>2, <1>4, <2>1
<1>7. \A i \in 1..4 : w[i] = a[i]
  BY <1>2, <1>5, Zenon DEF Joined
<1>8. w \in Seq(Nat)
  BY <1>5, Zenon DEF Joined
<1> QED
  BY <1>2, <1>6, <1>7, <1>8, Zenon

(* Behind its header, whatever follows, the size can be read. *)
LEMMA BoxSize ==
  ASSUME NEW N \in Nat, NEW w, w = Write(N, 4) \o Letters(mdat),
         NEW p \in Seq(Nat), NEW f \in Seq(Nat), NEW b, b = w \o p \o f
  PROVE  Read(b, 1, 4) = N % WORD
<1>1. w \in Seq(Nat) /\ Len(w) = 8 /\ \A i \in 1..4 : w[i] = (N \div Power[4 - i]) % BYTE
  BY BoxHeader, Zenon
<1>2. PICK v : v = w \o p
  OBVIOUS
<1>3. Joined(v, w, p, Nat)
  BY <1>1, <1>2, Concatenated, Zenon
<1>4. v \in Seq(Nat) /\ Len(v) = Len(w) + Len(p) /\ \A i \in 1..Len(w) : v[i] = w[i]
  BY <1>3, Zenon DEF Joined
<1>5. Joined(b, v, f, Nat)
  BY <1>2, <1>4, Concatenated, Zenon
<1>6. \A i \in 1..Len(v) : b[i] = v[i]
  BY <1>5, Zenon DEF Joined
<1>7. ASSUME NEW i \in 1..4 PROVE b[i] = (N \div Power[4 - i]) % BYTE
  <2>1. i \in 1..Len(w) /\ i \in 1..Len(v)
    <3>1. PICK m \in Nat : m = Len(p)
      OBVIOUS
    <3>2. Len(v) = 8 + m
      BY <1>1, <1>4, <3>1
    <3> QED BY <1>1, <3>2, SMTT(60)
  <2>2. b[i] = w[i]
    BY <1>4, <1>6, <2>1, Zenon
  <2> QED BY <1>1, <2>2, Zenon
<1> QED
  BY <1>7, HeadRead

(* What the invariant says of a fragment whose samples all fit. *)
LEMMA FragmentFits ==
  ASSUME BInv, pc = "done", \A k \in 1..Len(fragment) : Fits(fragment[k])
  PROVE  /\ AllFit(entries, Len(entries))
         /\ entries[1].timestamp \in Nat /\ entries[1].timestamp < WORD
         /\ totalsize \in Nat /\ totalsize = SentUpTo(entries)[Len(entries)]
         /\ Total(totalsize, extra) \in Nat
<1>1. Inputs /\ Entries /\ Counted
  BY Zenon DEF BInv
<1>2. PICK n \in Nat \ {0} : n = Len(fragment)
  BY <1>1, InputsAre
<1>3. n = Len(entries) /\ \A k \in 1..n : Packed(entries[k], fragment[k])
  BY <1>1, <1>2 DEF Entries
<1>4. \A k \in 1..n : IsSample(fragment[k])
  BY <1>1, <1>2, InputsAre, Zenon
<1>5. AllFit(entries, n)
  BY <1>2, <1>3, <1>4, Zenon DEF AllFit
<1>6. entries[1].timestamp \in Nat /\ entries[1].timestamp < WORD
  <2>1. 1 \in 1..n
    BY <1>2
  <2>2. EntryOK(entries[1])
    BY <1>3, <2>1, ZenonT(60) DEF Packed
  <2> QED BY <2>2, Widths DEF EntryOK
<1>7. totalsize \in Nat /\ Total(totalsize, extra) \in Nat
  BY <1>1, CountedIs, Zenon
<1> QED
  BY <1>1, <1>3, <1>5, <1>6, <1>7, Zenon DEF Counted

LEMMA PlayerFinds ==
  ASSUME BInv
  PROVE  PlayerReads
<1> SUFFICES ASSUME pc = "done", \A k \in 1..Len(fragment) : Fits(fragment[k]),
                    \A v \in BOOLEAN : extra[v] + 5 < U24
             PROVE  /\ Found(file, (IF extra[TRUE] > 0 THEN 1 ELSE 0) + (IF extra[FALSE] > 0 THEN 1 ELSE 0))
                    /\ AllPlaced(fragment) =>
                         Found(response, 2) /\ (Len(response) < WORD => Read(response, 1, 4) = Len(response))
  BY Zenon DEF PlayerReads, AllPlaced
<1>1. PICK t, n, N, ts : t = totalsize /\ n = Len(entries) /\ N = Total(totalsize, extra)
                         /\ ts = entries[1].timestamp
  OBVIOUS
<1>2. /\ AllFit(entries, n) /\ ts \in Nat /\ ts < WORD
      /\ t \in Nat /\ t = SentUpTo(entries)[n] /\ N \in Nat
  BY <1>1, FragmentFits, Zenon
<1>3. PICK x, y : x = extra[TRUE] /\ y = extra[FALSE]
  OBVIOUS
<1>4. x \in Nat /\ y \in Nat /\ x + 5 < U24 /\ y + 5 < U24
  <2>1. Inputs
    BY Zenon DEF BInv
  <2>2. TRUE \in BOOLEAN /\ FALSE \in BOOLEAN
    OBVIOUS
  <2> QED BY <1>3, <2>1, <2>2, InputsAre, Zenon
<1>5. PICK w : w = Write(N, 4) \o Letters(mdat)
  OBVIOUS
<1>6. w \in Seq(Nat) /\ Len(w) = 8
  BY <1>2, <1>5, BoxHeader, Zenon
<1>7. PICK S : S = [k \in 1..Len(entries) |-> SamplePacket(entries[k])]
  OBVIOUS
<1>8. file = w \o PrefixOf(ts, extra) \o FlattenSeq(S)
  <2>1. file = FileOf(totalsize, entries, extra)
    BY DEF BInv
  <2> QED BY <1>1, <1>5, <1>7, <2>1, Zenon DEF FileOf
<1>9. Found(file, (IF extra[TRUE] > 0 THEN 1 ELSE 0) + (IF extra[FALSE] > 0 THEN 1 ELSE 0))
  <2>1. PICK p : p = PrefixOf(ts, extra)
    OBVIOUS
  <2>2. PICK h : h = (IF extra[TRUE] > 0 THEN 1 ELSE 0) + (IF extra[FALSE] > 0 THEN 1 ELSE 0)
    OBVIOUS
  <2>3. PICK H : IsHeads(p, H, h, ts)
    BY <1>2, <1>3, <1>4, <2>1, <2>2, PrefixHeads, Zenon
  <2>4. IsHeads(p, H, h, entries[1].timestamp)
    BY <1>1, <2>3, Zenon
  <2>5. file = w \o p \o FlattenSeq([k \in 1..Len(entries) |-> SamplePacket(entries[k])])
    BY <1>7, <1>8, <2>1, Zenon
  <2>6. Found(file, h)
    BY <1>2, <1>6, <2>4, <2>5, BoxFound, Zenon
  <2> QED BY <2>2, <2>6, Zenon
<1>10. ASSUME AllPlaced(fragment)
       PROVE  Found(response, 2) /\ (Len(response) < WORD => Read(response, 1, 4) = Len(response))
  <2>1. PICK p : p = SentPrefixOf(ts, extra)
    OBVIOUS
  <2>2. response = w \o p \o FlattenSeq([k \in 1..Len(entries) |-> SamplePacket(entries[k])])
    <3>1. response = ResponseOf(totalsize, entries, extra)
      BY <1>10 DEF BInv
    <3> QED BY <1>1, <1>5, <2>1, <3>1, Zenon DEF ResponseOf
  <2>3. HeadsSent(p, x, y, ts)
    <3>1. x \in Nat /\ y \in Nat /\ ts \in Nat /\ ts < WORD
      BY <1>2, <1>4
    <3>2. HeadsSent(SentPrefixOf(ts, extra), x, y, ts)
      BY <1>3, <1>4, <3>1, SentHeads, Zenon
    <3> QED BY <2>1, <3>2, Zenon
  <2>4. PICK H : IsHeads(p, H, 2, ts)
    BY <2>3, Zenon DEF HeadsSent
  <2>5. IsHeads(p, H, 2, entries[1].timestamp)
    BY <1>1, <2>4, Zenon
  <2>6. Found(response, 2) /\ Len(response) = 8 + Len(p) + SentUpTo(entries)[n]
    BY <1>2, <1>6, <2>2, <2>5, BoxFound, Zenon
  <2>7. Len(response) = N
    <3>1. N = t + 8 + 20 + x + 17 + y
      BY <1>1, <1>3, Zenon DEF Total
    <3>2. Len(response) = 8 + (37 + x + y) + t
      BY <1>2, <2>3, <2>6, Zenon DEF HeadsSent
    <3>3. t + 8 + 20 + x + 17 + y = 8 + (37 + x + y) + t
      BY <1>2, <1>4
    <3> QED BY <3>1, <3>2, <3>3, Zenon
  <2>8. Read(response, 1, 4) = N % WORD
    <3>1. p \in Seq(Nat)
      BY <2>4, Zenon DEF IsHeads, LaidOut
    <3>2. PICK f : f = FlattenSeq([k \in 1..Len(entries) |-> SamplePacket(entries[k])])
      OBVIOUS
    <3>3. f \in Seq(Nat)
      <4>1. AllFit(entries, n) /\ n = Len(entries)
        BY <1>1, <1>2
      <4>2. PICK T : T = [k \in 1..n |-> SamplePacket(entries[k])]
        OBVIOUS
      <4>3. LaidOut(FlattenSeq(T), T, 0)
        BY <4>1, <4>2, SamplesLaid
      <4>4. f = FlattenSeq(T)
        BY <3>2, <4>1, <4>2, Zenon
      <4> QED BY <4>3, <4>4, Zenon DEF LaidOut
    <3>4. response = w \o p \o f
      BY <2>2, <3>2, Zenon
    <3>5. N \in Nat
      BY <1>2
    <3> QED BY <1>5, <3>1, <3>3, <3>4, <3>5, BoxSize, ZenonT(60)
  <2>9. Len(response) < WORD => Read(response, 1, 4) = Len(response)
    <3>1. N < WORD => N % WORD = N
      BY <1>2, SmallRemainder, Widths
    <3> QED BY <2>7, <2>8, <3>1, Zenon
  <2> QED BY <2>6, <2>9
<1> QED
  BY <1>9, <1>10, Zenon

(* On both ways a player that reads the FLV tags finds each sample with its *)
(* data, key frame flag, composition offset and time, and nothing after the *)
(* last one, for any samples that an FLV tag can tell and any width of a    *)
(* byte.                                                                    *)
THEOREM PlayerReadsHolds == Spec => []PlayerReads
BY Invariance, PlayerFinds, PTL

-----------------------------------------------------------------------------
(* From here on: the bootstrap information. *)
LEMMA Parts ==
  ASSUME NEW a \in Nat, NEW n \in Nat \ {0}
  PROVE  \E p \in Nat, r \in 0..(n - 1) : p = a \div n /\ r = a % n /\ a = n * p + r
<1>1. a \in Int
  OBVIOUS
<1>2. a % n \in 0..(n - 1) /\ a = n * (a \div n) + (a % n)
  BY <1>1, Division
<1>3. a \div n \in Nat
  BY QuotientIsNat
<1> QED
  BY <1>2, <1>3

(* The numbers that letters and bytes are. *)
Bases(q, l, B) ==
  /\ q \in Nat \ {0} /\ l \in Nat /\ B \in Nat
  /\ l = q * q * q /\ B = q * l

ThreeBytes(B, a, b, c) == a \in 0..(B - 1) /\ b \in 0..(B - 1) /\ c \in 0..(B - 1)

FourLetters(q, l, B, a, b, c) ==
  /\ a \div q \in 0..(l - 1)
  /\ (a % q) * (q * q) + b \div (q * q) \in 0..(l - 1)
  /\ (b % (q * q)) * q + c \div l \in 0..(l - 1)
  /\ c % l \in 0..(l - 1)
  /\ (((a \div q) * l + ((a % q) * (q * q) + b \div (q * q))) * l
        + ((b % (q * q)) * q + c \div l)) * l + (c % l) = (a * B + b) * B + c

(* Four letters of six bits are three bytes of eight. *)
LEMMA TripleNumber ==
  ASSUME NEW q, NEW l, NEW B, Bases(q, l, B), NEW a, NEW b, NEW c, ThreeBytes(B, a, b, c)
  PROVE  FourLetters(q, l, B, a, b, c)
<1>0. q \in Nat \ {0} /\ l \in Nat /\ B \in Nat /\ l = q * q * q /\ B = q * l
  BY DEF Bases
<1> a \in 0..(B - 1) /\ b \in 0..(B - 1) /\ c \in 0..(B - 1)
  BY DEF ThreeBytes
<1> q \in Nat \ {0} /\ l \in Nat /\ B \in Nat
  BY <1>0
<1>1. PICK s \in Nat \ {0} : s = q * q
  <2>1. q * q \in Nat \ {0}
    OBVIOUS
  <2> QED BY <2>1
<1>2. l = q * s /\ l = s * q /\ B = s * s /\ B = q * l /\ B = l * q
  <2>1. l = q * s /\ l = s * q
    BY <1>0, <1>1
  <2>2. q * (q * s) = (q * q) * s
    OBVIOUS
  <2> QED BY <1>0, <1>1, <2>1, <2>2
<1>3. l \in Nat \ {0} /\ B \in Nat \ {0}
  BY <1>2
<1>4. PICK a1 \in Nat, a0 \in 0..(q - 1) : a1 = a \div q /\ a0 = a % q /\ a = q * a1 + a0
  <2>1. a \in Nat /\ q \in Nat \ {0}
    BY <1>3
  <2> QED BY <2>1, Parts, Zenon
<1>5. PICK b1 \in Nat, b0 \in 0..(s - 1) : b1 = b \div s /\ b0 = b % s /\ b = s * b1 + b0
  <2>1. b \in Nat /\ s \in Nat \ {0}
    BY <1>3
  <2> QED BY <2>1, Parts, Zenon
<1>6. PICK c1 \in Nat, c0 \in 0..(l - 1) : c1 = c \div l /\ c0 = c % l /\ c = l * c1 + c0
  <2>1. c \in Nat /\ l \in Nat \ {0}
    BY <1>3
  <2> QED BY <2>1, Parts, Zenon
<1>7. a1 < l
  <2> SUFFICES ASSUME a1 >= l PROVE FALSE
    BY <1>3
  <2>1. q * a1 >= q * l
    OBVIOUS
  <2> QED BY <1>2, <1>4, <2>1
<1>8. b1 < s
  <2> SUFFICES ASSUME b1 >= s PROVE FALSE
    OBVIOUS
  <2>1. s * b1 >= s * s
    OBVIOUS
  <2> QED BY <1>2, <1>5, <2>1
<1>9. c1 < q
  <2> SUFFICES ASSUME c1 >= q PROVE FALSE
    OBVIOUS
  <2>1. l * c1 >= l * q
    BY <1>3
  <2> QED BY <1>2, <1>6, <2>1
<1>10. a0 * s + b1 \in 0..(l - 1)
  <2>1. a0 * s <= (q - 1) * s
    OBVIOUS
  <2>2. (q - 1) * s = q * s - s
    OBVIOUS
  <2>3. a0 * s \in Nat
    OBVIOUS
  <2> QED BY <1>2, <1>8, <2>1, <2>2, <2>3
<1>11. b0 * q + c1 \in 0..(l - 1)
  <2>1. b0 * q <= (s - 1) * q
    OBVIOUS
  <2>2. (s - 1) * q = s * q - q
    OBVIOUS
  <2>3. b0 * q \in Nat
    OBVIOUS
  <2> QED BY <1>2, <1>9, <2>1, <2>2, <2>3
<1>12. a1 * l + (a0 * s + b1) = s * a + b1
  <2>1. a1 * l = s * (q * a1)
    <3>1. a1 * (s * q) = s * (q * a1)
      OBVIOUS
    <3> QED BY <1>2, <3>1
  <2>2. s * a = s * (q * a1) + s * a0
    BY <1>4
  <2>3. s * a0 = a0 * s
    OBVIOUS
  <2> QED BY <2>1, <2>2, <2>3
<1>13. (s * a + b1) * l + (b0 * q + c1) = q * (a * B + b) + c1
  <2>1. (s * a + b1) * l = (s * a) * l + b1 * l
    OBVIOUS
  <2>2. (s * a) * l = q * (a * B)
    <3>1. (s * a) * (s * q) = q * (a * (s * s))
      OBVIOUS
    <3> QED BY <1>2, <3>1
  <2>3. b1 * l = q * (s * b1)
    <3>1. b1 * (q * s) = q * (s * b1)
      OBVIOUS
    <3> QED BY <1>2, <3>1
  <2>4. q * b = q * (s * b1) + b0 * q
    BY <1>5
  <2>5. q * (a * B + b) = q * (a * B) + q * b
    OBVIOUS
  <2>6. PICK u \in Int, v \in Int, w \in Int : u = q * (a * B) /\ v = q * (s * b1) /\ w = b0 * q
    OBVIOUS
  <2>7. (s * a + b1) * l = u + v /\ q * (a * B + b) = u + (v + w)
    BY <2>1, <2>2, <2>3, <2>4, <2>5, <2>6
  <2> QED BY <2>6, <2>7
<1>14. (q * (a * B + b) + c1) * l + c0 = (a * B + b) * B + c
  <2>1. PICK x \in Nat : x = a * B + b
    <3>1. a * B \in Nat
      OBVIOUS
    <3> QED BY <3>1
  <2>2. (q * x + c1) * l = (q * x) * l + c1 * l
    OBVIOUS
  <2>3. (q * x) * l = x * B
    <3>1. (q * x) * l = x * (q * l)
      OBVIOUS
    <3> QED BY <1>2, <3>1
  <2>4. c1 * l = l * c1
    OBVIOUS
  <2>5. (q * x + c1) * l + c0 = x * B + c
    BY <1>6, <2>2, <2>3, <2>4
  <2> QED BY <2>1, <2>5
<1> QED
  <2> DEFINE L2 == (a % q) * (q * q) + b \div (q * q)
             L3 == (b % (q * q)) * q + c \div l
  <2>0. a \div q = a1 /\ c % l = c0
    BY <1>4, <1>6, Zenon
  <2>1. L2 = a0 * s + b1 /\ L3 = b0 * q + c1
    BY <1>1, <1>4, <1>5, <1>6, Zenon
  <2> HIDE DEF L2, L3
  <2>2. ((a1 * l + (a0 * s + b1)) * l + (b0 * q + c1)) * l + c0 = (a * B + b) * B + c
    BY <1>12, <1>13, <1>14, Zenon
  <2>3. a1 \in 0..(l - 1)
    BY <1>7
  <2>4. c0 \in 0..(l - 1)
    OBVIOUS
  <2>5. a \div q \in 0..(l - 1) /\ c % l \in 0..(l - 1)
    BY <2>0, <2>3, <2>4, Zenon
  <2>6. L2 \in 0..(l - 1) /\ L3 \in 0..(l - 1)
    BY <1>10, <1>11, <2>1, Zenon
  <2>7. (((a \div q) * l + L2) * l + L3) * l + (c % l) = (a * B + b) * B + c
    BY <2>0, <2>1, <2>2, Zenon
  <2> QED BY <2>5, <2>6, <2>7, Zenon DEF L2, L3, FourLetters

(* The bytes of a number of three. *)
BytesOf(x, B, a, b, c) ==
  x % B = c /\ (x \div B) % B = b /\ (x \div (B * B)) % B = a

LEMMA NumberBytes ==
  ASSUME NEW B \in Nat \ {0}, NEW a, NEW b, NEW c, ThreeBytes(B, a, b, c),
         NEW x, x = (a * B + b) * B + c
  PROVE  BytesOf(x, B, a, b, c)
<1> a \in 0..(B - 1) /\ b \in 0..(B - 1) /\ c \in 0..(B - 1)
  BY DEF ThreeBytes
<1>1. PICK y \in Nat : y = a * B + b
  <2>1. a * B \in Nat
    OBVIOUS
  <2> QED BY <2>1
<1>2. x = B * y + c /\ x \in Int
  <2>1. y * B = B * y /\ B * y \in Nat
    OBVIOUS
  <2> QED BY <1>1, <2>1
<1>3. x \div B = y /\ x % B = c
  <2>1. c \in 0..(B - 1) /\ y \in Int
    OBVIOUS
  <2> QED BY <1>2, <2>1, DivisionIs, Zenon
<1>4. y = B * a + b /\ y \in Int /\ a \in Int
  <2>1. a * B = B * a
    OBVIOUS
  <2> QED BY <1>1, <2>1
<1>5. y \div B = a /\ y % B = b
  BY <1>4, DivisionIs
<1>6. x \div (B * B) = a
  <2>1. x \in Nat
    <3>1. B * y \in Nat
      OBVIOUS
    <3> QED BY <1>2, <3>1
  <2>2. x \div (B * B) = (x \div B) \div B
    BY <2>1, DivisionByProduct
  <2> QED BY <1>3, <1>5, <2>2
<1>7. a % B = a
  BY SmallRemainder
<1> QED
  BY <1>3, <1>5, <1>6, <1>7 DEF BytesOf

Bytes == 0..(BYTE - 1)
Below == 0..(LETTER - 1)

LEMMA LettersAre ==
  /\ QUARTER \in Nat \ {0} /\ LETTER \in Nat \ {0} /\ BYTE \in Nat \ {0}
  /\ LETTER = QUARTER * QUARTER * QUARTER /\ BYTE = QUARTER * LETTER
<1>1. PICK q \in Nat \ {0} : q = QUARTER
  BY QuarterAssumption
<1>2. q * q * q \in Nat \ {0}
  <2>1. PICK s \in Nat \ {0} : s = q * q
    <3>1. q * q \in Nat \ {0}
      OBVIOUS
    <3> QED BY <3>1
  <2>2. s * q \in Nat \ {0}
    OBVIOUS
  <2> QED BY <2>1, <2>2
<1>3. LETTER = q * q * q
  BY <1>1, Zenon DEF LETTER
<1>4. BYTE \in Nat \ {0}
  BY ByteIs
<1>5. BYTE = QUARTER * LETTER
  BY QuarterAssumption
<1> QED
  BY <1>1, <1>2, <1>3, <1>4, <1>5, Zenon

Four(w, x, y, z) == ((w * LETTER + x) * LETTER + y) * LETTER + z
Triple(a, b, c) == (a * BYTE + b) * BYTE + c

LEMMA TripleSpelled ==
  ASSUME NEW a \in Bytes, NEW b \in Bytes, NEW c \in Bytes
  PROVE  /\ High6(a) \in Below /\ Low2(a) + High4(b) \in Below
         /\ Low4(b) + High2(c) \in Below /\ Low6(c) \in Below
         /\ Four(High6(a), Low2(a) + High4(b), Low4(b) + High2(c), Low6(c)) = Triple(a, b, c)
<1>1. PICK q, l, B : q = QUARTER /\ l = LETTER /\ B = BYTE
  OBVIOUS
<1>2. q \in Nat \ {0} /\ l \in Nat /\ B \in Nat
  BY <1>1, LettersAre
<1>3. Bases(q, l, B)
  BY <1>1, <1>2, LettersAre, Zenon DEF Bases
<1>4. ThreeBytes(B, a, b, c)
  BY <1>1 DEF Bytes, ThreeBytes
<1>5. FourLetters(q, l, B, a, b, c)
  BY <1>3, <1>4, TripleNumber, Zenon
<1>6. /\ High6(a) = a \div q /\ Low2(a) = (a % q) * (q * q) /\ High4(b) = b \div (q * q)
      /\ Low4(b) = (b % (q * q)) * q /\ High2(c) = c \div l /\ Low6(c) = c % l
  BY <1>1, Zenon DEF High6, Low2, High4, Low4, High2, Low6
<1>7. Below = 0..(l - 1)
  BY <1>1 DEF Below
<1>8. Four(High6(a), Low2(a) + High4(b), Low4(b) + High2(c), Low6(c)) = Triple(a, b, c)
  BY <1>1, <1>5, <1>6, Zenon DEF Four, Triple, FourLetters
<1> QED
  BY <1>5, <1>6, <1>7, <1>8, Zenon DEF FourLetters

(* The number that four letters make, and the bytes that are there or 0. *)
NumberAt(t, p) ==
  Four(t[p + 1] % LETTER, t[p + 2] % LETTER, t[p + 3] % LETTER, t[p + 4] % LETTER)

ByteOr0(b, i) == IF i \in 1..Len(b) THEN b[i] ELSE 0

TripleAt(b, p) == Triple(ByteOr0(b, p + 1), ByteOr0(b, p + 2), ByteOr0(b, p + 3))

(* Text t holds the first groups of three bytes of b. *)
Encoded(t, b, G) ==
  /\ t \in Seq(Nat) /\ G \in Nat /\ Len(t) = 4 * G
  /\ \A g \in 0..(G - 1) : NumberAt(t, 4 * g) = TripleAt(b, 3 * g)

LEMMA EncodeMore ==
  ASSUME NEW t, NEW b, NEW G, Encoded(t, b, G),
         NEW w \in Nat, NEW x \in Nat, NEW y \in Nat, NEW z \in Nat,
         Four(w % LETTER, x % LETTER, y % LETTER, z % LETTER) = TripleAt(b, 3 * G)
  PROVE  Encoded(t \o <<w, x, y, z>>, b, G + 1)
<1> DEFINE u == <<w, x, y, z>>
           r == t \o u
<1>1. u \in Seq(Nat) /\ Len(u) = 4 /\ u[1] = w /\ u[2] = x /\ u[3] = y /\ u[4] = z
  OBVIOUS
<1> HIDE DEF u
<1>2. t \in Seq(Nat) /\ G \in Nat /\ Len(t) = 4 * G
  BY DEF Encoded
<1>3. Joined(r, t, u, Nat)
  BY <1>1, <1>2, Concatenated
<1> HIDE DEF r
<1>4. r \in Seq(Nat) /\ Len(r) = 4 * (G + 1)
  BY <1>1, <1>2, <1>3 DEF Joined
<1>5. ASSUME NEW g \in 0..(G - 1) PROVE NumberAt(r, 4 * g) = TripleAt(b, 3 * g)
  <2>1. 4 * g + 1 \in 1..Len(t) /\ 4 * g + 2 \in 1..Len(t) /\ 4 * g + 3 \in 1..Len(t)
          /\ 4 * g + 4 \in 1..Len(t)
    BY <1>2
  <2>2. /\ r[4 * g + 1] = t[4 * g + 1] /\ r[4 * g + 2] = t[4 * g + 2]
        /\ r[4 * g + 3] = t[4 * g + 3] /\ r[4 * g + 4] = t[4 * g + 4]
    BY <1>3, <2>1, Zenon DEF Joined
  <2>3. NumberAt(r, 4 * g) = NumberAt(t, 4 * g)
    BY <2>2, Zenon DEF NumberAt
  <2>4. NumberAt(t, 4 * g) = TripleAt(b, 3 * g)
    BY DEF Encoded
  <2> QED BY <2>3, <2>4
<1>6. NumberAt(r, 4 * G) = TripleAt(b, 3 * G)
  <2>1. r[4 * G + 1] = w /\ r[4 * G + 2] = x /\ r[4 * G + 3] = y /\ r[4 * G + 4] = z
    BY <1>1, <1>2, <1>3 DEF Joined
  <2> QED BY <2>1, Zenon DEF NumberAt
<1>7. ASSUME NEW g \in 0..((G + 1) - 1) PROVE NumberAt(r, 4 * g) = TripleAt(b, 3 * g)
  <2>1. g \in 0..(G - 1) \/ g = G
    BY <1>2
  <2> QED BY <1>5, <1>6, <2>1, Zenon
<1>8. G + 1 \in Nat
  BY <1>2
<1>9. Encoded(r, b, G + 1)
  BY <1>4, <1>7, <1>8 DEF Encoded
<1> QED
  BY <1>9 DEF r, u

(* The bytes that a player decodes. *)
DecodedOf(t, d) ==
  [i \in 1..((Len(t) \div 4) * 3 - d) |->
     (NumberAt(t, 4 * ((i - 1) \div 3)) \div Power[2 - ((i - 1) % 3)]) % BYTE]

LEMMA Decodes ==
  ASSUME NEW b \in Seq(Bytes), NEW t, NEW G, Encoded(t, b, G), NEW d \in 0..2, 3 * G - d = Len(b)
  PROVE  DecodedOf(t, d) = b
<1>1. G \in Nat /\ Len(t) = 4 * G
  BY DEF Encoded
<1>2. (Len(t) \div 4) * 3 - d = Len(b)
  BY <1>1
<1>3. PICK n \in Nat : n = Len(b)
  OBVIOUS
<1>4. ASSUME NEW i \in 1..n
      PROVE  (NumberAt(t, 4 * ((i - 1) \div 3)) \div Power[2 - ((i - 1) % 3)]) % BYTE = b[i]
  <2>1. PICK g \in Nat, r \in 0..2 : g = (i - 1) \div 3 /\ r = (i - 1) % 3 /\ i = 3 * g + r + 1
    OBVIOUS
  <2>2. g \in 0..(G - 1)
    BY <1>1, <1>3, <2>1
  <2>3. NumberAt(t, 4 * g) = TripleAt(b, 3 * g)
    BY <2>2 DEF Encoded
  <2>4. \A k \in 1..3 : ByteOr0(b, 3 * g + k) \in Bytes
    <3>1. 0 \in Bytes
      BY ByteIs DEF Bytes
    <3> QED BY <3>1, ElementOf DEF ByteOr0
  <2>5. PICK u \in Bytes, v \in Bytes, w \in Bytes :
          u = ByteOr0(b, 3 * g + 1) /\ v = ByteOr0(b, 3 * g + 2) /\ w = ByteOr0(b, 3 * g + 3)
    BY <2>4
  <2>6. PICK x : x = NumberAt(t, 4 * g)
    OBVIOUS
  <2>7. x = (u * BYTE + v) * BYTE + w
    BY <2>3, <2>5, <2>6, Zenon DEF TripleAt, Triple
  <2>8. x % BYTE = w /\ (x \div BYTE) % BYTE = v /\ (x \div (BYTE * BYTE)) % BYTE = u
    <3>1. PICK B \in Nat \ {0} : B = BYTE
      BY ByteIs
    <3>2. ThreeBytes(B, u, v, w)
      BY <3>1 DEF Bytes, ThreeBytes
    <3>3. x = (u * B + v) * B + w
      BY <2>7, <3>1, Zenon
    <3>4. BytesOf(x, B, u, v, w)
      BY <3>2, <3>3, NumberBytes, Zenon
    <3> QED BY <3>1, <3>4, Zenon DEF BytesOf
  <2>9. b[i] = ByteOr0(b, 3 * g + (r + 1))
    BY <1>3, <2>1 DEF ByteOr0
  <2>10. x \in Int
    <3>1. BYTE \in Nat /\ u \in Nat /\ v \in Nat /\ w \in Nat
      BY ByteIs DEF Bytes
    <3>2. PICK y \in Nat : y = u * BYTE + v
      BY <3>1
    <3> QED BY <2>7, <3>1, <3>2
  <2>11. Power[0] = 1 /\ Power[1] = BYTE /\ Power[2] = BYTE * BYTE
    <3>1. Power[0] = 1 /\ Power[1] = BYTE * Power[0] /\ Power[2] = BYTE * Power[1] /\ BYTE \in Nat
      BY Powers, ByteIs
    <3>2. BYTE * 1 = BYTE
      BY <3>1
    <3> QED BY <3>1, <3>2, Zenon
  <2>12. (x \div Power[2 - r]) % BYTE = b[i]
    <3>1. CASE r = 0
      <4>1. 2 - r = 2 /\ 3 * g + (r + 1) = 3 * g + 1
        BY <3>1
      <4> QED BY <2>5, <2>8, <2>9, <2>11, <4>1, Zenon
    <3>2. CASE r = 1
      <4>1. 2 - r = 1 /\ 3 * g + (r + 1) = 3 * g + 2
        BY <3>2
      <4> QED BY <2>5, <2>8, <2>9, <2>11, <4>1, Zenon
    <3>3. CASE r = 2
      <4>1. 2 - r = 0 /\ 3 * g + (r + 1) = 3 * g + 3
        BY <3>3
      <4>2. x \div 1 = x
        BY <2>10
      <4> QED BY <2>5, <2>8, <2>9, <2>11, <4>1, <4>2, Zenon
    <3> QED BY <3>1, <3>2, <3>3
  <2> QED BY <2>1, <2>6, <2>12, Zenon
<1>5. DecodedOf(t, d) = [i \in 1..n |-> b[i]]
  <2>1. DecodedOf(t, d) = [i \in 1..n |->
          (NumberAt(t, 4 * ((i - 1) \div 3)) \div Power[2 - ((i - 1) % 3)]) % BYTE]
    BY <1>2, <1>3, Zenon DEF DecodedOf
  <2> QED BY <1>4, <2>1
<1>6. b = [i \in 1..n |-> b[i]]
  BY <1>3
<1> QED
  BY <1>5, <1>6

PaddingOf(t) ==
  LET n == Len(t) IN
  IF n = 0 THEN 0 ELSE (IF t[n] = PAD THEN 1 ELSE 0) + (IF t[n - 1] = PAD THEN 1 ELSE 0)

(* While triples are encoded no letter is a padding; at the end the padding *)
(* tells how many bytes the last group has too much.                        *)
Encoding(t, b, p) ==
  /\ b \in Seq(Bytes) /\ p \in Nat /\ p <= Len(b)
  /\ \E G : Encoded(t, b, G) /\ p = 3 * G
  /\ \A i \in 1..Len(t) : t[i] \in Below

Ended(t, b) ==
  /\ b \in Seq(Bytes)
  /\ \E G, d : d \in 0..2 /\ Encoded(t, b, G) /\ 3 * G - d = Len(b) /\ PaddingOf(t) = d

LEMMA LettersInRange ==
  /\ Below \subseteq Nat /\ 0 \in Below /\ PAD \in Nat /\ PAD % LETTER = 0 /\ PAD \notin Below
  /\ \A x \in Below : x % LETTER = x
<1>1. PICK l \in Nat \ {0} : l = LETTER
  BY LettersAre
<1>2. l % l = 0
  <2>1. l \in Int /\ 1 \in Int /\ 0 \in 0..(l - 1) /\ l = l * 1 + 0
    OBVIOUS
  <2> QED BY <2>1, DivisionIs, Zenon
<1>3. \A x \in 0..(l - 1) : x % l = x
  BY SmallRemainder
<1> QED
  BY <1>1, <1>2, <1>3 DEF Below, PAD

FourAdded(r, t, w, x, y, z) ==
  /\ PaddingOf(r) = (IF z = PAD THEN 1 ELSE 0) + (IF y = PAD THEN 1 ELSE 0)
  /\ \A i \in 1..Len(r) : r[i] \in {w, x, y, z} \/ (i \in 1..Len(t) /\ r[i] = t[i])

LEMMA FourMore ==
  ASSUME NEW t \in Seq(Nat), NEW w \in Nat, NEW x \in Nat, NEW y \in Nat, NEW z \in Nat
  PROVE  FourAdded(t \o <<w, x, y, z>>, t, w, x, y, z)
<1> DEFINE u == <<w, x, y, z>>
           r == t \o u
<1>1. u \in Seq(Nat) /\ Len(u) = 4 /\ u[1] = w /\ u[2] = x /\ u[3] = y /\ u[4] = z
  OBVIOUS
<1> HIDE DEF u
<1>2. Joined(r, t, u, Nat)
  BY <1>1, Concatenated
<1> HIDE DEF r
<1>3. PICK n \in Nat : n = Len(t)
  OBVIOUS
<1>4. Len(r) = n + 4 /\ r[n + 1] = w /\ r[n + 2] = x /\ r[n + 3] = y /\ r[n + 4] = z
  BY <1>1, <1>2, <1>3 DEF Joined
<1>5. \A i \in 1..n : r[i] = t[i]
  BY <1>2, <1>3 DEF Joined
<1>6. PaddingOf(r) = (IF z = PAD THEN 1 ELSE 0) + (IF y = PAD THEN 1 ELSE 0)
  <2>1. Len(r) # 0 /\ Len(r) - 1 = n + 3
    BY <1>4
  <2> QED BY <1>4, <2>1, Zenon DEF PaddingOf
<1>7. ASSUME NEW i \in 1..Len(r) PROVE r[i] \in {w, x, y, z} \/ (i \in 1..Len(t) /\ r[i] = t[i])
  <2>1. i \in 1..n \/ i = n + 1 \/ i = n + 2 \/ i = n + 3 \/ i = n + 4
    BY <1>4
  <2>2. CASE i \in 1..n
    BY <1>3, <1>5, <2>2, Zenon
  <2>3. ASSUME i = n + 1 \/ i = n + 2 \/ i = n + 3 \/ i = n + 4
        PROVE  r[i] \in {w, x, y, z}
    <3>1. r[i] = w \/ r[i] = x \/ r[i] = y \/ r[i] = z
      BY <1>4, <2>3
    <3> QED BY <3>1, Zenon
  <2> QED BY <2>1, <2>2, <2>3, Zenon
<1>8. FourAdded(r, t, w, x, y, z)
  BY <1>6, <1>7, Zenon DEF FourAdded
<1> QED
  BY <1>8, Zenon DEF r, u

LEMMA ByteOr0Is ==
  ASSUME NEW b \in Seq(Bytes), NEW i \in Nat \ {0}
  PROVE  /\ ByteOr0(b, i) \in Bytes
         /\ i <= Len(b) => ByteOr0(b, i) = b[i]
         /\ i > Len(b) => ByteOr0(b, i) = 0
<1>1. 0 \in Bytes
  BY ByteIs DEF Bytes
<1> QED
  BY <1>1, ElementOf DEF ByteOr0

LEMMA TripleStep ==
  ASSUME NEW t, NEW b, NEW p, Encoding(t, b, p), Len(b) - p >= 3
  PROVE  Encoding(t \o <<High6(b[p + 1]), Low2(b[p + 1]) + High4(b[p + 2]),
                         Low4(b[p + 2]) + High2(b[p + 3]), Low6(b[p + 3])>>, b, p + 3)
<1>1. b \in Seq(Bytes) /\ p \in Nat /\ Len(b) \in Nat
  BY DEF Encoding
<1>2. PICK G : Encoded(t, b, G) /\ p = 3 * G
  BY DEF Encoding
<1>3. PICK u \in Bytes, v \in Bytes, c \in Bytes : u = b[p + 1] /\ v = b[p + 2] /\ c = b[p + 3]
  BY <1>1, ElementOf
<1>4. ByteOr0(b, 3 * G + 1) = u /\ ByteOr0(b, 3 * G + 2) = v /\ ByteOr0(b, 3 * G + 3) = c
  <2>1. p + 1 \in 1..Len(b) /\ p + 2 \in 1..Len(b) /\ p + 3 \in 1..Len(b)
    BY <1>1
  <2> QED BY <1>2, <1>3, <2>1, Zenon DEF ByteOr0
<1>5. PICK w \in Below, x \in Below, y \in Below, z \in Below :
        /\ w = High6(u) /\ x = Low2(u) + High4(v) /\ y = Low4(v) + High2(c) /\ z = Low6(c)
        /\ Four(w, x, y, z) = Triple(u, v, c)
  <2>1. /\ High6(u) \in Below /\ Low2(u) + High4(v) \in Below
        /\ Low4(v) + High2(c) \in Below /\ Low6(c) \in Below
        /\ Four(High6(u), Low2(u) + High4(v), Low4(v) + High2(c), Low6(c)) = Triple(u, v, c)
    BY TripleSpelled, Zenon
  <2> QED BY <2>1, Zenon
<1>6. /\ w \in Nat /\ x \in Nat /\ y \in Nat /\ z \in Nat
      /\ w % LETTER = w /\ x % LETTER = x /\ y % LETTER = y /\ z % LETTER = z
  BY LettersInRange
<1>7. Four(w % LETTER, x % LETTER, y % LETTER, z % LETTER) = TripleAt(b, 3 * G)
  BY <1>4, <1>5, <1>6, Zenon DEF TripleAt
<1>8. Encoded(t \o <<w, x, y, z>>, b, G + 1)
  BY <1>2, <1>6, <1>7, EncodeMore, Zenon
<1>9. p + 3 = 3 * (G + 1) /\ p + 3 \in Nat /\ p + 3 <= Len(b)
  <2>1. G \in Nat
    BY <1>2 DEF Encoded
  <2> QED BY <1>1, <1>2, <2>1
<1>10. ASSUME NEW i \in 1..Len(t \o <<w, x, y, z>>) PROVE (t \o <<w, x, y, z>>)[i] \in Below
  <2>1. t \in Seq(Nat)
    BY <1>2 DEF Encoded
  <2>2. FourAdded(t \o <<w, x, y, z>>, t, w, x, y, z)
    BY <1>6, <2>1, FourMore, Zenon
  <2>3. (t \o <<w, x, y, z>>)[i] \in {w, x, y, z} \/ (i \in 1..Len(t) /\ (t \o <<w, x, y, z>>)[i] = t[i])
    BY <2>2, Zenon DEF FourAdded
  <2>4. \A j \in 1..Len(t) : t[j] \in Below
    BY DEF Encoding
  <2> QED BY <2>3, <2>4, Zenon
<1>11. Encoding(t \o <<w, x, y, z>>, b, p + 3)
  BY <1>1, <1>8, <1>9, <1>10, Zenon DEF Encoding
<1> QED
  BY <1>3, <1>5, <1>11, Zenon

LEMMA RestNone ==
  ASSUME NEW t, NEW b, NEW p, Encoding(t, b, p), Len(b) = p
  PROVE  Ended(t, b)
<1>1. PICK G : Encoded(t, b, G) /\ p = 3 * G
  BY DEF Encoding
<1>2. t \in Seq(Nat) /\ G \in Nat /\ Len(t) = 4 * G
  BY <1>1 DEF Encoded
<1>3. PaddingOf(t) = 0
  <2>1. CASE Len(t) = 0
    BY <2>1, Zenon DEF PaddingOf
  <2>2. CASE Len(t) # 0
    <3>1. Len(t) \in 1..Len(t) /\ Len(t) - 1 \in 1..Len(t)
      BY <1>2, <2>2
    <3>2. t[Len(t)] # PAD /\ t[Len(t) - 1] # PAD
      BY <3>1, LettersInRange, Zenon DEF Encoding
    <3>3. PaddingOf(t) = 0 + 0
      BY <2>2, <3>2, Zenon DEF PaddingOf
    <3> QED BY <3>3
  <2> QED BY <2>1, <2>2
<1>4. 3 * G - 0 = Len(b) /\ 0 \in 0..2
  BY <1>1, <1>2
<1>5. b \in Seq(Bytes)
  BY DEF Encoding
<1> QED
  BY <1>1, <1>3, <1>4, <1>5, Zenon DEF Ended

(* One or two bytes are encoded as three of which the last ones are 0. *)
LEMMA ZeroParts == High4(0) = 0 /\ High2(0) = 0 /\ Low4(0) = 0 /\ Low6(0) = 0 /\ 0 \in Bytes
<1>1. PICK q \in Nat \ {0}, l \in Nat \ {0} : q = QUARTER /\ l = LETTER
  BY LettersAre
<1>2. PICK s \in Nat \ {0} : s = q * q
  <2>1. q * q \in Nat \ {0}
    OBVIOUS
  <2> QED BY <2>1
<1>3. ASSUME NEW n \in Nat \ {0} PROVE 0 \div n = 0 /\ 0 % n = 0
  <2>1. PICK z \in Int : z = 0
    OBVIOUS
  <2>2. z \in 0..(n - 1) /\ z = n * z + z
    BY <2>1
  <2>3. z \div n = z /\ z % n = z
    BY <2>2, DivisionIs
  <2> QED BY <2>1, <2>3
<1>4. 0 \div s = 0 /\ 0 % s = 0 /\ 0 \div l = 0 /\ 0 % l = 0
  BY <1>3
<1>5. 0 * q = 0
  OBVIOUS
<1>6. 0 \in Bytes
  BY ByteIs DEF Bytes
<1> QED
  BY <1>1, <1>2, <1>4, <1>5, <1>6, Zenon DEF High4, High2, Low4, Low6

LEMMA RestOne ==
  ASSUME NEW t, NEW b, NEW p, Encoding(t, b, p), Len(b) = p + 1
  PROVE  Ended(t \o <<High6(b[p + 1]), Low2(b[p + 1]), PAD, PAD>>, b)
<1>1. b \in Seq(Bytes) /\ p \in Nat /\ Len(b) \in Nat
  BY DEF Encoding
<1>2. PICK G : Encoded(t, b, G) /\ p = 3 * G
  BY DEF Encoding
<1>3. t \in Seq(Nat) /\ G \in Nat
  BY <1>2 DEF Encoded
<1>4. PICK u \in Bytes : u = b[p + 1]
  BY <1>1, ElementOf
<1>5. ByteOr0(b, 3 * G + 1) = u /\ ByteOr0(b, 3 * G + 2) = 0 /\ ByteOr0(b, 3 * G + 3) = 0
  <2>1. p + 1 \in 1..Len(b) /\ p + 2 \notin 1..Len(b) /\ p + 3 \notin 1..Len(b)
    BY <1>1
  <2> QED BY <1>2, <1>4, <2>1, Zenon DEF ByteOr0
<1>6. PICK w \in Below, x \in Below :
        w = High6(u) /\ x = Low2(u) + High4(0) /\ Four(w, x, 0, 0) = Triple(u, 0, 0)
  <2>1. /\ High6(u) \in Below /\ Low2(u) + High4(0) \in Below
        /\ Four(High6(u), Low2(u) + High4(0), Low4(0) + High2(0), Low6(0)) = Triple(u, 0, 0)
    BY ZeroParts, TripleSpelled, Zenon
  <2>2. Low4(0) + High2(0) = 0 /\ Low6(0) = 0
    <3>1. 0 + 0 = 0
      OBVIOUS
    <3> QED BY <3>1, ZeroParts, Zenon
  <2> QED BY <2>1, <2>2, Zenon
<1>7. x = Low2(u)
  <2>1. x = Low2(u) + 0
    BY <1>6, ZeroParts, Zenon
  <2>2. Low2(u) \in Int
    <3>1. PICK q \in Nat \ {0} : q = QUARTER
      BY LettersAre
    <3>2. u \in Nat
      BY ByteIs DEF Bytes
    <3>3. PICK r \in Nat : r = u % q
      BY <3>2, QuotientIsNat
    <3>4. r * (q * q) \in Int
      <4>1. PICK s \in Int : s = q * q
        OBVIOUS
      <4> QED BY <4>1
    <3> QED BY <3>1, <3>3, <3>4, Zenon DEF Low2
  <2> QED BY <2>1, <2>2
<1>8. /\ w \in Nat /\ x \in Nat /\ PAD \in Nat
      /\ w % LETTER = w /\ x % LETTER = x /\ PAD % LETTER = 0
  BY LettersInRange
<1>9. Four(w % LETTER, x % LETTER, PAD % LETTER, PAD % LETTER) = TripleAt(b, 3 * G)
  BY <1>5, <1>6, <1>8, Zenon DEF TripleAt
<1>10. Encoded(t \o <<w, x, PAD, PAD>>, b, G + 1)
  BY <1>2, <1>8, <1>9, EncodeMore, Zenon
<1>11. PaddingOf(t \o <<w, x, PAD, PAD>>) = 2
  <2>1. PaddingOf(t \o <<w, x, PAD, PAD>>) = (IF PAD = PAD THEN 1 ELSE 0) + (IF PAD = PAD THEN 1 ELSE 0)
    <3>1. FourAdded(t \o <<w, x, PAD, PAD>>, t, w, x, PAD, PAD)
      BY <1>3, <1>8, FourMore, Zenon
    <3> QED BY <3>1, Zenon DEF FourAdded
  <2> QED BY <2>1
<1>12. 3 * (G + 1) - 2 = Len(b) /\ 2 \in 0..2
  BY <1>1, <1>2, <1>3
<1>13. Ended(t \o <<w, x, PAD, PAD>>, b)
  BY <1>1, <1>10, <1>11, <1>12, Zenon DEF Ended
<1> QED
  BY <1>4, <1>6, <1>7, <1>13, Zenon

LEMMA RestTwo ==
  ASSUME NEW t, NEW b, NEW p, Encoding(t, b, p), Len(b) = p + 2
  PROVE  Ended(t \o <<High6(b[p + 1]), Low2(b[p + 1]) + High4(b[p + 2]), Low4(b[p + 2]), PAD>>, b)
<1>1. b \in Seq(Bytes) /\ p \in Nat /\ Len(b) \in Nat
  BY DEF Encoding
<1>2. PICK G : Encoded(t, b, G) /\ p = 3 * G
  BY DEF Encoding
<1>3. t \in Seq(Nat) /\ G \in Nat
  BY <1>2 DEF Encoded
<1>4. PICK u \in Bytes, v \in Bytes : u = b[p + 1] /\ v = b[p + 2]
  BY <1>1, ElementOf
<1>5. ByteOr0(b, 3 * G + 1) = u /\ ByteOr0(b, 3 * G + 2) = v /\ ByteOr0(b, 3 * G + 3) = 0
  <2>1. p + 1 \in 1..Len(b) /\ p + 2 \in 1..Len(b) /\ p + 3 \notin 1..Len(b)
    BY <1>1
  <2> QED BY <1>2, <1>4, <2>1, Zenon DEF ByteOr0
<1>6. PICK w \in Below, x \in Below, y \in Below :
        /\ w = High6(u) /\ x = Low2(u) + High4(v) /\ y = Low4(v) + High2(0)
        /\ Four(w, x, y, 0) = Triple(u, v, 0)
  <2>1. /\ High6(u) \in Below /\ Low2(u) + High4(v) \in Below /\ Low4(v) + High2(0) \in Below
        /\ Four(High6(u), Low2(u) + High4(v), Low4(v) + High2(0), Low6(0)) = Triple(u, v, 0)
    BY ZeroParts, TripleSpelled, Zenon
  <2> QED BY <2>1, ZeroParts, Zenon
<1>7. y = Low4(v)
  <2>1. y = Low4(v) + 0
    BY <1>6, ZeroParts, Zenon
  <2>2. Low4(v) \in Int
    <3>1. PICK q \in Nat \ {0} : q = QUARTER
      BY LettersAre
    <3>2. v \in Nat
      BY ByteIs DEF Bytes
    <3>3. PICK s \in Nat \ {0} : s = q * q
      <4>1. q * q \in Nat \ {0}
        OBVIOUS
      <4> QED BY <4>1
    <3>4. PICK r \in Nat : r = v % s
      BY <3>2, QuotientIsNat
    <3>5. r * q \in Int
      OBVIOUS
    <3> QED BY <3>1, <3>3, <3>4, <3>5, Zenon DEF Low4
  <2> QED BY <2>1, <2>2
<1>8. /\ w \in Nat /\ x \in Nat /\ y \in Nat /\ PAD \in Nat /\ y # PAD
      /\ w % LETTER = w /\ x % LETTER = x /\ y % LETTER = y /\ PAD % LETTER = 0
  BY LettersInRange
<1>9. Four(w % LETTER, x % LETTER, y % LETTER, PAD % LETTER) = TripleAt(b, 3 * G)
  BY <1>5, <1>6, <1>8, Zenon DEF TripleAt
<1>10. Encoded(t \o <<w, x, y, PAD>>, b, G + 1)
  BY <1>2, <1>8, <1>9, EncodeMore, Zenon
<1>11. PaddingOf(t \o <<w, x, y, PAD>>) = 1
  <2>1. PaddingOf(t \o <<w, x, y, PAD>>) = (IF PAD = PAD THEN 1 ELSE 0) + (IF y = PAD THEN 1 ELSE 0)
    <3>1. FourAdded(t \o <<w, x, y, PAD>>, t, w, x, y, PAD)
      BY <1>3, <1>8, FourMore, Zenon
    <3> QED BY <3>1, Zenon DEF FourAdded
  <2> QED BY <1>8, <2>1
<1>12. 3 * (G + 1) - 1 = Len(b) /\ 1 \in 0..2
  BY <1>1, <1>2, <1>3
<1>13. Ended(t \o <<w, x, y, PAD>>, b)
  BY <1>1, <1>10, <1>11, <1>12, Zenon DEF Ended
<1> QED
  BY <1>4, <1>6, <1>7, <1>13, Zenon

(* What a player decodes when the encoder has ended. *)
LEMMA DecodedWhole ==
  ASSUME Ended(text, bootstrapinfo)
  PROVE  Decoded = bootstrapinfo
<1>1. PICK G, d : d \in 0..2 /\ Encoded(text, bootstrapinfo, G)
                    /\ 3 * G - d = Len(bootstrapinfo) /\ PaddingOf(text) = d
  BY DEF Ended
<1>2. bootstrapinfo \in Seq(Bytes)
  BY DEF Ended
<1>3. DecodedOf(text, d) = bootstrapinfo
  BY <1>1, <1>2, Decodes, Zenon
<1>4. Padding = d
  BY <1>1, Zenon DEF Padding, PaddingOf
<1>5. \A g : Group(g) = NumberAt(text, 4 * g)
  BY Zenon DEF Group, NumberAt, Four
<1>6. Decoded = DecodedOf(text, d)
  <2>1. Decoded = [i \in 1..((Len(text) \div 4) * 3 - d) |->
                     (Group((i - 1) \div 3) \div Power[2 - ((i - 1) % 3)]) % BYTE]
    BY <1>4, Zenon DEF Decoded
  <2> QED BY <1>5, <2>1 DEF DecodedOf
<1> QED
  BY <1>3, <1>6, Zenon

-----------------------------------------------------------------------------
(* Boxes in boxes: what lies where. *)
LEMMA BytesJoin ==
  ASSUME NEW s \in Seq(Bytes), NEW t \in Seq(Bytes)
  PROVE  s \o t \in Seq(Bytes) /\ Len(s \o t) = Len(s) + Len(t)
BY Concatenated DEF Joined

LEMMA Split ==
  ASSUME NEW s \in Seq(Bytes), NEW t \in Seq(Bytes), NEW b, NEW a, LiesAt(b, a, s \o t)
  PROVE  LiesAt(b, a, s) /\ LiesAt(b, a + Len(s), t)
<1>1. PICK r : r = s \o t /\ Joined(r, s, t, Bytes)
  BY Concatenated
<1>2. a \in Nat /\ \A j \in 1..Len(r) : b[a + j] = r[j]
  BY <1>1 DEF LiesAt
<1>3. PICK m \in Nat, n \in Nat : m = Len(s) /\ n = Len(t)
  OBVIOUS
<1>4. Len(r) = m + n /\ (\A j \in 1..m : r[j] = s[j]) /\ (\A j \in 1..n : r[m + j] = t[j])
  BY <1>1, <1>3 DEF Joined
<1>5. ASSUME NEW j \in 1..m PROVE b[a + j] = s[j]
  <2>1. j \in 1..Len(r)
    BY <1>4
  <2> QED BY <1>2, <1>4, <2>1
<1>6. ASSUME NEW j \in 1..n PROVE b[(a + m) + j] = t[j]
  <2>1. m + j \in 1..Len(r) /\ (a + m) + j = a + (m + j)
    BY <1>2, <1>4
  <2>2. b[a + (m + j)] = r[m + j] /\ r[m + j] = t[j]
    BY <1>2, <1>4, <2>1
  <2> QED BY <2>1, <2>2
<1>7. a + m \in Nat
  BY <1>2
<1> QED
  BY <1>2, <1>3, <1>5, <1>6, <1>7 DEF LiesAt

LEMMA LiesLonger ==
  ASSUME NEW c \in Seq(Bytes), NEW d \in Seq(Bytes)
  PROVE  /\ LiesAt(c \o d, Len(c), d)
         /\ \A s, a : LiesAt(c, a, s) /\ Len(s) \in Nat /\ a + Len(s) <= Len(c) => LiesAt(c \o d, a, s)
<1>1. PICK r : r = c \o d /\ Joined(r, c, d, Bytes)
  BY Concatenated
<1>2. LiesAt(r, Len(c), d)
  <2>1. Len(c) \in Nat
    OBVIOUS
  <2> QED BY <1>1, <2>1 DEF Joined, LiesAt
<1>3. ASSUME NEW s, NEW a, LiesAt(c, a, s), Len(s) \in Nat, a + Len(s) <= Len(c) PROVE LiesAt(r, a, s)
  <2>1. a \in Nat /\ \A j \in 1..Len(s) : c[a + j] = s[j]
    BY <1>3 DEF LiesAt
  <2>2. PICK m \in Nat, n \in Nat : m = Len(s) /\ n = Len(c) /\ a + m <= n
    BY <1>3
  <2>3. ASSUME NEW j \in 1..m PROVE r[a + j] = s[j]
    <3>1. a + j \in 1..n
      BY <2>1, <2>2
    <3>2. r[a + j] = c[a + j]
      BY <1>1, <2>2, <3>1 DEF Joined
    <3> QED BY <2>1, <2>2, <3>2
  <2> QED BY <2>1, <2>2, <2>3 DEF LiesAt
<1> QED
  BY <1>1, <1>2, <1>3, Zenon

LEMMA LiesInside ==
  ASSUME NEW b, NEW p, NEW c, LiesAt(b, p, c), NEW a, NEW s, LiesAt(c, a, s),
         Len(s) \in Nat, Len(c) \in Nat, a + Len(s) <= Len(c)
  PROVE  LiesAt(b, p + a, s)
<1>1. p \in Nat /\ \A j \in 1..Len(c) : b[p + j] = c[j]
  BY DEF LiesAt
<1>2. a \in Nat /\ \A j \in 1..Len(s) : c[a + j] = s[j]
  BY DEF LiesAt
<1>3. PICK m \in Nat, n \in Nat : m = Len(s) /\ n = Len(c) /\ a + m <= n
  OBVIOUS
<1>4. ASSUME NEW j \in 1..m PROVE b[(p + a) + j] = s[j]
  <2>1. a + j \in 1..n /\ (p + a) + j = p + (a + j)
    BY <1>1, <1>2, <1>3
  <2>2. b[p + (a + j)] = c[a + j] /\ c[a + j] = s[j]
    BY <1>1, <1>2, <1>3, <2>1
  <2> QED BY <2>1, <2>2
<1> QED
  BY <1>1, <1>2, <1>3, <1>4 DEF LiesAt

LEMMA SmallBytes == {0, 1, 2, 3} \subseteq Bytes
<1>1. PICK q \in Nat \ {0} : BYTE = 4 * q
  BY ByteIs
<1> QED
  BY <1>1 DEF Bytes

LEMMA WriteBytes ==
  ASSUME NEW n \in Nat, NEW w \in 0..8
  PROVE  Write(n, w) \in Seq(Bytes) /\ Len(Write(n, w)) = w
<1>1. PICK s : s = Write(n, w)
  OBVIOUS
<1>2. s \in Seq(Nat) /\ Len(s) = w /\ \A i \in 1..w : s[i] = (n \div Power[w - i]) % BYTE
  BY <1>1, Written
<1>3. ASSUME NEW i \in 1..w PROVE s[i] \in Bytes
  <2>1. w - i \in 0..8
    OBVIOUS
  <2>2. PICK x \in Nat \ {0} : x = Power[w - i]
    BY <2>1, Powers
  <2>3. PICK y \in Nat : y = n \div x
    BY QuotientIsNat
  <2>4. y % BYTE \in 0..(BYTE - 1)
    BY ByteIs, RemainderTwice
  <2> QED BY <1>2, <2>2, <2>3, <2>4 DEF Bytes
<1>4. s \in Seq(Bytes)
  BY <1>2, <1>3
<1> QED
  BY <1>1, <1>2, <1>4

(* A number where it was written. *)
NumberLies(b, a, n, w) == n \in Nat /\ w \in 0..8 /\ n < Power[w] /\ LiesAt(b, a, Write(n, w))

LEMMA NumberFound ==
  ASSUME NEW b, NEW a, NEW n, NEW w, NumberLies(b, a, n, w)
  PROVE  Read(b, a + 1, w) = n
<1>0. n \in Nat /\ w \in 0..8 /\ n < Power[w] /\ LiesAt(b, a, Write(n, w))
  BY DEF NumberLies
<1>1. a \in Nat /\ Len(Write(n, w)) = w /\ \A j \in 1..Len(Write(n, w)) : b[a + j] = Write(n, w)[j]
  BY <1>0, WriteBytes DEF LiesAt
<1>2. a + 1 \in Nat
  BY <1>1
<1>3. ASSUME NEW j \in 1..w PROVE b[(a + 1) + j - 1] = Write(n, w)[j]
  <2>1. (a + 1) + j - 1 = a + j
    BY <1>1
  <2> QED BY <1>1, <2>1
<1> QED
  BY <1>0, <1>2, <1>3, ReadWritten

LEMMA LettersBytes ==
  ASSUME NEW name \in Bytes
  PROVE  Letters(name) \in Seq(Bytes) /\ Len(Letters(name)) = 4
BY DEF Letters

LEMMA ZerosBytes ==
  ASSUME NEW n \in Nat
  PROVE  Zeros(n) \in Seq(Bytes) /\ Len(Zeros(n)) = n
BY SmallBytes DEF Zeros

LEMMA OneByte ==
  ASSUME NEW x \in Bytes
  PROVE  <<x>> \in Seq(Bytes) /\ Len(<<x>>) = 1
OBVIOUS

LEMMA BoxIs ==
  ASSUME NEW name \in Bytes, NEW c \in Seq(Bytes)
  PROVE  Box(name, c) \in Seq(Bytes) /\ Len(Box(name, c)) = Len(c) + 8
<1>1. PICK w : w = Write(Len(c) + 8, 4)
  OBVIOUS
<1>2. w \in Seq(Bytes) /\ Len(w) = 4
  <2>1. Len(c) + 8 \in Nat /\ 4 \in 0..8
    OBVIOUS
  <2> QED BY <1>1, <2>1, WriteBytes
<1>3. PICK l : l = Letters(name)
  OBVIOUS
<1>4. l \in Seq(Bytes) /\ Len(l) = 4
  BY <1>3, LettersBytes
<1>5. w \o l \in Seq(Bytes) /\ Len(w \o l) = 8
  <2>1. 4 + 4 = 8
    OBVIOUS
  <2> QED BY <1>2, <1>4, <2>1, BytesJoin, Zenon
<1>6. (w \o l) \o c \in Seq(Bytes) /\ Len((w \o l) \o c) = 8 + Len(c)
  BY <1>5, BytesJoin
<1>7. Box(name, c) = (w \o l) \o c
  BY <1>1, <1>3, Zenon DEF Box
<1>8. 8 + Len(c) = Len(c) + 8
  OBVIOUS
<1> QED
  BY <1>6, <1>7, <1>8

LEMMA BoxLies ==
  ASSUME NEW name \in Bytes, NEW c \in Seq(Bytes), Len(c) + 8 < WORD,
         NEW b, NEW a, LiesAt(b, a, Box(name, c))
  PROVE  IsBox(b, a + 1, name, Len(c) + 8) /\ LiesAt(b, a + 8, c)
<1>1. PICK w : w = Write(Len(c) + 8, 4)
  OBVIOUS
<1>2. Len(c) + 8 \in Nat /\ 4 \in 0..8
  OBVIOUS
<1>3. w \in Seq(Bytes) /\ Len(w) = 4
  BY <1>1, <1>2, WriteBytes
<1>4. PICK l : l = Letters(name)
  OBVIOUS
<1>5. l \in Seq(Bytes) /\ Len(l) = 4
  BY <1>4, LettersBytes
<1>6. w \o l \in Seq(Bytes) /\ Len(w \o l) = 8
  <2>1. 4 + 4 = 8
    OBVIOUS
  <2> QED BY <1>3, <1>5, <2>1, BytesJoin, Zenon
<1>7. LiesAt(b, a, (w \o l) \o c)
  BY <1>1, <1>4, Zenon DEF Box
<1>8. LiesAt(b, a, w \o l) /\ LiesAt(b, a + 8, c)
  BY <1>6, <1>7, Split
<1>9. LiesAt(b, a, w) /\ LiesAt(b, a + 4, l)
  BY <1>3, <1>5, <1>8, Split
<1>10. Read(b, a + 1, 4) = Len(c) + 8
  <2>1. Len(c) + 8 < Power[4]
    BY DEF WORD
  <2>2. LiesAt(b, a, Write(Len(c) + 8, 4))
    BY <1>1, <1>9
  <2>3. NumberLies(b, a, Len(c) + 8, 4)
    BY <1>2, <2>1, <2>2, Zenon DEF NumberLies
  <2> QED BY <2>3, NumberFound, Zenon
<1>11. ASSUME NEW i \in 1..4 PROVE b[(a + 1) + 3 + i] = Letters(name)[i]
  <2>1. a \in Nat
    BY DEF LiesAt
  <2>2. (a + 1) + 3 + i = (a + 4) + i
    BY <2>1
  <2>3. b[(a + 4) + i] = l[i]
    BY <1>5, <1>9 DEF LiesAt
  <2> QED BY <1>4, <2>2, <2>3
<1>12. IsBox(b, a + 1, name, Len(c) + 8)
  BY <1>10, <1>11, Zenon DEF IsBox
<1> QED
  BY <1>8, <1>12

(* The contents of the boxes, for a number of rows and a duration. *)
HeadOf(d) ==
  Zeros(4) \o Write(14, 4) \o Zeros(1) \o Write(1000, 4) \o Write(d, 8) \o Zeros(8 + 5) \o <<1>>

SegmentsOf(n) == Zeros(5) \o Write(1, 4) \o Write(1, 4) \o Write(n, 4)

RunsOf(n) == Zeros(4) \o Write(1000, 4) \o Zeros(1) \o Write(n, 4)

RowOf(i, r) ==
  Write(i, 4) \o Write(r.start, 8) \o Write(r.duration, 4) \o (IF r.discontinuity THEN <<0>> ELSE <<>>)

LEMMA HeadOfIs ==
  ASSUME NEW d \in Nat
  PROVE  /\ HeadOf(d) \in Seq(Bytes) /\ Len(HeadOf(d)) = 35
         /\ \A b, a : LiesAt(b, a, HeadOf(d)) => LiesAt(b, a + 13, Write(d, 8))
<1>1. PICK s1, s2, s3, s4, s5, s6, s7 :
        /\ s1 = Zeros(4) /\ s2 = Write(14, 4) /\ s3 = Zeros(1) /\ s4 = Write(1000, 4)
        /\ s5 = Write(d, 8) /\ s6 = Zeros(8 + 5) /\ s7 = <<1>>
  OBVIOUS
<1>2. /\ s1 \in Seq(Bytes) /\ Len(s1) = 4 /\ s3 \in Seq(Bytes) /\ Len(s3) = 1
      /\ s6 \in Seq(Bytes) /\ Len(s6) = 13
  <2>1. 4 \in Nat /\ 1 \in Nat /\ 8 + 5 \in Nat /\ 8 + 5 = 13
    OBVIOUS
  <2> QED BY <1>1, <2>1, ZerosBytes
<1>3. /\ s2 \in Seq(Bytes) /\ Len(s2) = 4 /\ s4 \in Seq(Bytes) /\ Len(s4) = 4
      /\ s5 \in Seq(Bytes) /\ Len(s5) = 8
  <2>1. 14 \in Nat /\ 1000 \in Nat /\ 4 \in 0..8 /\ 8 \in 0..8
    OBVIOUS
  <2> QED BY <1>1, <2>1, WriteBytes
<1>4. s7 \in Seq(Bytes) /\ Len(s7) = 1
  BY <1>1, SmallBytes, OneByte
<1>5. PICK t2, t3, t4, t5, t6 :
        t2 = s1 \o s2 /\ t3 = t2 \o s3 /\ t4 = t3 \o s4 /\ t5 = t4 \o s5 /\ t6 = t5 \o s6
  OBVIOUS
<1>6. t2 \in Seq(Bytes) /\ Len(t2) = 4 + 4
  BY <1>2, <1>3, <1>5, BytesJoin
<1>7. t3 \in Seq(Bytes) /\ Len(t3) = 4 + 4 + 1
  BY <1>2, <1>5, <1>6, BytesJoin
<1>8. t4 \in Seq(Bytes) /\ Len(t4) = 4 + 4 + 1 + 4
  BY <1>3, <1>5, <1>7, BytesJoin
<1>9. t5 \in Seq(Bytes) /\ Len(t5) = 4 + 4 + 1 + 4 + 8
  BY <1>3, <1>5, <1>8, BytesJoin
<1>10. t6 \in Seq(Bytes) /\ Len(t6) = 4 + 4 + 1 + 4 + 8 + 13
  <2>1. t6 \in Seq(Bytes) /\ Len(t6) = Len(t5) + Len(s6)
    BY <1>2, <1>5, <1>9, BytesJoin, Zenon
  <2> QED BY <1>2, <1>9, <2>1, Zenon
<1>11. t6 \o s7 \in Seq(Bytes) /\ Len(t6 \o s7) = 4 + 4 + 1 + 4 + 8 + 13 + 1
  BY <1>4, <1>10, BytesJoin
<1>12. HeadOf(d) = t6 \o s7
  BY <1>1, <1>5 DEF HeadOf
<1>13. ASSUME NEW b, NEW a, LiesAt(b, a, t6 \o s7) PROVE LiesAt(b, a + 13, s5)
  <2>1. LiesAt(b, a, t5 \o s6)
    BY <1>4, <1>5, <1>10, <1>13, Split
  <2>2. LiesAt(b, a, t4 \o s5)
    BY <1>2, <1>5, <1>9, <2>1, Split
  <2>3. LiesAt(b, a + Len(t4), s5)
    BY <1>3, <1>8, <2>2, Split
  <2>4. Len(t4) = 13
    BY <1>8
  <2> QED BY <2>3, <2>4
<1>14. 4 + 4 + 1 + 4 + 8 + 13 + 1 = 35
  OBVIOUS
<1> QED
  BY <1>1, <1>11, <1>12, <1>13, <1>14, Zenon

LEMMA SegmentsOfIs ==
  ASSUME NEW n \in Nat
  PROVE  /\ SegmentsOf(n) \in Seq(Bytes) /\ Len(SegmentsOf(n)) = 17
         /\ \A b, a : LiesAt(b, a, SegmentsOf(n)) => LiesAt(b, a + 13, Write(n, 4))
<1>1. PICK s1, s2, s3 : s1 = Zeros(5) /\ s2 = Write(1, 4) /\ s3 = Write(n, 4)
  OBVIOUS
<1>2. s1 \in Seq(Bytes) /\ Len(s1) = 5
  BY <1>1, ZerosBytes
<1>3. s2 \in Seq(Bytes) /\ Len(s2) = 4 /\ s3 \in Seq(Bytes) /\ Len(s3) = 4
  <2>1. 1 \in Nat /\ 4 \in 0..8
    OBVIOUS
  <2> QED BY <1>1, <2>1, WriteBytes
<1>4. PICK t2, t3 : t2 = s1 \o s2 /\ t3 = t2 \o s2
  OBVIOUS
<1>5. t2 \in Seq(Bytes) /\ Len(t2) = 5 + 4
  BY <1>2, <1>3, <1>4, BytesJoin
<1>6. t3 \in Seq(Bytes) /\ Len(t3) = 5 + 4 + 4
  BY <1>3, <1>4, <1>5, BytesJoin
<1>7. t3 \o s3 \in Seq(Bytes) /\ Len(t3 \o s3) = 5 + 4 + 4 + 4
  BY <1>3, <1>6, BytesJoin
<1>8. SegmentsOf(n) = t3 \o s3
  BY <1>1, <1>4, Zenon DEF SegmentsOf
<1>9. ASSUME NEW b, NEW a, LiesAt(b, a, t3 \o s3) PROVE LiesAt(b, a + 13, s3)
  <2>1. LiesAt(b, a + Len(t3), s3)
    BY <1>3, <1>6, <1>9, Split
  <2>2. Len(t3) = 13
    BY <1>6
  <2> QED BY <2>1, <2>2
<1>10. 5 + 4 + 4 + 4 = 17
  OBVIOUS
<1> QED
  BY <1>1, <1>7, <1>8, <1>9, <1>10, Zenon

LEMMA RunsOfIs ==
  ASSUME NEW n \in Nat
  PROVE  /\ RunsOf(n) \in Seq(Bytes) /\ Len(RunsOf(n)) = 13
         /\ \A b, a : LiesAt(b, a, RunsOf(n)) => LiesAt(b, a + 9, Write(n, 4))
<1>1. PICK s1, s2, s3, s4 : s1 = Zeros(4) /\ s2 = Write(1000, 4) /\ s3 = Zeros(1) /\ s4 = Write(n, 4)
  OBVIOUS
<1>2. s1 \in Seq(Bytes) /\ Len(s1) = 4 /\ s3 \in Seq(Bytes) /\ Len(s3) = 1
  <2>1. 4 \in Nat /\ 1 \in Nat
    OBVIOUS
  <2> QED BY <1>1, <2>1, ZerosBytes
<1>3. s2 \in Seq(Bytes) /\ Len(s2) = 4 /\ s4 \in Seq(Bytes) /\ Len(s4) = 4
  <2>1. 1000 \in Nat /\ 4 \in 0..8
    OBVIOUS
  <2> QED BY <1>1, <2>1, WriteBytes
<1>4. PICK t2, t3 : t2 = s1 \o s2 /\ t3 = t2 \o s3
  OBVIOUS
<1>5. t2 \in Seq(Bytes) /\ Len(t2) = 4 + 4
  BY <1>2, <1>3, <1>4, BytesJoin
<1>6. t3 \in Seq(Bytes) /\ Len(t3) = 4 + 4 + 1
  BY <1>2, <1>4, <1>5, BytesJoin
<1>7. t3 \o s4 \in Seq(Bytes) /\ Len(t3 \o s4) = 4 + 4 + 1 + 4
  BY <1>3, <1>6, BytesJoin
<1>8. RunsOf(n) = t3 \o s4
  BY <1>1, <1>4 DEF RunsOf
<1>9. ASSUME NEW b, NEW a, LiesAt(b, a, t3 \o s4) PROVE LiesAt(b, a + 9, s4)
  <2>1. LiesAt(b, a + Len(t3), s4)
    BY <1>3, <1>6, <1>9, Split
  <2>2. Len(t3) = 9
    BY <1>6
  <2> QED BY <2>1, <2>2
<1>10. 4 + 4 + 1 + 4 = 13
  OBVIOUS
<1> QED
  BY <1>1, <1>7, <1>8, <1>9, <1>10, Zenon

Row == [start : 0..(WORD - 1), duration : 0..(WORD - 1), discontinuity : BOOLEAN]

RowFields(b, a, i, r) ==
  LiesAt(b, a, Write(i, 4)) /\ LiesAt(b, a + 4, Write(r.start, 8)) /\ LiesAt(b, a + 12, Write(r.duration, 4))

LEMMA RowOfIs ==
  ASSUME NEW i \in Nat, NEW r \in Row
  PROVE  /\ RowOf(i, r) \in Seq(Bytes)
         /\ Len(RowOf(i, r)) = 16 + (IF r.discontinuity THEN 1 ELSE 0)
         /\ \A b, a : LiesAt(b, a, RowOf(i, r)) => RowFields(b, a, i, r)
<1>1. PICK s1, s2, s3, s4 : /\ s1 = Write(i, 4) /\ s2 = Write(r.start, 8) /\ s3 = Write(r.duration, 4)
                            /\ s4 = IF r.discontinuity THEN <<0>> ELSE <<>>
  OBVIOUS
<1>2. r.start \in Nat /\ r.duration \in Nat
  BY DEF Row
<1>3. /\ s1 \in Seq(Bytes) /\ Len(s1) = 4 /\ s2 \in Seq(Bytes) /\ Len(s2) = 8
      /\ s3 \in Seq(Bytes) /\ Len(s3) = 4
  <2>1. 4 \in 0..8 /\ 8 \in 0..8
    OBVIOUS
  <2> QED BY <1>1, <1>2, <2>1, WriteBytes
<1>4. s4 \in Seq(Bytes) /\ Len(s4) = IF r.discontinuity THEN 1 ELSE 0
  <2>1. CASE r.discontinuity
    BY <1>1, <2>1, SmallBytes
  <2>2. CASE ~r.discontinuity
    BY <1>1, <2>2
  <2> QED BY <2>1, <2>2
<1>5. PICK t2, t3 : t2 = s1 \o s2 /\ t3 = t2 \o s3
  OBVIOUS
<1>6. t2 \in Seq(Bytes) /\ Len(t2) = 4 + 8
  <2>1. 4 + 4 = 8
    OBVIOUS
  <2> QED BY <1>3, <1>5, <2>1, BytesJoin, Zenon
<1>7. t3 \in Seq(Bytes) /\ Len(t3) = 4 + 8 + 4
  BY <1>3, <1>5, <1>6, BytesJoin
<1>8. t3 \o s4 \in Seq(Bytes) /\ Len(t3 \o s4) = 4 + 8 + 4 + Len(s4)
  BY <1>4, <1>7, BytesJoin
<1>9. RowOf(i, r) = t3 \o s4
  BY <1>1, <1>5, Zenon DEF RowOf
<1>10. ASSUME NEW b, NEW a, LiesAt(b, a, t3 \o s4)
       PROVE  LiesAt(b, a, s1) /\ LiesAt(b, a + 4, s2) /\ LiesAt(b, a + 12, s3)
  <2>1. LiesAt(b, a, t2 \o s3)
    BY <1>4, <1>5, <1>7, <1>10, Split
  <2>2. LiesAt(b, a, t2) /\ LiesAt(b, a + Len(t2), s3)
    BY <1>3, <1>6, <2>1, Split
  <2>3. LiesAt(b, a, s1) /\ LiesAt(b, a + Len(s1), s2)
    BY <1>3, <1>5, <2>2, Split
  <2>4. Len(t2) = 12 /\ Len(s1) = 4
    BY <1>3, <1>6
  <2> QED BY <2>2, <2>3, <2>4
<1>11. Len(t3 \o s4) = 16 + (IF r.discontinuity THEN 1 ELSE 0)
  <2>1. Len(t3 \o s4) = 4 + 8 + 4 + (IF r.discontinuity THEN 1 ELSE 0)
    BY <1>4, <1>8, Zenon
  <2> QED BY <2>1
<1>12. ASSUME NEW b, NEW a, LiesAt(b, a, t3 \o s4) PROVE RowFields(b, a, i, r)
  BY <1>1, <1>10, <1>12, Zenon DEF RowFields
<1> QED
  BY <1>8, <1>9, <1>11, <1>12, Zenon

LEMMA EightBytes == WORD \in Nat /\ WORD <= Power[8] /\ Power[4] = WORD
<1>1. PICK B \in Nat, x4 \in Nat, x5 \in Nat, x6 \in Nat, x7 \in Nat, x8 \in Nat :
        /\ B = BYTE /\ x4 = Power[4] /\ x5 = Power[5] /\ x6 = Power[6] /\ x7 = Power[7] /\ x8 = Power[8]
        /\ x5 = B * x4 /\ x6 = B * x5 /\ x7 = B * x6 /\ x8 = B * x7 /\ B >= 1
  <2>1. BYTE \in Nat /\ BYTE >= 1
    BY ByteIs
  <2>2. /\ Power[4] \in Nat /\ Power[5] \in Nat /\ Power[6] \in Nat /\ Power[7] \in Nat /\ Power[8] \in Nat
    BY Powers
  <2>3. /\ Power[5] = BYTE * Power[4] /\ Power[6] = BYTE * Power[5]
        /\ Power[7] = BYTE * Power[6] /\ Power[8] = BYTE * Power[7]
    BY Powers
  <2> QED BY <2>1, <2>2, <2>3, Zenon
<1>2. ASSUME NEW x \in Nat PROVE B * x >= x
  <2>1. PICK e \in Nat : B = e + 1
    <3>1. B - 1 \in Nat /\ B = (B - 1) + 1
      BY <1>1
    <3> QED BY <3>1
  <2>2. B * x = e * x + x /\ e * x >= 0
    BY <2>1
  <2> QED BY <2>2
<1>3. x5 >= x4 /\ x6 >= x5 /\ x7 >= x6 /\ x8 >= x7
  BY <1>1, <1>2, Zenon
<1> QED
  BY <1>1, <1>3 DEF WORD

RowLies(b, a, i, r) ==
  /\ i \in Nat /\ i < WORD
  /\ r \in Row /\ (r.discontinuity <=> r.duration = 0)
  /\ LiesAt(b, a, RowOf(i, r))

RowRead(b, p, i, r) == RowAt(b, p) = r /\ Read(b, p, 4) = i

(* A player reads the row that was written. *)
LEMMA RowFound ==
  ASSUME NEW b, NEW a, NEW i, NEW r, RowLies(b, a, i, r)
  PROVE  RowRead(b, a + 1, i, r)
<1>0. /\ i \in Nat /\ i < WORD /\ r \in Row /\ (r.discontinuity <=> r.duration = 0)
      /\ LiesAt(b, a, RowOf(i, r))
  BY DEF RowLies
<1>1. RowFields(b, a, i, r)
  BY <1>0, RowOfIs, Zenon
<1>2. a \in Nat
  BY <1>0 DEF LiesAt
<1>3. r.start \in Nat /\ r.start < Power[8] /\ r.duration \in Nat /\ r.duration < Power[4] /\ i < Power[4]
  BY <1>0, EightBytes, Powers DEF Row
<1>4. 4 \in 0..8 /\ 8 \in 0..8 /\ (a + 4) + 1 = (a + 1) + 4 /\ (a + 12) + 1 = (a + 1) + 12
  BY <1>2
<1>5. Read(b, a + 1, 4) = i
  <2>1. NumberLies(b, a, i, 4)
    BY <1>0, <1>1, <1>3, <1>4, Zenon DEF RowFields, NumberLies
  <2> QED BY <2>1, NumberFound, Zenon
<1>6. Read(b, (a + 1) + 4, 8) = r.start
  <2>1. PICK n, p : n = r.start /\ p = a + 4
    OBVIOUS
  <2>2. NumberLies(b, p, n, 8)
    BY <1>1, <1>3, <1>4, <2>1, Zenon DEF RowFields, NumberLies
  <2>3. Read(b, p + 1, 8) = n
    BY <2>2, NumberFound, Zenon
  <2> QED BY <1>4, <2>1, <2>3, Zenon
<1>7. Read(b, (a + 1) + 12, 4) = r.duration
  <2>1. PICK n, p : n = r.duration /\ p = a + 12
    OBVIOUS
  <2>2. NumberLies(b, p, n, 4)
    BY <1>1, <1>3, <1>4, <2>1, Zenon DEF RowFields, NumberLies
  <2>3. Read(b, p + 1, 4) = n
    BY <2>2, NumberFound, Zenon
  <2> QED BY <1>4, <2>1, <2>3, Zenon
<1>8. PICK s, d : s = Read(b, (a + 1) + 4, 8) /\ d = Read(b, (a + 1) + 12, 4)
  OBVIOUS
<1>9. RowAt(b, a + 1) = [start |-> s, duration |-> d, discontinuity |-> d = 0]
  BY <1>8, Zenon DEF RowAt
<1>10. [start |-> s, duration |-> d, discontinuity |-> d = 0] = r
  <2>1. s = r.start /\ d = r.duration
    BY <1>6, <1>7, <1>8
  <2>2. r.discontinuity \in BOOLEAN
    BY <1>0 DEF Row
  <2>3. (d = 0) = r.discontinuity
    BY <1>0, <2>1, <2>2
  <2>4. r = [start |-> r.start, duration |-> r.duration, discontinuity |-> r.discontinuity]
    BY <1>0 DEF Row
  <2> QED BY <2>1, <2>3, <2>4, Zenon
<1> QED
  BY <1>5, <1>9, <1>10, Zenon DEF RowRead

-----------------------------------------------------------------------------
(* Rows number 1 to n of rows lie in the content c of their box. *)
RowsAt(c, at, n, rows) ==
  /\ n \in Nat /\ c \in Seq(Bytes)
  /\ \A i \in 1..(n + 1) : at[i] \in Nat
  /\ at[1] = 13 /\ at[n + 1] = Len(c)
  /\ \A i \in 1..n : /\ at[i + 1] = at[i] + Len(RowOf(i, rows[i])) /\ at[i + 1] <= Len(c)
                     /\ LiesAt(c, at[i], RowOf(i, rows[i]))

RowsIn(c, n) ==
  LiesAt(c, 0, RunsOf(Len(table.rows))) /\ \E at : RowsAt(c, at, n, table.rows)

LEMMA RowsStart ==
  ASSUME NEW rows, NEW m \in Nat
  PROVE  LiesAt(RunsOf(m), 0, RunsOf(m)) /\ \E at : RowsAt(RunsOf(m), at, 0, rows)
<1>1. PICK c : c = RunsOf(m)
  OBVIOUS
<1>2. c \in Seq(Bytes) /\ Len(c) = 13
  BY <1>1, RunsOfIs, Zenon
<1>3. LiesAt(c, 0, c)
  BY DEF LiesAt
<1>4. PICK at : at = [i \in 1..1 |-> 13]
  OBVIOUS
<1>5. at[1] = 13
  BY <1>4
<1>6. RowsAt(c, at, 0, rows)
  BY <1>2, <1>5 DEF RowsAt
<1> QED
  BY <1>1, <1>3, <1>6, Zenon

LEMMA RowsMore ==
  ASSUME NEW c, NEW at, NEW n, NEW rows, RowsAt(c, at, n, rows),
         \A i \in 1..(n + 1) : rows[i] \in Row
  PROVE  \E new : RowsAt(c \o RowOf(n + 1, rows[n + 1]), new, n + 1, rows)
<1>1. n \in Nat /\ c \in Seq(Bytes) /\ at[n + 1] = Len(c) /\ at[1] = 13
  BY DEF RowsAt
<1>2. PICK x : x = RowOf(n + 1, rows[n + 1])
  OBVIOUS
<1>3. x \in Seq(Bytes)
  <2>1. n + 1 \in Nat /\ n + 1 \in 1..(n + 1)
    BY <1>1
  <2> QED BY <1>2, <2>1, RowOfIs, Zenon
<1>4. PICK d : d = c \o x /\ d \in Seq(Bytes) /\ Len(d) = Len(c) + Len(x)
  BY <1>1, <1>3, BytesJoin
<1>5. PICK m \in Nat, l \in Nat : m = Len(c) /\ l = Len(x) /\ Len(d) = m + l
  BY <1>1, <1>3, <1>4
<1>6. PICK new : new = [i \in 1..(n + 2) |-> IF i = n + 2 THEN m + l ELSE at[i]]
  OBVIOUS
<1>7. new[n + 2] = m + l /\ \A i \in 1..(n + 1) : new[i] = at[i]
  BY <1>1, <1>6
<1>8. \A i \in 1..((n + 1) + 1) : new[i] \in Nat
  <2>1. ASSUME NEW i \in 1..((n + 1) + 1) PROVE i \in 1..(n + 1) \/ i = n + 2
    BY <1>1
  <2>2. \A i \in 1..(n + 1) : at[i] \in Nat
    BY DEF RowsAt
  <2>3. m + l \in Nat
    OBVIOUS
  <2> QED BY <1>7, <2>1, <2>2, <2>3, Zenon
<1>9. new[1] = 13 /\ new[(n + 1) + 1] = Len(d)
  <2>1. 1 \in 1..(n + 1) /\ (n + 1) + 1 = n + 2
    BY <1>1
  <2> QED BY <1>1, <1>5, <1>7, <2>1
<1>10. ASSUME NEW i \in 1..(n + 1)
       PROVE  /\ new[i + 1] = new[i] + Len(RowOf(i, rows[i])) /\ new[i + 1] <= Len(d)
              /\ LiesAt(d, new[i], RowOf(i, rows[i]))
  <2>1. CASE i = n + 1
    <3>1. new[i] = m /\ new[i + 1] = m + l
      <4>1. i + 1 = n + 2 /\ n + 1 \in 1..(n + 1)
        BY <1>1, <2>1
      <4> QED BY <1>1, <1>5, <1>7, <2>1, <4>1, Zenon
    <3>2. LiesAt(d, m, x)
      BY <1>1, <1>3, <1>4, <1>5, LiesLonger, Zenon
    <3>3. RowOf(i, rows[i]) = x
      BY <1>2, <2>1
    <3> QED BY <1>5, <3>1, <3>2, <3>3
  <2>2. CASE i # n + 1
    <3>1. i \in 1..n /\ i + 1 \in 1..(n + 1)
      BY <1>1, <2>2
    <3>2. new[i] = at[i] /\ new[i + 1] = at[i + 1]
      BY <1>7, <3>1
    <3>3. PICK r : r = RowOf(i, rows[i])
      OBVIOUS
    <3>4. at[i + 1] = at[i] + Len(r) /\ at[i + 1] <= m /\ LiesAt(c, at[i], r)
      BY <1>5, <3>1, <3>3 DEF RowsAt
    <3>5. at[i] \in Nat /\ at[i + 1] \in Nat
      BY <3>1 DEF RowsAt
    <3>6. Len(r) \in Nat
      <4>1. i \in Nat /\ i \in 1..(n + 1)
        OBVIOUS
      <4>2. r \in Seq(Bytes)
        BY <3>3, <4>1, RowOfIs, Zenon
      <4> QED BY <4>2
    <3>7. LiesAt(d, at[i], r)
      <4>1. at[i] + Len(r) <= Len(c)
        BY <1>5, <3>4
      <4> QED BY <1>1, <1>3, <1>4, <3>4, <3>6, <4>1, LiesLonger, Zenon
    <3>8. at[i + 1] <= Len(d)
      BY <1>5, <3>4, <3>5
    <3> QED BY <3>2, <3>3, <3>4, <3>7, <3>8
  <2> QED BY <2>1, <2>2
<1>11. n + 1 \in Nat
  BY <1>1
<1>12. RowsAt(d, new, n + 1, rows)
  BY <1>4, <1>8, <1>9, <1>10, <1>11 DEF RowsAt
<1> QED
  BY <1>2, <1>4, <1>12, Zenon

(* A player walks over the rows as they lie. *)
Walked(b, p, n, at) ==
  /\ n \in Nat /\ n = Len(table.rows) /\ at[1] = p
  /\ \A k \in 1..n : at[k + 1] = at[k] + 16 + (IF RowAt(b, at[k]).discontinuity THEN 1 ELSE 0)

Reached(b, p, n, at) == \A k \in 1..(n + 1) : RowPlaces(b, p)[k] = at[k]

LEMMA PlacesFound ==
  ASSUME NEW b, NEW p, NEW n, NEW at, Walked(b, p, n, at)
  PROVE  Reached(b, p, n, at)
<1> n \in Nat /\ n = Len(table.rows) /\ at[1] = p
  BY DEF Walked
<1>0. \A k \in 1..n : at[k + 1] = at[k] + 16 + (IF RowAt(b, at[k]).discontinuity THEN 1 ELSE 0)
  BY DEF Walked
<1> DEFINE Walk(g) == [k \in 1..(n + 1) |->
                         IF k = 1 THEN p
                         ELSE g[k - 1] + 16 + (IF RowAt(b, g[k - 1]).discontinuity THEN 1 ELSE 0)]
<1>1. PICK g : g = [k \in 1..(n + 1) |-> at[k]]
  OBVIOUS
<1>2. g = Walk(g)
  <2>1. ASSUME NEW k \in 1..(n + 1)
        PROVE  g[k] = IF k = 1 THEN p
                      ELSE g[k - 1] + 16 + (IF RowAt(b, g[k - 1]).discontinuity THEN 1 ELSE 0)
    <3>1. CASE k = 1
      BY <1>1, <3>1
    <3>2. CASE k # 1
      <4>1. PICK j \in 1..n : j = k - 1 /\ j + 1 = k /\ j \in 1..(n + 1)
        <5>1. k - 1 \in 1..n /\ (k - 1) + 1 = k /\ k - 1 \in 1..(n + 1)
          BY <3>2
        <5> QED BY <5>1
      <4>2. g[k] = at[j + 1] /\ g[j] = at[j]
        BY <1>1, <4>1
      <4>3. at[j + 1] = at[j] + 16 + (IF RowAt(b, at[j]).discontinuity THEN 1 ELSE 0)
        BY <1>0
      <4> QED BY <3>2, <4>1, <4>2, <4>3, Zenon
    <3> QED BY <3>1, <3>2
  <2> QED BY <1>1, <2>1
<1>3. PICK f : f = CHOOSE h : h = Walk(h)
  OBVIOUS
<1>4. f = Walk(f)
  <2> HIDE DEF Walk
  <2> QED BY <1>2, <1>3, Zenon
<1>5. ASSUME NEW k \in 1..(n + 1)
      PROVE  f[k] = IF k = 1 THEN p
                    ELSE f[k - 1] + 16 + (IF RowAt(b, f[k - 1]).discontinuity THEN 1 ELSE 0)
  BY <1>4
<1>6. RowPlaces(b, p) = f
  <2>1. RowPlaces(b, p) = CHOOSE h : h = Walk(h)
    BY Zenon DEF RowPlaces
  <2> HIDE DEF Walk
  <2> QED BY <1>3, <2>1, Zenon
<1> HIDE DEF Walk
<1> DEFINE P == {k \in Nat : k <= n => f[k + 1] = at[k + 1]}
<1>7. 0 \in P
  <2>1. 1 \in 1..(n + 1) /\ 0 + 1 = 1
    OBVIOUS
  <2>2. f[1] = p
    BY <1>5, <2>1
  <2> QED BY <2>1, <2>2
<1>8. ASSUME NEW k \in Nat, k \in P PROVE k + 1 \in P
  <2> SUFFICES ASSUME k + 1 <= n PROVE f[(k + 1) + 1] = at[(k + 1) + 1]
    OBVIOUS
  <2>1. PICK j \in 1..n : j = k + 1
    OBVIOUS
  <2>2. f[j] = at[j]
    BY <1>8, <2>1
  <2>3. j + 1 \in 1..(n + 1) /\ j + 1 # 1 /\ (j + 1) - 1 = j
    OBVIOUS
  <2>4. f[j + 1] = f[j] + 16 + (IF RowAt(b, f[j]).discontinuity THEN 1 ELSE 0)
    BY <1>5, <2>3, Zenon
  <2>5. at[j + 1] = at[j] + 16 + (IF RowAt(b, at[j]).discontinuity THEN 1 ELSE 0)
    BY <1>0
  <2>6. f[j + 1] = at[j + 1]
    <3>1. PICK x, y : x = f[j] /\ y = at[j] /\ x = y
      BY <2>2, Zenon
    <3>2. PICK v : v = x + 16 + (IF RowAt(b, x).discontinuity THEN 1 ELSE 0)
      OBVIOUS
    <3>3. f[j + 1] = v
      BY <2>4, <3>1, <3>2, Zenon
    <3>4. at[j + 1] = v
      BY <2>5, <3>1, <3>2, Zenon
    <3> QED BY <3>3, <3>4, Zenon
  <2> HIDE DEF P
  <2> QED BY <2>1, <2>6
<1>9. \A k \in Nat : k \in P
  <2> HIDE DEF P
  <2> QED BY <1>7, <1>8, Induction
<1>10. ASSUME NEW k \in 1..(n + 1) PROVE f[k] = at[k]
  <2>1. k - 1 \in Nat /\ k - 1 <= n /\ (k - 1) + 1 = k
    OBVIOUS
  <2>2. f[(k - 1) + 1] = at[(k - 1) + 1]
    BY <1>9, <2>1
  <2> QED BY <2>1, <2>2
<1> QED
  BY <1>6, <1>10, Zenon DEF Reached

(* The boxes of the bootstrap information. *)
InfoOf(d, n, c) ==
  Box(ABST, HeadOf(d) \o Box(ASRT, SegmentsOf(n)) \o <<1>> \o Box(AFRT, c))

(* What lies where in it. *)
Nested(b, d, n, c) ==
  /\ IsBox(b, 1, ABST, Len(b)) /\ IsBox(b, 44, ASRT, 25) /\ IsBox(b, 70, AFRT, Len(c) + 8)
  /\ Len(b) = Len(c) + 77
  /\ LiesAt(b, 21, Write(d, 8)) /\ LiesAt(b, 64, Write(n, 4)) /\ LiesAt(b, 77, c)

LEMMA InfoIs ==
  ASSUME NEW d \in Nat, NEW n \in Nat, NEW c \in Seq(Bytes)
  PROVE  /\ InfoOf(d, n, c) \in Seq(Bytes)
         /\ Len(InfoOf(d, n, c)) < WORD => Nested(InfoOf(d, n, c), d, n, c)
<1>1. PICK h, s, r, o, x, y, t, b :
        /\ h = HeadOf(d) /\ s = SegmentsOf(n) /\ r = Box(ASRT, s) /\ o = <<1>> /\ t = Box(AFRT, c)
        /\ x = h \o r /\ y = x \o o /\ b = Box(ABST, y \o t)
  OBVIOUS
<1>2. ABST \in Bytes /\ ASRT \in Bytes /\ AFRT \in Bytes /\ 1 \in Bytes
  BY SmallBytes DEF ABST, ASRT, AFRT
<1>3. h \in Seq(Bytes) /\ Len(h) = 35
  BY <1>1, HeadOfIs, Zenon
<1>4. s \in Seq(Bytes) /\ Len(s) = 17
  BY <1>1, SegmentsOfIs, Zenon
<1>5. r \in Seq(Bytes) /\ Len(r) = 25
  <2>1. r \in Seq(Bytes) /\ Len(r) = Len(s) + 8
    BY <1>1, <1>2, <1>4, BoxIs, Zenon
  <2> QED BY <1>4, <2>1
<1>6. o \in Seq(Bytes) /\ Len(o) = 1
  BY <1>1, <1>2, OneByte
<1>7. t \in Seq(Bytes) /\ Len(t) = Len(c) + 8
  BY <1>1, <1>2, BoxIs, Zenon
<1>8. x \in Seq(Bytes) /\ Len(x) = 60
  <2>1. x \in Seq(Bytes) /\ Len(x) = Len(h) + Len(r)
    BY <1>1, <1>3, <1>5, BytesJoin, Zenon
  <2> QED BY <1>3, <1>5, <2>1
<1>9. y \in Seq(Bytes) /\ Len(y) = 61
  <2>1. y \in Seq(Bytes) /\ Len(y) = Len(x) + Len(o)
    BY <1>1, <1>6, <1>8, BytesJoin, Zenon
  <2> QED BY <1>6, <1>8, <2>1
<1>10. PICK z : z = y \o t /\ z \in Seq(Bytes) /\ Len(z) = Len(y) + Len(t)
  BY <1>7, <1>9, BytesJoin, Zenon
<1>11. b \in Seq(Bytes) /\ Len(b) = Len(z) + 8
  BY <1>1, <1>2, <1>10, BoxIs, Zenon
<1>12. PICK m \in Nat : m = Len(c)
  OBVIOUS
<1>13. Len(t) = m + 8 /\ Len(z) = m + 69 /\ Len(b) = m + 77
  BY <1>7, <1>9, <1>10, <1>11, <1>12
<1>14. InfoOf(d, n, c) = b
  BY <1>1, Zenon DEF InfoOf
<1>15. ASSUME Len(b) < WORD PROVE Nested(b, d, n, c)
  <2>1. LiesAt(b, 0, Box(ABST, z))
    <3>1. LiesAt(b, 0, b)
      BY DEF LiesAt
    <3> QED BY <1>1, <1>10, <3>1
  <2>2. WORD \in Nat /\ Len(z) + 8 < WORD /\ Len(s) + 8 < WORD /\ Len(c) + 8 < WORD
    <3>1. WORD \in Nat /\ WORD > m + 77
      BY <1>13, <1>15, EightBytes
    <3> QED BY <1>4, <1>12, <1>13, <3>1
  <2>3. IsBox(b, 0 + 1, ABST, Len(z) + 8) /\ LiesAt(b, 0 + 8, z)
    BY <1>2, <1>10, <2>1, <2>2, BoxLies, Zenon
  <2>4. LiesAt(b, 8, y) /\ LiesAt(b, 69, t)
    <3>1. LiesAt(b, 8, y \o t)
      <4>1. 0 + 8 = 8
        OBVIOUS
      <4> QED BY <1>10, <2>3, <4>1, Zenon
    <3>2. LiesAt(b, 8, y) /\ LiesAt(b, 8 + Len(y), t)
      BY <1>7, <1>9, <3>1, Split, Zenon
    <3>3. 8 + Len(y) = 69
      BY <1>9
    <3> QED BY <3>2, <3>3, Zenon
  <2>5. LiesAt(b, 8, x)
    <3>1. LiesAt(b, 8, x \o o)
      BY <1>1, <2>4, Zenon
    <3> QED BY <1>6, <1>8, <3>1, Split, Zenon
  <2>6. LiesAt(b, 8, h) /\ LiesAt(b, 43, r)
    <3>1. LiesAt(b, 8, h \o r)
      BY <1>1, <2>5, Zenon
    <3>2. LiesAt(b, 8, h) /\ LiesAt(b, 8 + Len(h), r)
      BY <1>3, <1>5, <3>1, Split, Zenon
    <3>3. 8 + Len(h) = 43
      BY <1>3
    <3> QED BY <3>2, <3>3, Zenon
  <2>7. LiesAt(b, 21, Write(d, 8))
    <3>1. LiesAt(b, 8 + 13, Write(d, 8))
      BY <1>1, <2>6, HeadOfIs, Zenon
    <3>2. 8 + 13 = 21
      OBVIOUS
    <3> QED BY <3>1, <3>2, Zenon
  <2>8. IsBox(b, 43 + 1, ASRT, Len(s) + 8) /\ LiesAt(b, 43 + 8, s)
    <3>1. LiesAt(b, 43, Box(ASRT, s))
      BY <1>1, <2>6, Zenon
    <3> QED BY <1>2, <1>4, <2>2, <3>1, BoxLies, Zenon
  <2>9. LiesAt(b, 64, Write(n, 4))
    <3>1. LiesAt(b, (43 + 8) + 13, Write(n, 4))
      BY <1>1, <2>8, SegmentsOfIs, Zenon
    <3>2. (43 + 8) + 13 = 64
      OBVIOUS
    <3> QED BY <3>1, <3>2, Zenon
  <2>10. IsBox(b, 69 + 1, AFRT, Len(c) + 8) /\ LiesAt(b, 69 + 8, c)
    <3>1. LiesAt(b, 69, Box(AFRT, c))
      BY <1>1, <2>4, Zenon
    <3> QED BY <1>2, <2>2, <3>1, BoxLies, Zenon
  <2>11. /\ 0 + 1 = 1 /\ 43 + 1 = 44 /\ 69 + 1 = 70 /\ 69 + 8 = 77
         /\ Len(s) + 8 = 25 /\ Len(z) + 8 = Len(b) /\ Len(b) = Len(c) + 77
    BY <1>4, <1>12, <1>13
  <2> QED BY <2>3, <2>7, <2>8, <2>9, <2>10, <2>11, Zenon DEF Nested
<1> QED
  BY <1>11, <1>14, <1>15, Zenon

LEMMA ContentLength ==
  ASSUME NEW c, NEW at, NEW n, NEW rows, RowsAt(c, at, n, rows),
         \A i \in 1..n : rows[i] \in Row
  PROVE  c \in Seq(Bytes) /\ 13 <= Len(c)
<1>1. n \in Nat /\ c \in Seq(Bytes) /\ at[1] = 13 /\ at[n + 1] = Len(c)
      /\ (\A i \in 1..(n + 1) : at[i] \in Nat)
  BY DEF RowsAt
<1>2. CASE n = 0
  BY <1>1, <1>2
<1>3. CASE n # 0
  <2>1. 1 \in 1..n /\ 1 + 1 \in 1..(n + 1)
    BY <1>1, <1>3
  <2>2. PICK x : x = RowOf(1, rows[1]) /\ x \in Seq(Bytes)
    <3>1. 1 \in Nat /\ rows[1] \in Row
      BY <2>1
    <3> QED BY <3>1, RowOfIs, Zenon
  <2>3. at[1 + 1] = at[1] + Len(x) /\ at[1 + 1] <= Len(c)
    BY <2>1, <2>2 DEF RowsAt
  <2>4. at[1 + 1] \in Nat /\ Len(x) \in Nat
    BY <1>1, <2>1, <2>2
  <2> QED BY <1>1, <2>3, <2>4
<1> QED
  BY <1>2, <1>3

LEMMA TableIs ==
  ASSUME table \in Tables
  PROVE  /\ Len(table.rows) \in Nat /\ Len(table.rows) < WORD
         /\ \A i \in 1..Len(table.rows) :
              /\ table.rows[i] \in Row
              /\ table.rows[i].discontinuity => table.rows[i].duration = 0
         /\ table.duration \in Nat /\ table.duration < Power[8]
<1>1. IsTable(table)
  BY TablesAssumption
<1>2. table.rows \in Seq(Row) /\ Len(table.rows) < WORD
  BY <1>1 DEF IsTable, Row
<1>3. ASSUME NEW i \in 1..Len(table.rows)
      PROVE  table.rows[i] \in Row /\ (table.rows[i].discontinuity => table.rows[i].duration = 0)
  <2>1. table.rows[i] \in Row
    BY <1>2, ElementOf
  <2>2. table.rows[i].discontinuity => table.rows[i].duration = 0
    BY <1>1 DEF IsTable
  <2> QED BY <2>1, <2>2
<1>4. table.duration \in Nat /\ table.duration < Power[8]
  <2>1. PICK e : e = table.duration
    OBVIOUS
  <2>2. e \in Nat /\ e \div Power[7] < BYTE
    BY <1>1, <2>1 DEF IsTable
  <2>3. PICK x \in Nat \ {0}, y \in Nat \ {0}, B \in Nat \ {0} :
          x = Power[7] /\ y = Power[8] /\ B = BYTE /\ y = B * x
    <3>1. Power[7] \in Nat \ {0} /\ Power[8] \in Nat \ {0} /\ Power[8] = BYTE * Power[7]
      BY Powers
    <3> QED BY <3>1, ByteIs
  <2>4. PICK f \in Nat, r \in 0..(x - 1) : f = e \div x /\ r = e % x /\ e = x * f + r
    BY <2>2, Parts, Zenon
  <2>5. f + 1 <= B
    BY <2>2, <2>3, <2>4
  <2>6. x * (f + 1) <= x * B
    BY <2>5
  <2>7. x * (f + 1) = x * f + x /\ x * B = y
    <3>1. x * (f + 1) = x * f + x
      OBVIOUS
    <3>2. x * B = B * x
      OBVIOUS
    <3> QED BY <2>3, <3>1, <3>2
  <2>8. e < y
    <3>1. PICK v \in Nat : v = x * f
      OBVIOUS
    <3> QED BY <2>3, <2>4, <2>6, <2>7, <3>1
  <2> QED BY <2>1, <2>2, <2>3, <2>8
<1> QED
  BY <1>2, <1>3, <1>4

Rows == nrows \in Nat /\ nrows <= Len(table.rows) /\ RowsIn(afrt, nrows)

Whole ==
  nrows = Len(table.rows) /\ bootstrapinfo = InfoOf(table.duration, Len(table.rows), afrt)

(* Every row that has no duration is marked. *)
Marked == \A i \in 1..Len(table.rows) : table.rows[i].duration = 0 => table.rows[i].discontinuity

LEMMA Shown ==
  ASSUME table \in Tables, Rows, Whole, Marked, Len(bootstrapinfo) < WORD
  PROVE  ShowsTable(bootstrapinfo)
<1>1. PICK b, n, d, c : b = bootstrapinfo /\ n = Len(table.rows) /\ d = table.duration /\ c = afrt
  OBVIOUS
<1>2. n \in Nat /\ n < WORD /\ d \in Nat /\ d < Power[8]
  BY <1>1, TableIs
<1>3. PICK at : RowsAt(c, at, n, table.rows)
  BY <1>1 DEF Rows, RowsIn, Whole
<1>4. LiesAt(c, 0, RunsOf(n))
  BY <1>1 DEF Rows, RowsIn
<1>5. c \in Seq(Bytes) /\ at[1] = 13 /\ at[n + 1] = Len(c) /\ Len(c) \in Nat
      /\ (\A i \in 1..(n + 1) : at[i] \in Nat)
  BY <1>3 DEF RowsAt
<1>6. Nested(b, d, n, c)
  <2>1. b = InfoOf(d, n, c) /\ Len(b) < WORD
    BY <1>1 DEF Whole
  <2> QED BY <1>2, <1>5, <2>1, InfoIs, Zenon
<1>7. LiesAt(b, 77, c) /\ Len(b) = Len(c) + 77
  BY <1>6 DEF Nested
<1>8. Read(b, 22, 8) = d /\ Read(b, 65, 4) = n
  <2>1. n < Power[4] /\ 8 \in 0..8 /\ 4 \in 0..8 /\ 21 + 1 = 22 /\ 64 + 1 = 65
    BY <1>2, EightBytes
  <2>2. NumberLies(b, 21, d, 8) /\ NumberLies(b, 64, n, 4)
    BY <1>2, <1>6, <2>1 DEF NumberLies, Nested
  <2>3. Read(b, 21 + 1, 8) = d
    BY <2>2, NumberFound
  <2>4. Read(b, 64 + 1, 4) = n
    BY <2>2, NumberFound
  <2> QED BY <2>1, <2>3, <2>4
<1>9. Read(b, 87, 4) = n
  <2>1. LiesAt(c, 0 + 9, Write(n, 4))
    BY <1>2, <1>4, RunsOfIs, Zenon
  <2>2. 0 + 9 = 9
    OBVIOUS
  <2>3. LiesAt(c, 9, Write(n, 4))
    BY <2>1, <2>2, Zenon
  <2>4. Len(Write(n, 4)) = 4
    <3>1. 4 \in 0..8
      OBVIOUS
    <3> QED BY <1>2, <3>1, WriteBytes, Zenon
  <2>5. 9 + 4 <= Len(c)
    <3>1. \A i \in 1..n : table.rows[i] \in Row
      BY <1>1, TableIs
    <3>2. 13 <= Len(c)
      BY <1>3, <3>1, ContentLength, Zenon
    <3> QED BY <1>5, <3>2
  <2>6. LiesAt(b, 77 + 9, Write(n, 4))
    <3>1. 4 \in Nat
      OBVIOUS
    <3> QED BY <1>5, <1>7, <2>3, <2>4, <2>5, <3>1, LiesInside
  <2>7. 77 + 9 = 86 /\ 86 + 1 = 87 /\ 4 \in 0..8 /\ n < Power[4]
    BY <1>2, EightBytes
  <2>8. NumberLies(b, 86, n, 4)
    BY <1>2, <2>6, <2>7, Zenon DEF NumberLies
  <2>9. Read(b, 86 + 1, 4) = n
    BY <2>8, NumberFound
  <2> QED BY <2>7, <2>9
<1>10. PICK pos : pos = [i \in 1..(n + 1) |-> 77 + at[i] + 1]
  OBVIOUS
<1>11. \A i \in 1..(n + 1) : pos[i] = 77 + at[i] + 1
  BY <1>10
<1>12. ASSUME NEW i \in 1..n
       PROVE  /\ RowAt(b, pos[i]) = table.rows[i] /\ Read(b, pos[i], 4) = i
              /\ pos[i + 1] = pos[i] + 16 + (IF RowAt(b, pos[i]).discontinuity THEN 1 ELSE 0)
  <2>1. PICK r \in Row : r = table.rows[i] /\ (r.discontinuity <=> r.duration = 0)
    <3>1. table.rows[i] \in Row /\ (table.rows[i].discontinuity => table.rows[i].duration = 0)
      BY <1>1, TableIs
    <3>2. table.rows[i].duration = 0 => table.rows[i].discontinuity
      BY <1>1 DEF Marked
    <3> QED BY <3>1, <3>2, Zenon
  <2>2. i \in 1..(n + 1) /\ i + 1 \in 1..(n + 1) /\ i \in Nat /\ i < WORD
    BY <1>2, EightBytes
  <2>3. PICK x \in Nat, y \in Nat : x = at[i] /\ y = at[i + 1]
    BY <1>5, <2>2
  <2>4. y = x + Len(RowOf(i, r)) /\ y <= Len(c) /\ LiesAt(c, x, RowOf(i, r))
    BY <1>3, <2>1, <2>3 DEF RowsAt
  <2>5. RowOf(i, r) \in Seq(Bytes) /\ Len(RowOf(i, r)) = 16 + (IF r.discontinuity THEN 1 ELSE 0)
    BY <2>2, RowOfIs, Zenon
  <2>6. LiesAt(b, 77 + x, RowOf(i, r))
    <3>1. PICK s : s = RowOf(i, r) /\ s \in Seq(Bytes)
      BY <2>5, Zenon
    <3>2. Len(s) \in Nat /\ x + Len(s) <= Len(c) /\ LiesAt(c, x, s)
      BY <2>4, <3>1
    <3> QED BY <1>5, <1>7, <3>1, <3>2, LiesInside, Zenon
  <2>7. RowAt(b, (77 + x) + 1) = r /\ Read(b, (77 + x) + 1, 4) = i
    <3>1. PICK a : a = 77 + x
      OBVIOUS
    <3>2. RowLies(b, a, i, r)
      BY <2>1, <2>2, <2>6, <3>1, Zenon DEF RowLies
    <3>3. RowRead(b, a + 1, i, r)
      BY <3>2, RowFound, Zenon
    <3> QED BY <3>1, <3>3 DEF RowRead
  <2>8. pos[i] = (77 + x) + 1 /\ pos[i + 1] = (77 + y) + 1
    BY <1>11, <2>2, <2>3
  <2>9. PICK e \in Nat : e = (IF r.discontinuity THEN 1 ELSE 0)
    OBVIOUS
  <2>10. (77 + y) + 1 = ((77 + x) + 1) + 16 + e
    <3>1. y = x + (16 + e)
      BY <2>4, <2>5, <2>9, Zenon
    <3> QED BY <3>1
  <2>11. RowAt(b, pos[i]) = r /\ Read(b, pos[i], 4) = i
    BY <2>7, <2>8, Zenon
  <2> QED BY <2>1, <2>8, <2>9, <2>10, <2>11, Zenon
<1>13. \A i \in 1..(n + 1) : RowPlaces(b, 91)[i] = pos[i]
  <2>1. pos[1] = 91
    <3>1. 1 \in 1..(n + 1)
      BY <1>2
    <3> QED BY <1>5, <1>11, <3>1
  <2>2. \A i \in 1..n : pos[i + 1] = pos[i] + 16 + (IF RowAt(b, pos[i]).discontinuity THEN 1 ELSE 0)
    BY <1>12
  <2>3. PICK p : p = 91
    OBVIOUS
  <2>4. Walked(b, p, n, pos)
    BY <1>1, <1>2, <2>1, <2>2, <2>3 DEF Walked
  <2>5. Reached(b, p, n, pos)
    BY <2>4, PlacesFound, Zenon
  <2> QED BY <2>3, <2>5 DEF Reached
<1>14. RowPlaces(b, 91)[n + 1] = Len(b) + 1
  <2>1. n + 1 \in 1..(n + 1)
    BY <1>2
  <2>2. pos[n + 1] = 77 + Len(c) + 1
    BY <1>5, <1>11, <2>1
  <2>3. 77 + Len(c) + 1 = Len(b) + 1
    BY <1>5, <1>7
  <2> QED BY <1>13, <2>1, <2>2, <2>3, Zenon
<1>15. ASSUME NEW i \in 1..n
       PROVE  RowAt(b, RowPlaces(b, 91)[i]) = table.rows[i] /\ Read(b, RowPlaces(b, 91)[i], 4) = i
  <2>1. i \in 1..(n + 1)
    BY <1>2
  <2> QED BY <1>12, <1>13, <2>1, Zenon
<1>16. Len(AbstHead) = 35 /\ Len(AsrtContent) = 17 /\ Len(AfrtHead) = 13
  <2>1. AbstHead = HeadOf(d) /\ AsrtContent = SegmentsOf(n) /\ AfrtHead = RunsOf(n)
    BY <1>1 DEF AbstHead, HeadOf, AsrtContent, SegmentsOf, AfrtHead, RunsOf
  <2> QED BY <1>2, <2>1, HeadOfIs, SegmentsOfIs, RunsOfIs, Zenon
<1>17. /\ IsBox(b, 1, ABST, Len(b)) /\ IsBox(b, 44, ASRT, 25)
       /\ IsBox(b, 70, AFRT, Len(b) + 1 - 70)
  <2>1. Len(c) + 8 = Len(b) + 1 - 70
    BY <1>5, <1>7
  <2> QED BY <1>6, <2>1, Zenon DEF Nested
<1>18. ShowsTable(b)
  <2>1. /\ 9 + Len(AbstHead) = 44 /\ 44 + 8 + Len(AsrtContent) + 1 = 70
        /\ 70 + 8 + Len(AfrtHead) = 91 /\ 91 - 4 = 87 /\ 44 + 8 + 5 + 8 = 65 /\ 9 + 13 = 22
        /\ 8 + Len(AsrtContent) = 25
    BY <1>16
  <2>2. \A i \in 1..Len(table.rows) :
          RowAt(b, RowPlaces(b, 91)[i]) = table.rows[i] /\ Read(b, RowPlaces(b, 91)[i], 4) = i
    BY <1>1, <1>15, Zenon
  <2> QED BY <1>1, <1>8, <1>9, <1>14, <1>17, <2>1, <2>2 DEF ShowsTable
<1> QED
  BY <1>1, <1>18

-----------------------------------------------------------------------------
(* The inductive invariant: the rows lie in their box, then the boxes are   *)
(* nested around them, and the letters stand for the bytes so far.          *)
MInv ==
  /\ table \in Tables /\ Rows
  /\ stage \in {"table", "encode", "done"}
  /\ stage = "table" => text = <<>> /\ ptr = 0
  /\ stage # "table" => Whole
  /\ stage = "encode" => Encoding(text, bootstrapinfo, ptr)
  /\ stage = "done" => Ended(text, bootstrapinfo)

LEMMA Contents ==
  ASSUME table \in Tables
  PROVE  /\ AfrtHead = RunsOf(Len(table.rows))
         /\ Box(ABST, AbstHead \o Box(ASRT, AsrtContent) \o <<1>> \o Box(AFRT, afrt))
              = InfoOf(table.duration, Len(table.rows), afrt)
<1>1. AfrtHead = RunsOf(Len(table.rows))
  BY DEF AfrtHead, RunsOf
<1>2. AbstHead = HeadOf(table.duration)
  BY DEF AbstHead, HeadOf
<1>3. AsrtContent = SegmentsOf(Len(table.rows))
  BY DEF AsrtContent, SegmentsOf
<1> QED
  BY <1>1, <1>2, <1>3, Zenon DEF InfoOf

LEMMA MInitially == MInit => MInv
<1> SUFFICES ASSUME MInit PROVE MInv
  OBVIOUS
<1>1. table \in Tables /\ afrt = AfrtHead /\ nrows = 0 /\ text = <<>> /\ ptr = 0 /\ stage = "table"
  BY DEF MInit
<1>2. Len(table.rows) \in Nat
  BY <1>1, TableIs
<1>3. afrt = RunsOf(Len(table.rows))
  BY <1>1, Contents, Zenon
<1>4. RowsIn(afrt, 0)
  BY <1>2, <1>3, RowsStart, Zenon DEF RowsIn
<1>5. Rows
  BY <1>1, <1>2, <1>4 DEF Rows
<1> QED
  BY <1>1, <1>5 DEF MInv

LEMMA StepAddRow ==
  ASSUME MInv, AddRow
  PROVE  MInv'
<1>1. /\ table \in Tables /\ Rows /\ text = <<>> /\ ptr = 0 /\ stage = "table"
      /\ nrows < Len(table.rows) /\ afrt' = afrt \o RowBytes(table.rows[nrows + 1])
      /\ nrows' = nrows + 1 /\ table' = table /\ text' = text /\ ptr' = ptr /\ stage' = stage
  BY DEF MInv, AddRow
<1>2. PICK n, rows : n \in Nat /\ n = nrows /\ rows = table.rows
  BY <1>1 DEF Rows
<1>3. afrt' = afrt \o RowOf(n + 1, rows[n + 1])
  BY <1>1, <1>2, Zenon DEF RowBytes, RowOf
<1>4. LiesAt(afrt, 0, RunsOf(Len(rows))) /\ \E at : RowsAt(afrt, at, n, rows)
  BY <1>1, <1>2, Zenon DEF Rows, RowsIn
<1>5. PICK at : RowsAt(afrt, at, n, rows)
  BY <1>4
<1>6. Len(rows) \in Nat /\ n < Len(rows) /\ \A i \in 1..Len(rows) : rows[i] \in Row
  BY <1>1, <1>2, TableIs
<1>7. \A i \in 1..(n + 1) : rows[i] \in Row
  BY <1>2, <1>6
<1>8. \E new : RowsAt(afrt', new, n + 1, rows)
  <2>1. PICK c : c = afrt
    OBVIOUS
  <2>2. \E new : RowsAt(c \o RowOf(n + 1, rows[n + 1]), new, n + 1, rows)
    BY <1>5, <1>7, <2>1, RowsMore, Zenon
  <2> QED BY <1>3, <2>1, <2>2, Zenon
<1>9. LiesAt(afrt', 0, RunsOf(Len(rows)))
  <2>1. PICK c, s, d : c = afrt /\ s = RunsOf(Len(rows)) /\ d = RowOf(n + 1, rows[n + 1])
    OBVIOUS
  <2>2. c \in Seq(Bytes) /\ 13 <= Len(c) /\ d \in Seq(Bytes) /\ s \in Seq(Bytes) /\ Len(s) = 13
    <3>1. n + 1 \in Nat /\ n + 1 \in 1..(n + 1) /\ \A i \in 1..n : i \in 1..(n + 1)
      BY <1>2
    <3>2. d \in Seq(Bytes)
      BY <1>7, <2>1, <3>1, RowOfIs, Zenon
    <3>3. s \in Seq(Bytes) /\ Len(s) = 13
      BY <1>6, <2>1, RunsOfIs, Zenon
    <3>4. c \in Seq(Bytes) /\ 13 <= Len(c)
      <4>1. \A i \in 1..n : rows[i] \in Row
        BY <1>7, <3>1
      <4> QED BY <1>5, <2>1, <4>1, ContentLength, Zenon
    <3> QED BY <3>2, <3>3, <3>4
  <2>3. LiesAt(c, 0, s) /\ Len(s) \in Nat /\ 0 + Len(s) <= Len(c)
    BY <1>4, <2>1, <2>2
  <2>4. LiesAt(c \o d, 0, s)
    BY <2>2, <2>3, LiesLonger, Zenon
  <2> QED BY <1>3, <2>1, <2>4, Zenon
<1>10. Rows'
  <2>1. RowsIn(afrt, nrows)'
    BY <1>1, <1>2, <1>8, <1>9 DEF RowsIn
  <2>2. nrows' \in Nat /\ nrows' <= Len(table'.rows)
    BY <1>1, <1>2, <1>6
  <2> QED BY <2>1, <2>2, Zenon DEF Rows
<1> QED
  BY <1>1, <1>10 DEF MInv

LEMMA StepCloseBoxes ==
  ASSUME MInv, CloseBoxes
  PROVE  MInv'
<1>1. /\ table \in Tables /\ Rows /\ text = <<>> /\ ptr = 0 /\ nrows = Len(table.rows)
      /\ bootstrapinfo' = Box(ABST, AbstHead \o Box(ASRT, AsrtContent) \o <<1>> \o Box(AFRT, afrt))
      /\ table' = table /\ afrt' = afrt /\ nrows' = nrows /\ text' = text /\ ptr' = ptr
      /\ stage' = "encode"
  BY DEF MInv, CloseBoxes
<1>2. bootstrapinfo' = InfoOf(table.duration, Len(table.rows), afrt)
  BY <1>1, Contents, Zenon
<1>3. afrt \in Seq(Bytes)
  BY <1>1 DEF Rows, RowsIn, RowsAt
<1>4. bootstrapinfo' \in Seq(Bytes)
  <2>1. Len(table.rows) \in Nat /\ table.duration \in Nat
    BY <1>1, TableIs
  <2> QED BY <1>2, <1>3, <2>1, InfoIs, Zenon
<1>5. Encoding(<<>>, bootstrapinfo', 0)
  <2>1. Encoded(<<>>, bootstrapinfo', 0)
    BY DEF Encoded
  <2>2. 0 = 3 * 0 /\ 0 \in Nat /\ 0 <= Len(bootstrapinfo')
    BY <1>4
  <2>3. \A i \in 1..Len(<<>>) : <<>>[i] \in Below
    OBVIOUS
  <2> QED BY <1>4, <2>1, <2>2, <2>3, Zenon DEF Encoding
<1>6. Rows' /\ Whole'
  BY <1>1, <1>2 DEF Rows, RowsIn, Whole
<1>7. Encoding(text', bootstrapinfo', ptr')
  BY <1>1, <1>5, Zenon
<1> QED
  BY <1>1, <1>6, <1>7 DEF MInv

LEMMA StepEncodeTriple ==
  ASSUME MInv, EncodeTriple
  PROVE  MInv'
<1>1. /\ table \in Tables /\ Rows /\ Whole /\ Encoding(text, bootstrapinfo, ptr)
      /\ stage = "encode" /\ Len(bootstrapinfo) - ptr >= 3 /\ ptr' = ptr + 3
      /\ table' = table /\ afrt' = afrt /\ nrows' = nrows /\ bootstrapinfo' = bootstrapinfo
      /\ stage' = stage
  BY DEF MInv, EncodeTriple, Left
<1>2. PICK t, b, p : t = text /\ b = bootstrapinfo /\ p = ptr
  OBVIOUS
<1>3. text' = t \o <<High6(b[p + 1]), Low2(b[p + 1]) + High4(b[p + 2]),
                     Low4(b[p + 2]) + High2(b[p + 3]), Low6(b[p + 3])>>
  BY <1>2, Zenon DEF EncodeTriple, Byte
<1>4. Encoding(text', b, p + 3)
  <2>1. Encoding(t, b, p) /\ Len(b) - p >= 3
    BY <1>1, <1>2
  <2> QED BY <1>3, <2>1, TripleStep, Zenon
<1>5. Encoding(text', bootstrapinfo', ptr')
  BY <1>1, <1>2, <1>4, Zenon
<1>6. Rows' /\ Whole'
  BY <1>1 DEF Rows, RowsIn, Whole
<1> QED
  BY <1>1, <1>5, <1>6 DEF MInv

LEMMA StepEncodeRest ==
  ASSUME MInv, EncodeRest
  PROVE  MInv'
<1>1. /\ table \in Tables /\ Rows /\ Whole /\ Encoding(text, bootstrapinfo, ptr)
      /\ stage = "encode" /\ Len(bootstrapinfo) - ptr < 3 /\ text' = text \o RestLetters
      /\ table' = table /\ afrt' = afrt /\ nrows' = nrows /\ bootstrapinfo' = bootstrapinfo
      /\ stage' = "done"
  BY DEF MInv, EncodeRest, Left
<1>2. PICK t, b, p : t = text /\ b = bootstrapinfo /\ p = ptr
  OBVIOUS
<1>3. Encoding(t, b, p)
  BY <1>1, <1>2
<1>4. t \in Seq(Nat) /\ b \in Seq(Bytes) /\ p \in Nat /\ p <= Len(b) /\ Len(b) - p < 3
  BY <1>1, <1>2, <1>3 DEF Encoding, Encoded
<1>5. Ended(text', b)
  <2>1. CASE Len(b) = p
    <3>1. RestLetters = <<>>
      <4>1. Left = 0
        BY <1>2, <1>4, <2>1 DEF Left
      <4> QED BY <4>1 DEF RestLetters
    <3>2. text' = t
      BY <1>1, <1>2, <1>4, <3>1
    <3> QED BY <1>3, <2>1, <3>2, RestNone, Zenon
  <2>2. CASE Len(b) = p + 1
    <3>1. RestLetters = <<High6(b[p + 1]), Low2(b[p + 1]), PAD, PAD>>
      <4>1. Left = 1
        BY <1>2, <1>4, <2>2 DEF Left
      <4> QED BY <1>2, <4>1 DEF RestLetters, Byte
    <3> QED BY <1>1, <1>2, <1>3, <2>2, <3>1, RestOne, Zenon
  <2>3. CASE Len(b) = p + 2
    <3>1. RestLetters = <<High6(b[p + 1]), Low2(b[p + 1]) + High4(b[p + 2]), Low4(b[p + 2]), PAD>>
      <4>1. Left = 2
        BY <1>2, <1>4, <2>3 DEF Left
      <4> QED BY <1>2, <4>1 DEF RestLetters, Byte
    <3> QED BY <1>1, <1>2, <1>3, <2>3, <3>1, RestTwo, Zenon
  <2> QED BY <1>4, <2>1, <2>2, <2>3
<1>6. Ended(text', bootstrapinfo')
  BY <1>1, <1>2, <1>5, Zenon
<1>7. Rows' /\ Whole'
  BY <1>1 DEF Rows, RowsIn, Whole
<1> QED
  BY <1>1, <1>6, <1>7 DEF MInv

THEOREM MInvariance == MSpec => []MInv
<1>1. ASSUME MInv, [MNext]_mvars PROVE MInv'
  <2>1. CASE AddRow
    BY <1>1, <2>1, StepAddRow
  <2>2. CASE CloseBoxes
    BY <1>1, <2>2, StepCloseBoxes
  <2>3. CASE EncodeTriple
    BY <1>1, <2>3, StepEncodeTriple
  <2>4. CASE EncodeRest
    BY <1>1, <2>4, StepEncodeRest
  <2>5. CASE UNCHANGED mvars
    <3>1. /\ table' = table /\ afrt' = afrt /\ nrows' = nrows /\ bootstrapinfo' = bootstrapinfo
          /\ ptr' = ptr /\ text' = text /\ stage' = stage
      BY <2>5 DEF mvars
    <3>2. Rows' <=> Rows
      BY <3>1 DEF Rows, RowsIn
    <3>3. Whole' <=> Whole
      BY <3>1 DEF Whole
    <3> QED BY <1>1, <3>1, <3>2, <3>3, Zenon DEF MInv
  <2> QED BY <1>1, <2>1, <2>2, <2>3, <2>4, <2>5 DEF MNext
<1> QED
  BY MInitially, <1>1, PTL DEF MSpec

(* A player that decodes the bootstrap information finds the rows of the    *)
(* run table where the sizes of the boxes say, if no row is without both    *)
(* duration and mark and the whole is below 4 GiB.                          *)
THEOREM ReaderFindsRowsHolds == MSpec => []ReaderFindsRows
<1>1. ASSUME MInv PROVE ReaderFindsRows
  <2> SUFFICES ASSUME stage = "done"
               PROVE  /\ Decoded = bootstrapinfo
                      /\ Len(bootstrapinfo) < WORD /\ Marked => ShowsTable(Decoded)
    BY Zenon DEF ReaderFindsRows, Marked
  <2>1. table \in Tables /\ Rows /\ Whole /\ Ended(text, bootstrapinfo)
    BY <1>1 DEF MInv
  <2>2. Decoded = bootstrapinfo
    BY <2>1, DecodedWhole
  <2>3. Len(bootstrapinfo) < WORD /\ Marked => ShowsTable(bootstrapinfo)
    BY <2>1, Shown
  <2> QED BY <2>2, <2>3, Zenon
<1> QED
  BY <1>1, MInvariance, PTL
=============================================================================
