---------------------------- MODULE NumberFacts ----------------------------
(* Facts about numbers that several proofs need: division by a constant     *)
(* that is not known, induction over the naturals, elements of sequences.   *)
EXTENDS Integers, Sequences, TLAPS, NaturalsInduction, WellFoundedInduction

(* Quotient and remainder make up the number. *)
LEMMA Division ==
  ASSUME NEW a \in Int, NEW n \in Nat \ {0}
  PROVE  a \div n \in Int /\ a % n \in 0..(n - 1) /\ a = n * (a \div n) + (a % n)
OBVIOUS

(* They are the only ones that do. *)
LEMMA DivisionUnique ==
  ASSUME NEW n \in Nat \ {0}, NEW q \in Int, NEW p \in Int,
         NEW r \in 0..(n - 1), NEW s \in 0..(n - 1), n * q + r = n * p + s
  PROVE  q = p /\ r = s
<1>1. n * (q - p) = s - r
  OBVIOUS
<1>2. CASE q - p >= 1
  <2>1. n * (q - p) >= n
    BY <1>2
  <2> QED BY <1>1, <2>1
<1>3. CASE q - p <= -1
  <2>1. n * (q - p) <= -n
    BY <1>3
  <2> QED BY <1>1, <2>1
<1>4. CASE q = p
  BY <1>1, <1>4
<1> QED
  BY <1>2, <1>3, <1>4

(* A number is its quotient and remainder once it is written as such. *)
LEMMA DivisionIs ==
  ASSUME NEW n \in Nat \ {0}, NEW q \in Int, NEW r \in 0..(n - 1), NEW a \in Int, a = n * q + r
  PROVE  a \div n = q /\ a % n = r
<1> DEFINE p == a \div n
           s == a % n
<1>1. p \in Int /\ s \in 0..(n - 1) /\ a = n * p + s
  BY Division
<1> HIDE DEF p, s
<1>2. n * p + s = n * q + r
  BY <1>1
<1>3. p = q /\ s = r
  BY <1>1, <1>2, DivisionUnique, ZenonT(60)
<1> QED
  BY <1>3 DEF p, s

(* The quotient of a sum misses the sum of the quotients by one at most,    *)
(* and then neither number is a multiple.                                   *)
LEMMA QuotientOfSum ==
  ASSUME NEW a \in Nat, NEW b \in Nat, NEW n \in Nat \ {0}
  PROVE  \/ (a + b) \div n = (a \div n) + (b \div n)
         \/ (a + b) \div n = (a \div n) + (b \div n) + 1 /\ a % n # 0 /\ b % n # 0
<1> DEFINE q == a \div n
           r == a % n
           p == b \div n
           s == b % n
<1>1. /\ q \in Int /\ r \in 0..(n - 1) /\ a = n * q + r
      /\ p \in Int /\ s \in 0..(n - 1) /\ b = n * p + s
  BY Division
<1> HIDE DEF q, r, p, s
<1>2. CASE r + s < n
  <2> DEFINE t == q + p
             u == r + s
             c == a + b
  <2>1. c = n * t + u /\ u \in 0..(n - 1) /\ t \in Int /\ c \in Int
    BY <1>1, <1>2
  <2> HIDE DEF t, u, c
  <2>2. c \div n = t
    BY <2>1, DivisionIs
  <2> QED BY <2>2 DEF c, t, q, p
<1>3. CASE r + s >= n
  <2> DEFINE t == q + p + 1
             u == r + s - n
             c == a + b
  <2>1. c = n * t + u /\ u \in 0..(n - 1) /\ t \in Int /\ c \in Int
    BY <1>1, <1>3
  <2> HIDE DEF t, u, c
  <2>2. c \div n = t
    BY <2>1, DivisionIs
  <2>3. r # 0 /\ s # 0
    BY <1>1, <1>3
  <2> QED BY <2>2, <2>3 DEF c, t, q, p, r, s
<1> QED
  BY <1>1, <1>2, <1>3

(* Reducing the terms of a sum does not change its remainder. *)
LEMMA RemainderOfSum ==
  ASSUME NEW a \in Int, NEW b \in Int, NEW c \in Int, NEW n \in Nat \ {0}
  PROVE  ((a % n) + (b % n) + c) % n = (a + b + c) % n
<1> DEFINE q == a \div n
           r == a % n
           p == b \div n
           s == b % n
           t == (r + s + c) \div n
           u == (r + s + c) % n
<1>1. /\ q \in Int /\ r \in 0..(n - 1) /\ a = n * q + r
      /\ p \in Int /\ s \in 0..(n - 1) /\ b = n * p + s
  BY Division
<1> HIDE DEF q, r, p, s
<1>2. t \in Int /\ u \in 0..(n - 1) /\ r + s + c = n * t + u
  BY <1>1, Division
<1> HIDE DEF t, u
<1>3. a + b + c = n * (q + p + t) + u /\ q + p + t \in Int
  BY <1>1, <1>2
<1>4. (a + b + c) % n = u
  BY <1>2, <1>3, DivisionIs
<1> QED
  BY <1>4 DEF u, r, s

(* A set of naturals that is not empty has a least element. *)
LEMMA LeastElement ==
  ASSUME NEW T, T \subseteq Nat, T # {}
  PROVE  \E x \in T : \A y \in T : x <= y
<1> DEFINE R == OpToRel(<, Nat)
<1>1. IsWellFoundedOn(R, Nat)
  BY NatLessThanWellFounded
<1>2. \A x, y \in Nat : y < x => <<y, x>> \in R
  BY DEF OpToRel
<1> HIDE DEF R
<1>3. PICK x \in T : \A y \in T : ~(<<y, x>> \in R)
  BY <1>1, WFMin
<1>4. ASSUME NEW y \in T PROVE x <= y
  <2>1. y \in Nat /\ x \in Nat
    OBVIOUS
  <2>2. ~(y < x)
    BY <1>2, <1>3, <2>1
  <2> QED BY <2>1, <2>2
<1> QED
  BY <1>4

(* One that is bounded has a greatest element. *)
LEMMA GreatestElement ==
  ASSUME NEW T, T \subseteq Nat, T # {}, NEW n \in Nat, \A x \in T : x <= n
  PROVE  \E x \in T : \A y \in T : y <= x
<1> DEFINE B == {u \in Nat : \A x \in T : x <= u}
<1>1. PICK u \in B : \A v \in B : u <= v
  <2>1. B \subseteq Nat /\ n \in B
    OBVIOUS
  <2> HIDE DEF B
  <2> QED BY <2>1, LeastElement
<1>2. u \in Nat /\ \A x \in T : x <= u
  OBVIOUS
<1>3. u \in T
  <2> SUFFICES ASSUME u \notin T PROVE FALSE
    OBVIOUS
  <2>1. PICK x : x \in T
    OBVIOUS
  <2>2. u - 1 \in Nat
    BY <1>2, <2>1
  <2>3. \A y \in T : y <= u - 1
    BY <1>2
  <2>4. u - 1 \in B
    BY <2>2, <2>3
  <2> HIDE DEF B
  <2>5. u <= u - 1
    BY <1>1, <2>4
  <2> QED BY <1>2, <2>5
<1> QED
  BY <1>2, <1>3

(* Induction: a set with 0 and the successors of its elements is Nat. *)
LEMMA Induction ==
  ASSUME NEW P, 0 \in P, \A n \in Nat : n \in P => n + 1 \in P
  PROVE  \A n \in Nat : n \in P
<1> DEFINE T == Nat \ P
<1> SUFFICES ASSUME T # {} PROVE FALSE
  OBVIOUS
<1>1. PICK x \in T : \A y \in T : x <= y
  BY LeastElement
<1>2. x # 0 /\ x - 1 \in Nat
  OBVIOUS
<1>3. x - 1 \in P
  BY <1>1, <1>2
<1>4. (x - 1) + 1 \in P
  BY <1>2, <1>3
<1> QED
  BY <1>4

(* An element of a sequence. *)
LEMMA ElementOf ==
  ASSUME NEW S, NEW s \in Seq(S), NEW i \in 1..Len(s)
  PROVE  s[i] \in S
OBVIOUS
=============================================================================
