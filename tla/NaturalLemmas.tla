--------------------------- MODULE NaturalLemmas ---------------------------
(***************************************************************************)
(* What the proofs need of natural numbers: induction for a given set, and *)
(* division with its remainder.                                            *)
(***************************************************************************)
EXTENDS Integers, WellFoundedInduction, TLAPS

(* The least-number principle for a given set.                             *)
LEMMA LeastNatural ==
  ASSUME NEW S, S \subseteq Nat, S # {}
  PROVE  \E m \in S : \A k \in S : m <= k
<1> DEFINE less == {ss \in Nat \X Nat : ss[1] < ss[2]}
<1>1. IsWellFoundedOn(less, Nat)
  BY NatLessThanWellFounded DEF OpToRel
<1>2. PICK m \in S : \A k \in S : ~ (<<k, m>> \in less)
  <2> HIDE DEF less
  <2> QED BY <1>1, WFMin
<1>3. \A k \in S : ~ (k < m)
  BY <1>2
<1> QED BY <1>3

(* Induction for a given set of natural numbers.                           *)
LEMMA SetInduction ==
  ASSUME NEW S, 0 \in S, \A n \in Nat : n \in S => n + 1 \in S
  PROVE  Nat \subseteq S
<1> SUFFICES ASSUME Nat \ S # {} PROVE FALSE
  OBVIOUS
<1>1. PICK m \in Nat \ S : \A k \in Nat \ S : m <= k
  BY LeastNatural
<1>2. m - 1 \in Nat
  BY <1>1
<1>3. m - 1 \in S
  BY <1>1, <1>2
<1> QED BY <1>1, <1>2, <1>3

-----------------------------------------------------------------------------
LEMMA Division ==
  ASSUME NEW a \in Nat, NEW n \in Nat \ {0}
  PROVE  /\ a \div n \in Nat
         /\ a % n \in 0 .. n - 1
         /\ a = n * (a \div n) + (a % n)
         /\ n * (a \div n) <= a
OBVIOUS

LEMMA Quotient ==
  ASSUME NEW n \in Nat \ {0}, NEW q \in Int, NEW p \in Int, NEW r \in 0 .. n - 1,
         n * q = n * p + r
  PROVE  q = p /\ r = 0
<1>1. n * (q - p) = r
  OBVIOUS
<1>2. q - p >= 1 => n * (q - p) >= n
  OBVIOUS
<1>3. q - p <= -1 => n * (q - p) <= -n
  OBVIOUS
<1>4. q - p = 0
  <2> DEFINE d == q - p
  <2> HIDE DEF d
  <2>1. d \in Int
    BY DEF d
  <2> QED BY <1>1, <1>2, <1>3, <2>1 DEF d
<1> QED BY <1>4, <1>1

LEMMA ModRange ==
  ASSUME NEW a \in Int, NEW b \in Nat \ {0}
  PROVE  a % b \in 0 .. b - 1
OBVIOUS

LEMMA ModSmall ==
  ASSUME NEW b \in Nat \ {0}, NEW a \in 0 .. b - 1
  PROVE  a % b = a
OBVIOUS

LEMMA ModOnce ==
  ASSUME NEW b \in Nat \ {0}, NEW a \in b .. 2 * b - 1
  PROVE  a % b = a - b
OBVIOUS

(* There is one quotient and one remainder.                                *)
LEMMA DivisionUnique ==
  ASSUME NEW n \in Nat \ {0}, NEW q \in Nat, NEW r \in 0 .. n - 1
  PROVE  (n * q + r) \div n = q /\ (n * q + r) % n = r
<1> DEFINE a == n * q + r
<1>1. n * q \in Nat
  OBVIOUS
<1>2. a \in Nat
  BY <1>1
<1>3. PICK p, s : p = a \div n /\ s = a % n
  OBVIOUS
<1>4. p \in Nat /\ s \in 0 .. n - 1 /\ a = n * p + s
  BY <1>2, <1>3, Division
<1>5. CASE s >= r
  <2>1. n * q = n * p + (s - r) /\ s - r \in 0 .. n - 1
    BY <1>1, <1>4, <1>5
  <2>2. q = p /\ s - r = 0
    BY <1>4, <2>1, Quotient
  <2> QED BY <1>3, <1>4, <2>2
<1>6. CASE r > s
  <2>1. n * p = n * q + (r - s) /\ r - s \in 0 .. n - 1
    BY <1>1, <1>4, <1>6
  <2>2. p = q /\ r - s = 0
    BY <1>4, <2>1, Quotient
  <2> QED BY <1>3, <1>4, <2>2
<1> QED BY <1>4, <1>5, <1>6

(* A remainder may be taken before an addition too.                        *)
LEMMA ModAdd ==
  ASSUME NEW n \in Nat \ {0}, NEW x \in Nat, NEW c \in Nat
  PROVE  ((x % n) + c) % n = (x + c) % n
<1>1. PICK q, r : q = x \div n /\ r = x % n
  OBVIOUS
<1>2. q \in Nat /\ r \in Nat /\ x = n * q + r
  BY <1>1, Division
<1>3. PICK sum : sum = r + c
  OBVIOUS
<1>4. sum \in Nat
  BY <1>2, <1>3
<1>5. PICK p, s : p = sum \div n /\ s = sum % n
  OBVIOUS
<1>6. p \in Nat /\ s \in 0 .. n - 1 /\ sum = n * p + s
  BY <1>4, <1>5, Division
<1>7. n * (q + p) = n * q + n * p /\ n * q \in Nat /\ n * p \in Nat /\ q + p \in Nat
  BY <1>2, <1>6
<1>8. PICK m : m = q + p
  OBVIOUS
<1>9. m \in Nat /\ x + c = n * m + s
  BY <1>2, <1>3, <1>6, <1>7, <1>8
<1>10. (n * m + s) % n = s
  BY <1>6, <1>9, DivisionUnique
<1> QED BY <1>1, <1>3, <1>5, <1>9, <1>10

=============================================================================
