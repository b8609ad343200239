----------------------------- MODULE Remainders -----------------------------
(* Lemmas about remainders, which the provers do not find by themselves    *)
(* when the divisor is a variable: the numbers of pictures are remainders. *)
EXTENDS Naturals, TLAPS

(* The remainder is below the divisor.                                     *)
LEMMA ModRange == ASSUME NEW a \in Nat, NEW d \in Nat \ {0}
                  PROVE  a % d \in 0 .. d - 1
  OBVIOUS

(* Multiples keep their order.                                             *)
LEMMA TimesKeeps == ASSUME NEW a \in Nat, NEW b \in Nat, NEW g \in Nat, a <= b
                    PROVE  a * g <= b * g /\ a * g \in Nat
  OBVIOUS

(* A number and its quotient.                                              *)
LEMMA DivMod == ASSUME NEW a \in Nat, NEW d \in Nat \ {0}
                PROVE  a \div d \in Nat /\ a = d * (a \div d) + (a % d)
  OBVIOUS

(* Two multiples of d that are not the same are d apart.                   *)
LEMMA MultiplesApart ==
    ASSUME NEW d \in Nat \ {0}, NEW p \in Nat, NEW q \in Nat, p < q
    PROVE  d * p \in Nat /\ d * q \in Nat /\ d * p + d <= d * q
<1>1. (p + 1) * d <= q * d
  BY TimesKeeps
<1>2. (p + 1) * d = d * p + d /\ q * d = d * q
  OBVIOUS
<1>3. d * p \in Nat /\ d * q \in Nat
  BY TimesKeeps
<1> QED
  BY <1>1, <1>2, <1>3

(* There is only one remainder.                                            *)
LEMMA ModUnique ==
    ASSUME NEW a \in Nat, NEW d \in Nat \ {0}, NEW q \in Nat, NEW r \in 0 .. d - 1,
           a = d * q + r
    PROVE  a % d = r
<1> DEFINE p == a \div d
           s == a % d
<1>1. p \in Nat /\ s \in 0 .. d - 1 /\ a = d * p + s
  BY DivMod, ModRange
<1> SUFFICES s = r
  OBVIOUS
<1> HIDE DEF p, s
<1>2. CASE p < q
  <2>1. d * p \in Nat /\ d * q \in Nat /\ d * p + d <= d * q
    BY <1>1, <1>2, MultiplesApart
  <2> QED
    BY <1>1, <2>1
<1>3. CASE q < p
  <2>1. d * p \in Nat /\ d * q \in Nat /\ d * q + d <= d * p
    BY <1>1, <1>3, MultiplesApart
  <2> QED
    BY <1>1, <2>1
<1>4. CASE p = q
  <2>1. d * q \in Nat
    BY TimesKeeps
  <2> QED
    BY <1>1, <1>4, <2>1
<1> QED
  BY <1>1, <1>2, <1>3, <1>4

(* A number below the divisor is its own remainder.                        *)
LEMMA ModSmall == ASSUME NEW a \in Nat, NEW d \in Nat \ {0}, a < d PROVE a % d = a
<1>1. a \in 0 .. d - 1 /\ a = d * 0 + a
  OBVIOUS
<1> QED
  BY <1>1, ModUnique

(* The remainder of the next number is one above, or 0 again.              *)
LEMMA ModNext == ASSUME NEW a \in Nat, NEW d \in Nat \ {0}
                 PROVE  (a + 1) % d = IF (a % d) + 1 = d THEN 0 ELSE (a % d) + 1
<1> DEFINE q == a \div d
           r == a % d
<1>1. q \in Nat /\ r \in 0 .. d - 1 /\ a = d * q + r
  BY DivMod, ModRange
<1> SUFFICES (a + 1) % d = IF r + 1 = d THEN 0 ELSE r + 1
  OBVIOUS
<1> HIDE DEF q, r
<1>2. d * q \in Nat
  BY <1>1, TimesKeeps
<1>3. CASE r + 1 # d
  <2>1. r + 1 \in 0 .. d - 1 /\ a + 1 = d * q + (r + 1) /\ a + 1 \in Nat
    BY <1>1, <1>2, <1>3
  <2> QED
    BY <1>1, <1>3, <2>1, ModUnique
<1>4. CASE r + 1 = d
  <2>1. d * (q + 1) = d * q + d
    BY <1>1
  <2>2. 0 \in 0 .. d - 1 /\ a + 1 = d * (q + 1) + 0 /\ a + 1 \in Nat /\ q + 1 \in Nat
    BY <1>1, <1>2, <1>4, <2>1
  <2>3. (a + 1) % d = 0
    BY <2>2, ModUnique
  <2> QED
    BY <1>4, <2>3
<1> QED
  BY <1>3, <1>4

(* A remainder that is not 0 is one above that of the number before.       *)
LEMMA ModSteps == ASSUME NEW a \in Nat, NEW d \in Nat \ {0}, (a + 1) % d # 0
                  PROVE  (a + 1) % d = (a % d) + 1
  BY ModNext

(* When the remainder of b is one above that of a, b is one more than a    *)
(* and a multiple.                                                         *)
LEMMA ModApart ==
    ASSUME NEW a \in Nat, NEW b \in Nat, NEW d \in Nat \ {0}, a < b, b % d = (a % d) + 1
    PROVE  (b - a) % d = 1 /\ 1 % d = 1
<1> DEFINE p == a \div d
           q == b \div d
           r == a % d
<1>1. p \in Nat /\ r \in 0 .. d - 1 /\ a = d * p + r
  BY DivMod, ModRange
<1>2. q \in Nat /\ r + 1 \in 0 .. d - 1 /\ b = d * q + (r + 1)
  BY DivMod, ModRange
<1> HIDE DEF p, q, r
<1>3. d * p \in Nat /\ d * q \in Nat
  BY <1>1, <1>2, TimesKeeps
<1>4. p <= q
  <2>1. CASE q < p
    <3>1. d * q + d <= d * p
      BY <1>1, <1>2, <2>1, MultiplesApart
    <3> QED
      BY <1>1, <1>2, <1>3, <3>1
  <2> QED
    BY <1>1, <1>2, <2>1
<1>5. q - p \in Nat /\ d * (q - p) = d * q - d * p
  BY <1>1, <1>2, <1>4
<1>6. 1 \in 0 .. d - 1
  BY <1>1, <1>2
<1>7. b - a \in Nat /\ b - a = d * (q - p) + 1
  BY <1>1, <1>2, <1>3, <1>5
<1>8. (b - a) % d = 1
  BY <1>5, <1>6, <1>7, ModUnique
<1>9. 1 = d * 0 + 1
  OBVIOUS
<1> QED
  BY <1>6, <1>8, <1>9, ModUnique

(* A remainder a that is one above after k more: k is one and a multiple.  *)
LEMMA ModAhead ==
    ASSUME NEW a \in Nat, NEW k \in Nat, NEW d \in Nat \ {0}, a < d, 0 < k, (a + k) % d = a + 1
    PROVE  k % d = 1 /\ 1 % d = 1
<1> DEFINE b == a + k
<1>1. b \in Nat /\ a < b /\ b - a = k
  OBVIOUS
<1>2. b % d = a + 1
  OBVIOUS
<1> HIDE DEF b
<1>3. a % d = a
  BY ModSmall
<1>4. b % d = (a % d) + 1
  BY <1>2, <1>3
<1>5. (b - a) % d = 1 /\ 1 % d = 1
  BY <1>1, <1>4, ModApart
<1> QED
  BY <1>1, <1>5
=============================================================================
