------------------------------- MODULE ModArith -------------------------------
(***************************************************************************)
(* Facts about % and \div by an unspecified positive divisor: the program's *)
(* ring indices are i % Depth and its counters wrap at a multiple of Depth. *)
(***************************************************************************)
EXTENDS Integers, TLAPS

(* Quotient and remainder, as a definition to start from.                  *)
LEMMA DivMod ==
    ASSUME NEW a \in Int, NEW d \in Nat \ {0}
    PROVE  /\ a \div d \in Int
           /\ a % d \in 0 .. d - 1
           /\ a = d * (a \div d) + (a % d)
  OBVIOUS

(* A multiple of d is d times its quotient.                                *)
LEMMA DivExact ==
    ASSUME NEW a \in Int, NEW d \in Nat \ {0}, a % d = 0
    PROVE  a \div d \in Int /\ a = d * (a \div d)
  OBVIOUS

(* Whatever has the shape of a quotient and a remainder is them.           *)
LEMMA DivModUnique ==
    ASSUME NEW d \in Nat \ {0}, NEW a \in Int, NEW q \in Int,
           NEW r \in 0 .. d - 1, a = d * q + r
    PROVE  a \div d = q /\ a % d = r
  OBVIOUS

(* A number below the divisor is its own remainder.                        *)
LEMMA ModSmall ==
    ASSUME NEW d \in Nat \ {0}, NEW a \in 0 .. d - 1
    PROVE  a % d = a /\ a \div d = 0
  <1>1. a = d * 0 + a  OBVIOUS
  <1>2. QED  BY <1>1, DivModUnique

(* Moving by k whole divisors moves the quotient by k.                     *)
LEMMA ModShift ==
    ASSUME NEW d \in Nat \ {0}, NEW a \in Int, NEW k \in Int
    PROVE  (a + d * k) % d = a % d /\ (a + d * k) \div d = (a \div d) + k
  <1> DEFINE q == a \div d
             r == a % d
             b == a + d * k
  <1>1. q \in Int /\ r \in 0 .. d - 1 /\ a = d * q + r  BY DivMod
  <1>2. b \in Int /\ q + k \in Int  BY <1>1
  <1> HIDE DEF q, r
  <1>3. b = d * (q + k) + r  BY <1>1
  <1> HIDE DEF b
  <1>4. b \div d = q + k /\ b % d = r  BY <1>1, <1>2, <1>3, DivModUnique
  <1>5. QED  BY <1>4 DEF b, q, r

(* One pass later the remainder is the same and the quotient one more.     *)
LEMMA ModPass ==
    ASSUME NEW d \in Nat \ {0}, NEW a \in Int
    PROVE  (a + d) % d = a % d /\ (a + d) \div d = (a \div d) + 1
  <1>1. d * 1 = d /\ 1 \in Int  OBVIOUS
  <1>2. (a + d * 1) % d = a % d /\ (a + d * 1) \div d = (a \div d) + 1
    BY <1>1, ModShift
  <1>3. QED  BY <1>1, <1>2

(* The successor either wraps to 0, with a new quotient, or does not.      *)
LEMMA ModSucc ==
    ASSUME NEW d \in Nat \ {0}, NEW a \in Int
    PROVE  /\ (a + 1) % d = 0 => (a + 1) \div d = (a \div d) + 1
           /\ (a + 1) % d # 0 => (a + 1) \div d = a \div d
  <1> DEFINE q == a \div d
             r == a % d
             b == a + 1
  <1>1. q \in Int /\ r \in 0 .. d - 1 /\ a = d * q + r  BY DivMod
  <1> HIDE DEF q, r
  <1>2. b \in Int /\ q + 1 \in Int  BY <1>1
  <1>3. CASE r = d - 1
    <2>1. b = d * (q + 1) + 0 /\ 0 \in 0 .. d - 1  BY <1>1, <1>3
    <2>2. b \div d = q + 1 /\ b % d = 0
      <3> HIDE DEF b
      <3> QED  BY <1>2, <2>1, DivModUnique
    <2>3. QED  BY <2>2 DEF q
  <1>4. CASE r # d - 1
    <2>1. b = d * q + (r + 1) /\ r + 1 \in 0 .. d - 1  BY <1>1, <1>4
    <2>2. b \div d = q /\ b % d = r + 1
      <3> HIDE DEF b
      <3> QED  BY <1>1, <1>2, <2>1, DivModUnique
    <2>3. r + 1 # 0  BY <1>1
    <2>4. QED  BY <2>2, <2>3 DEF q
  <1>5. QED  BY <1>3, <1>4

(* A multiple of d between -d and d is 0.                                  *)
LEMMA MulSmall ==
    ASSUME NEW d \in Nat \ {0}, NEW k \in Int, 0 < d * k
    PROVE  d <= d * k
  <1>1. k >= 1  OBVIOUS
  <1>2. QED  BY <1>1

(* Numbers less than d apart have different remainders.                    *)
LEMMA ModInjective ==
    ASSUME NEW d \in Nat \ {0}, NEW a \in Int, NEW b \in Int,
           a < b, b < a + d
    PROVE  a % d # b % d
  <1> SUFFICES ASSUME a % d = b % d PROVE FALSE
    OBVIOUS
  <1> DEFINE p == a \div d
             q == b \div d
             r == a % d
  <1>1. p \in Int /\ r \in 0 .. d - 1 /\ a = d * p + r  BY DivMod
  <1>2. q \in Int /\ b = d * q + r  BY DivMod
  <1> HIDE DEF p, q, r
  <1>3. b - a = d * (q - p) /\ q - p \in Int  BY <1>1, <1>2
  <1>4. 0 < d * (q - p)  BY <1>3
  <1>5. d <= d * (q - p)  BY <1>3, <1>4, MulSmall
  <1>6. QED  BY <1>3, <1>5

(* What a multiple of d divides, d divides.                                *)
LEMMA ModFactor ==
    ASSUME NEW d \in Nat \ {0}, NEW e \in Nat \ {0}, NEW m \in Nat \ {0},
           NEW c \in Nat \ {0}, m % c = 0
    PROVE  c = d * e => m % d = 0
  <1> DEFINE k == m \div c
  <1>1. k \in Int /\ m = c * k + (m % c)  BY DivMod
  <1> HIDE DEF k
  <1> HAVE c = d * e
  <1>2. m = c * k /\ e * k \in Int  BY <1>1
  <1>3. c * k = d * (e * k)  BY <1>1
  <1>4. m = 0 + d * (e * k)  BY <1>1, <1>2, <1>3
  <1>5. (0 + d * (e * k)) % d = 0 % d  BY <1>2, ModShift
  <1>6. 0 % d = 0  BY ModSmall
  <1>7. QED  BY <1>4, <1>5, <1>6

(* Reducing modulo a multiple of d first changes nothing modulo d.         *)
LEMMA ModOfMod ==
    ASSUME NEW d \in Nat \ {0}, NEW m \in Nat \ {0}, m % d = 0, NEW a \in Int
    PROVE  (a % m) % d = a % d
  <1> DEFINE k == m \div d
             q == a \div m
             b == a % m
  <1>1. k \in Int /\ m = d * k
    <2>1. k \in Int /\ m = d * k + (m % d)  BY DivMod
    <2>2. QED  BY <2>1
  <1>2. q \in Int /\ b \in Int /\ a = m * q + b  BY DivMod
  <1> HIDE DEF k, q, b
  <1>3. k * q \in Int  BY <1>1, <1>2
  <1>4. m * q = d * (k * q)  BY <1>1, <1>2
  <1>5. a = b + d * (k * q)  BY <1>2, <1>3, <1>4
  <1>6. (b + d * (k * q)) % d = b % d  BY <1>2, <1>3, ModShift
  <1>7. QED  BY <1>5, <1>6 DEF b

(* Adding to a reduced counter, then reducing.                             *)
LEMMA ModAdd ==
    ASSUME NEW m \in Nat \ {0}, NEW a \in Int, NEW b \in Int
    PROVE  ((a % m) + b) % m = (a + b) % m
  <1> DEFINE q == a \div m
             r == a % m
  <1>1. q \in Int /\ r \in Int /\ a = m * q + r  BY DivMod
  <1> HIDE DEF q, r
  <1>2. a + b = (r + b) + m * q /\ r + b \in Int  BY <1>1
  <1>3. ((r + b) + m * q) % m = (r + b) % m  BY <1>1, <1>2, ModShift
  <1>4. QED  BY <1>2, <1>3 DEF r
=============================================================================
