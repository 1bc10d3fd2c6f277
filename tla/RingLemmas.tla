----------------------------- MODULE RingLemmas -----------------------------
(***************************************************************************)
(* Arithmetic of the ring buffers (pipe.c, console.c): free-running        *)
(* counters that wrap around at U and index P cells, where P divides U.    *)
(***************************************************************************)
EXTENDS Integers, TLAPS

(* Division with remainder. *)
LEMMA DivMod ==
    ASSUME NEW x \in Nat, NEW P \in Nat \ {0}
    PROVE  x \div P \in Nat /\ x % P \in 0 .. P - 1 /\ x = P * (x \div P) + (x % P)
OBVIOUS

(* The remainder is unique. *)
LEMMA RemainderUnique ==
    ASSUME NEW P \in Nat \ {0}, NEW q \in Nat, NEW s \in Nat,
           NEW a \in 0 .. P - 1, NEW b \in 0 .. P - 1, q >= s,
           P * q + a = P * s + b
    PROVE  q = s /\ a = b
<1>1. CASE q > s
  <2>1. PICK d \in Nat : q = s + d + 1
    BY <1>1
  <2>2. P * q = P * s + P * d + P /\ P * d >= 0
    BY <2>1
  <2> QED
    BY <2>2
<1>2. CASE q = s
  BY <1>2
<1> QED
  BY <1>1, <1>2

(* What is left after whole turns, and less than a turn, is the remainder. *)
LEMMA ModIs ==
    ASSUME NEW P \in Nat \ {0}, NEW q \in Nat, NEW a \in 0 .. P - 1
    PROVE  (P * q + a) % P = a
<1> DEFINE x == P * q + a
<1>1. x \in Nat
  OBVIOUS
<1>2. x \div P \in Nat /\ x % P \in 0 .. P - 1 /\ x = P * (x \div P) + (x % P)
  BY <1>1, DivMod
<1>3. CASE q >= x \div P
  BY <1>2, <1>3, RemainderUnique
<1>4. CASE x \div P >= q
  BY <1>2, <1>4, RemainderUnique
<1> QED
  BY <1>2, <1>3, <1>4

(* A counter below the modulus, or one turn above it. *)
LEMMA ModSmall ==
    ASSUME NEW U \in Nat \ {0}, NEW x \in Nat
    PROVE  /\ x < U => x % U = x
           /\ U <= x /\ x < 2 * U => x % U = x - U
<1>1. ASSUME x < U PROVE x % U = x
  <2>1. (U * 0 + x) % U = x
    BY <1>1, ModIs
  <2> QED
    BY <2>1
<1>2. ASSUME U <= x, x < 2 * U PROVE x % U = x - U
  <2>1. (U * 1 + (x - U)) % U = x - U
    BY <1>2, ModIs
  <2> QED
    BY <2>1, <1>2
<1> QED
  BY <1>1, <1>2

(* A whole turn of the counter does not change the cell. *)
LEMMA ModTurn ==
    ASSUME NEW P \in Nat \ {0}, NEW U \in Nat, U % P = 0, NEW j \in Nat
    PROVE  (U + j) % P = j % P
<1>1. U \div P \in Nat /\ j \div P \in Nat /\ j % P \in 0 .. P - 1
  BY DivMod
<1>2. U = P * (U \div P) /\ j = P * (j \div P) + (j % P)
  BY DivMod
<1>3. U + j = P * ((U \div P) + (j \div P)) + (j % P)
  BY <1>1, <1>2
<1>4. (U \div P) + (j \div P) \in Nat
  BY <1>1
<1> QED
  BY <1>1, <1>3, <1>4, ModIs

(* Counters less than a turn of the cells apart have different cells. *)
LEMMA CellsDiffer ==
    ASSUME NEW P \in Nat \ {0}, NEW x \in Nat, NEW d \in 1 .. P - 1
    PROVE  (x + d) % P # x % P
<1> SUFFICES ASSUME (x + d) % P = x % P PROVE FALSE
  OBVIOUS
<1> DEFINE q == (x + d) \div P
           s == x \div P
<1>1. q \in Nat /\ x + d = P * q + ((x + d) % P)
  <2>1. x + d \in Nat
    OBVIOUS
  <2> QED
    BY <2>1, DivMod
<1>2. s \in Nat /\ x = P * s + (x % P) /\ x % P \in 0 .. P - 1
  BY DivMod
<1> HIDE DEF q, s
<1>3. P * q \in Nat /\ P * s \in Nat /\ P * q = P * s + d
  BY <1>1, <1>2
<1>4. q >= s => d = 0
  <2>1. P * q + 0 = P * s + d /\ 0 \in 0 .. P - 1 /\ d \in 0 .. P - 1
    BY <1>3
  <2> QED
    BY <1>1, <1>2, <2>1, RemainderUnique
<1>5. s >= q => d = 0
  <2>1. P * s + d = P * q + 0 /\ 0 \in 0 .. P - 1 /\ d \in 0 .. P - 1
    BY <1>3
  <2> QED
    BY <1>1, <1>2, <2>1, RemainderUnique
<1> QED
  BY <1>1, <1>2, <1>4, <1>5

(* The distance between two counters that wrap around. *)
LEMMA Distance ==
    ASSUME NEW U \in Nat \ {0}, NEW x \in 0 .. U - 1, NEW y \in 0 .. U - 1
    PROVE  (x + U - y) % U = IF x >= y THEN x - y ELSE x + U - y
<1> DEFINE z == x + U - y
<1>1. z \in Nat /\ z < 2 * U
  OBVIOUS
<1>2. (z < U => z % U = z) /\ (U <= z /\ z < 2 * U => z % U = z - U)
  BY <1>1, ModSmall
<1> QED
  BY <1>1, <1>2

(* The counter after one more, when it wraps around. *)
LEMMA Successor ==
    ASSUME NEW U \in Nat \ {0}, NEW x \in 0 .. U - 1
    PROVE  (x + 1) % U = IF x = U - 1 THEN 0 ELSE x + 1
<1> DEFINE z == x + 1
<1>1. z \in Nat /\ z < 2 * U
  OBVIOUS
<1>2. (z < U => z % U = z) /\ (U <= z /\ z < 2 * U => z % U = z - U)
  BY <1>1, ModSmall
<1> QED
  BY <1>1, <1>2
=============================================================================
