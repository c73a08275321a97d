--------------------------- MODULE MsgRing_proofs ---------------------------
(* Facts about the counters and slots of MsgRing, for every Size and Wrap. *)
EXTENDS MsgRing, TLAPS

(* The remainder of a number no further than one modulus from 0. *)
LEMMA ModNear ==
  ASSUME NEW n \in Nat \ {0}, NEW a \in Int, 0 - n <= a, a < n
  PROVE  a % n = IF a < 0 THEN a + n ELSE a
<1>1. CASE a >= 0
  BY <1>1, Z3
<1>2. CASE a < 0
  BY <1>2, Z3
<1> QED BY <1>1, <1>2

(* Incrementing a counter: the carry out of the last bit is lost. *)
LEMMA IncrCases ==
  ASSUME NEW i \in Counter
  PROVE  Incr(i) = IF i + 1 = Wrap THEN 0 ELSE i + 1
<1>1. CASE i + 1 = Wrap
  BY <1>1, RingAssumption, Z3 DEF Incr, Counter
<1>2. CASE i + 1 < Wrap
  <2>1. i + 1 \in Int /\ 0 - Wrap <= i + 1 /\ i + 1 < Wrap /\ ~(i + 1 < 0)
    BY <1>2, RingAssumption DEF Counter
  <2>2. (i + 1) % Wrap = i + 1
    BY <2>1, RingAssumption, ModNear
  <2> QED BY <2>1, <2>2 DEF Incr
<1> QED BY <1>1, <1>2, RingAssumption DEF Counter

(* A counter stays a counter, and designates a slot. *)
LEMMA RingTypes ==
  ASSUME NEW i \in Counter
  PROVE  Incr(i) \in Counter /\ SlotOf(i) \in Slot
BY RingAssumption DEF Incr, SlotOf, Counter, Slot

(* Counter p is k increments ahead of counter c. *)
Ahead(p, c, k) == p = c + k \/ p = c + k - Wrap

(* The signed difference of the counters is how far they are apart. *)
LEMMA LenIsDistance ==
  ASSUME NEW p \in Counter, NEW c \in Counter, NEW k \in 0 .. Size, Ahead(p, c, k)
  PROVE  QLen(p, c) = k
<1>1. k < Wrap \div 2
  <2>1. Wrap = 2 * (Wrap \div 2)
    BY RingAssumption, Z3
  <2> QED BY <2>1, RingAssumption
<1>2. (p - c) % Wrap = k
  BY RingAssumption, ModNear DEF Counter, Ahead
<1> QED BY <1>1, <1>2 DEF QLen

(* The distance follows each increment. *)
LEMMA AheadOfItself == \A c \in Counter : Ahead(c, c, 0)
BY RingAssumption DEF Ahead, Counter

(* One more produced: one further ahead. *)
LEMMA AheadAfterProduce ==
  ASSUME NEW p \in Counter, NEW c \in Counter, NEW k \in 0 .. Size - 1, Ahead(p, c, k)
  PROVE  Ahead(Incr(p), c, k + 1)
BY IncrCases, RingAssumption DEF Ahead, Counter

(* One more consumed: one less ahead. *)
LEMMA AheadAfterConsume ==
  ASSUME NEW p \in Counter, NEW c \in Counter, NEW k \in 1 .. Size, Ahead(p, c, k)
  PROVE  Ahead(p, Incr(c), k - 1)
BY IncrCases, RingAssumption DEF Ahead, Counter

(* Multiples of n that lie strictly between 0 and n: none. *)
LEMMA NoMultipleBetween ==
  ASSUME NEW n \in Nat \ {0}, NEW q \in Int, 0 < n * q, n * q < n
  PROVE  FALSE
<1>1. CASE q <= 0 BY <1>1, Z3
<1>2. CASE q >= 1 BY <1>2, Z3
<1> QED BY <1>1, <1>2

(* Two counters less than a queue apart, but not equal, designate          *)
(* different slots; this needs Size to divide Wrap.                        *)
LEMMA SlotsDiffer ==
  ASSUME NEW p \in Counter, NEW c \in Counter, NEW k \in 1 .. Size - 1, Ahead(p, c, k)
  PROVE  SlotOf(p) # SlotOf(c)
<1> SUFFICES ASSUME p % Size = c % Size PROVE FALSE
  BY DEF SlotOf
<1> DEFINE a == p \div Size
           b == c \div Size
           m == Wrap \div Size
<1>1. a \in Int /\ b \in Int /\ m \in Int
  BY RingAssumption DEF Counter
<1>2. p = Size * a + (p % Size) /\ c = Size * b + (c % Size)
  BY RingAssumption, Z3 DEF Counter
<1>3. Wrap = Size * m
  BY RingAssumption, Z3
<1>4. p - c = Size * (a - b)
  BY <1>1, <1>2, RingAssumption, Z3 DEF Counter
<1>5. CASE p = c + k
  <2>1. k = Size * (a - b)
    BY <1>4, <1>5 DEF Counter
  <2> QED BY <1>1, <2>1, RingAssumption, NoMultipleBetween
<1>6. CASE p = c + k - Wrap
  <2>1. k = Size * (a - b + m)
    BY <1>1, <1>3, <1>4, <1>6, RingAssumption, Z3 DEF Counter
  <2> QED BY <1>1, <2>1, RingAssumption, NoMultipleBetween
<1> QED BY <1>5, <1>6 DEF Ahead

(* Numbers a multiple of n apart have the same remainder. *)
LEMMA ModShift ==
  ASSUME NEW n \in Nat \ {0}, NEW a \in Int, NEW b \in Int, NEW q \in Int, a = b + n * q
  PROVE  a % n = b % n
<1> DEFINE r == a % n
           t == b % n
           d == (a \div n) - (b \div n) - q
<1>1. a \div n \in Int /\ b \div n \in Int /\ r \in 0 .. n - 1 /\ t \in 0 .. n - 1
  BY Z3
<1>2. a = n * (a \div n) + r /\ b = n * (b \div n) + t
  BY Z3
<1>3. d \in Int /\ t - r = n * d /\ r - t = n * (0 - d)
  <2> HIDE DEF r, t
  <2> QED BY <1>1, <1>2, Z3
<1>4. ~(0 < t - r /\ t - r < n) /\ ~(0 < r - t /\ r - t < n)
  <2> HIDE DEF r, t, d
  <2>1. ~(0 < t - r /\ t - r < n)
    BY <1>3, NoMultipleBetween
  <2>2. 0 - d \in Int /\ ~(0 < r - t /\ r - t < n)
    BY <1>3, NoMultipleBetween
  <2> QED BY <2>1, <2>2
<1> HIDE DEF r, t, d
<1>5. r = t
  BY <1>1, <1>4
<1> QED BY <1>5 DEF r, t

(* Slots are counted from the consumer's counter: the producer's slot is   *)
(* the k-th after it, whether or not a counter has wrapped in between.     *)
LEMMA SlotShift ==
  ASSUME NEW p \in Counter, NEW c \in Counter, NEW k \in Nat, Ahead(p, c, k), NEW i \in Nat
  PROVE  SlotOf(p + i) = SlotOf(c + k + i)
<1> DEFINE m == Wrap \div Size
<1>1. m \in Int /\ Wrap = Size * m
  BY RingAssumption, Z3
<1> HIDE DEF m
<1>2. CASE p = c + k
  BY <1>2
<1>3. CASE p = c + k - Wrap
  <2>1. p + i \in Int /\ c + k + i \in Int /\ 0 - m \in Int /\ Size \in Nat \ {0}
    BY <1>1, RingAssumption DEF Counter
  <2>2. p + i = (c + k + i) + Size * (0 - m)
    <3>1. Size * (0 - m) = 0 - Size * m
      BY <1>1, RingAssumption, Z3
    <3> QED BY <1>1, <1>3, <3>1, RingAssumption DEF Counter
  <2>3. (p + i) % Size = (c + k + i) % Size
    BY <2>1, <2>2, ModShift
  <2> QED BY <2>3 DEF SlotOf
<1> QED BY <1>2, <1>3 DEF Ahead

(* Counting from the next counter is counting from one further on. *)
LEMMA SlotAfterIncr ==
  ASSUME NEW c \in Counter, NEW i \in Nat
  PROVE  SlotOf(Incr(c) + i) = SlotOf(c + 1 + i)
<1>1. Incr(c) \in Counter /\ Ahead(Incr(c), c, 1)
  BY RingTypes, IncrCases, RingAssumption DEF Ahead, Counter
<1> QED BY <1>1, SlotShift

(* The Size slots from any counter on are different ones. *)
LEMMA SlotsDistinct ==
  ASSUME NEW c \in Counter, NEW i \in 0 .. Size - 1, NEW j \in 0 .. Size - 1, i < j
  PROVE  SlotOf(c + i) # SlotOf(c + j)
<1> SUFFICES ASSUME (c + i) % Size = (c + j) % Size PROVE FALSE
  BY DEF SlotOf
<1> DEFINE a == (c + i) \div Size
           b == (c + j) \div Size
           r == (c + i) % Size
<1>1. a \in Int /\ b \in Int /\ r \in Int /\ c \in Int /\ i \in Int /\ j \in Int /\ Size \in Int
  BY RingAssumption DEF Counter
<1>2. c + i = Size * a + r /\ c + j = Size * b + r
  BY RingAssumption, Z3 DEF Counter
<1>3. b - a \in Int /\ j - i = Size * (b - a)
  <2> HIDE DEF a, b, r
  <2> QED BY <1>1, <1>2, Z3
<1> HIDE DEF a, b, r
<1>4. 0 < j - i /\ j - i < Size
  BY RingAssumption
<1> QED BY <1>3, <1>4, RingAssumption, NoMultipleBetween

(* A counter and the numbers after it designate slots. *)
LEMMA SlotInRange ==
  ASSUME NEW c \in Counter, NEW i \in Nat
  PROVE  SlotOf(c + i) \in Slot
BY RingAssumption DEF SlotOf, Slot, Counter
=============================================================================
