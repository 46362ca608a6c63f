----------------------- MODULE FixtureEntitiesProofs -----------------------
(***************************************************************************)
(* Proofs about FixtureEntities, for any fixtures and frames: the last     *)
(* command stays on its channels, only what belongs to the current option  *)
(* is available, what a user selects is what the written bytes stand for,  *)
(* and the select and the numbers show their channels.                     *)
(***************************************************************************)
EXTENDS FixtureEntities, WellFoundedInduction, TLAPS

-----------------------------------------------------------------------------
(* Induction over the natural numbers, for a set instead of a predicate.     *)
LEMMA NatSetInduction ==
    ASSUME NEW T \in SUBSET Nat, 0 \in T, \A n \in T : n + 1 \in T
    PROVE  T = Nat
<1> SUFFICES ASSUME T # Nat PROVE FALSE
  OBVIOUS
<1> DEFINE R == OpToRel(<, Nat)
<1>1. PICK x \in Nat \ T : \A y \in Nat \ T : ~(<<y, x>> \in R)
  <2>1. IsWellFoundedOn(R, Nat)
    BY NatLessThanWellFounded
  <2> HIDE DEF R
  <2> QED BY <2>1, WFMin
<1>2. \A y \in Nat \ T : ~(y < x)
  BY <1>1 DEF OpToRel
<1> QED BY <1>2

-----------------------------------------------------------------------------
(* Powers of the base: the recursive definition has a meaning, and is what it *)
(* says.                                                                      *)
PowerTo(f, n) == f = [k \in 0..n |-> IF k = 0 THEN 1 ELSE Base * f[k - 1]]

LEMMA PowersTo == \A n \in Nat : \E f : PowerTo(f, n)
<1> DEFINE T == {n \in Nat : \E f : PowerTo(f, n)}
<1>1. 0 \in T
  <2>1. PowerTo([k \in 0..0 |-> 1], 0)
    BY DEF PowerTo
  <2> QED BY <2>1
<1>2. ASSUME NEW n \in T PROVE n + 1 \in T
  <2>1. PICK f : PowerTo(f, n)
    OBVIOUS
  <2> DEFINE g == [k \in 0..(n + 1) |-> IF k = 0 THEN 1 ELSE Base * f[k - 1]]
  <2>2. \A k \in 0..n : f[k] = IF k = 0 THEN 1 ELSE Base * f[k - 1]
    BY <2>1 DEF PowerTo
  <2>3. n \in Nat
    OBVIOUS
  <2>4. \A k \in 0..n : g[k] = f[k]
    BY <2>2, <2>3
  <2>5. \A k \in 0..(n + 1) : k # 0 => k - 1 \in 0..n
    BY <2>3
  <2>6. g = [k \in 0..(n + 1) |-> IF k = 0 THEN 1 ELSE Base * g[k - 1]]
    BY <2>4, <2>5
  <2>7. PowerTo(g, n + 1)
    BY <2>6 DEF PowerTo
  <2> HIDE DEF g
  <2> QED BY <2>3, <2>7
<1> HIDE DEF T
<1>3. T \in SUBSET Nat
  BY DEF T
<1>4. T = Nat
  BY <1>1, <1>2, <1>3, NatSetInduction
<1> QED BY <1>4 DEF T

LEMMA PowersAgree ==
    ASSUME NEW m \in Nat, NEW n \in Nat, m <= n, NEW f, NEW g, PowerTo(f, m), PowerTo(g, n)
    PROVE  \A k \in 0..m : f[k] = g[k]
<1> DEFINE T == {k \in Nat : k <= m => f[k] = g[k]}
<1>1. /\ \A k \in 0..m : f[k] = IF k = 0 THEN 1 ELSE Base * f[k - 1]
      /\ \A k \in 0..n : g[k] = IF k = 0 THEN 1 ELSE Base * g[k - 1]
  BY DEF PowerTo
<1>2. 0 \in T
  BY <1>1
<1>3. ASSUME NEW k \in T PROVE k + 1 \in T
  BY <1>1
<1>4. T \in SUBSET Nat
  OBVIOUS
<1> HIDE DEF T
<1>5. T = Nat
  BY <1>2, <1>3, <1>4, NatSetInduction
<1> QED BY <1>5 DEF T

LEMMA Powers == Power[0] = 1 /\ \A k \in Nat : Power[k + 1] = Base * Power[k]
<1> DEFINE F(n) == CHOOSE f : PowerTo(f, n)
           G == [n \in Nat |-> F(n)[n]]
<1>1. \A n \in Nat : PowerTo(F(n), n)
  BY PowersTo
<1>2. ASSUME NEW k \in Nat PROVE G[k] = IF k = 0 THEN 1 ELSE Base * G[k - 1]
  <2> HIDE DEF F
  <2>1. F(k)[k] = IF k = 0 THEN 1 ELSE Base * F(k)[k - 1]
    <3>1. k \in 0..k
      OBVIOUS
    <3>2. \A i \in 0..k : F(k)[i] = IF i = 0 THEN 1 ELSE Base * F(k)[i - 1]
      BY <1>1 DEF PowerTo
    <3> QED BY <3>1, <3>2
  <2>2. CASE k = 0
    BY <2>1, <2>2
  <2>3. CASE k # 0
    <3>1. k - 1 \in Nat /\ k - 1 <= k /\ k - 1 \in 0..(k - 1)
      BY <2>3
    <3>2. PowerTo(F(k - 1), k - 1) /\ PowerTo(F(k), k)
      BY <1>1, <3>1
    <3>3. F(k - 1)[k - 1] = F(k)[k - 1]
      BY <3>1, <3>2, PowersAgree
    <3> QED BY <2>1, <2>3, <3>1, <3>3
  <2> QED BY <2>2, <2>3
<1>3. G = [k \in Nat |-> IF k = 0 THEN 1 ELSE Base * G[k - 1]]
  <2> HIDE DEF F
  <2> DEFINE H == [k \in Nat |-> IF k = 0 THEN 1 ELSE Base * G[k - 1]]
  <2>1. \A k \in Nat : G[k] = H[k]
    BY <1>2
  <2>2. G = [k \in Nat |-> G[k]] /\ H = [k \in Nat |-> H[k]]
    OBVIOUS
  <2> HIDE DEF G, H
  <2>3. G = H
    BY <2>1, <2>2, Zenon
  <2> QED BY <2>3 DEF H
<1> HIDE DEF G
<1>4. Power = [k \in Nat |-> IF k = 0 THEN 1 ELSE Base * Power[k - 1]]
  BY <1>3 DEF Power
<1>5. Power[0] = 1
  BY <1>4
<1>6. \A k \in Nat : k + 1 \in Nat /\ k + 1 # 0 /\ (k + 1) - 1 = k
  OBVIOUS
<1> HIDE DEF Power
<1> QED BY <1>4, <1>5, <1>6

(* Powers are positive, and more than one but for the first. *)
LEMMA PowersPositive == \A k \in Nat : Power[k] \in Nat \ {0} /\ (k > 0 => Power[k] > 1)
<1> DEFINE T == {k \in Nat : Power[k] \in Nat \ {0}}
<1> USE BaseAssumption
<1>1. 0 \in T
  BY Powers
<1>2. ASSUME NEW k \in T PROVE k + 1 \in T
  <2>1. Power[k + 1] = Base * Power[k] /\ Power[k] \in Nat \ {0}
    BY Powers
  <2>2. \A p \in Nat \ {0} : Base * p \in Nat \ {0}
    OBVIOUS
  <2> HIDE DEF Power
  <2> QED BY <2>1, <2>2
<1>3. T \in SUBSET Nat
  OBVIOUS
<1> HIDE DEF T
<1>4. T = Nat
  BY <1>1, <1>2, <1>3, NatSetInduction
<1>5. \A k \in Nat : Power[k] \in Nat \ {0}
  BY <1>4 DEF T
<1>6. ASSUME NEW k \in Nat, k > 0 PROVE Power[k] > 1
  <2>1. k - 1 \in Nat /\ (k - 1) + 1 = k
    BY <1>6
  <2>2. Power[k] = Base * Power[k - 1] /\ Power[k - 1] \in Nat \ {0}
    BY <1>5, <2>1, Powers
  <2>3. \A p \in Nat \ {0} : Base * p > 1
    OBVIOUS
  <2> HIDE DEF Power
  <2> QED BY <2>2, <2>3
<1> QED BY <1>5, <1>6

-----------------------------------------------------------------------------
(* Bytes and numbers.  What is summed up of some bytes, one after the other.  *)
SumTo(f, bytes, n) == f = [i \in 0..n |-> IF i = 0 THEN 0 ELSE Base * f[i - 1] + bytes[i]]

LEMMA SumsTo == ASSUME NEW bytes PROVE \A n \in Nat : \E f : SumTo(f, bytes, n)
<1> DEFINE T == {n \in Nat : \E f : SumTo(f, bytes, n)}
<1>1. 0 \in T
  <2>1. SumTo([i \in 0..0 |-> 0], bytes, 0)
    BY DEF SumTo
  <2> QED BY <2>1
<1>2. ASSUME NEW n \in T PROVE n + 1 \in T
  <2>1. PICK f : SumTo(f, bytes, n)
    OBVIOUS
  <2> DEFINE g == [i \in 0..(n + 1) |-> IF i = 0 THEN 0 ELSE Base * f[i - 1] + bytes[i]]
  <2>2. \A i \in 0..n : f[i] = IF i = 0 THEN 0 ELSE Base * f[i - 1] + bytes[i]
    BY <2>1 DEF SumTo
  <2>3. n \in Nat
    OBVIOUS
  <2>4. \A i \in 0..n : g[i] = f[i]
    BY <2>2, <2>3
  <2>5. \A i \in 0..(n + 1) : i # 0 => i - 1 \in 0..n
    BY <2>3
  <2>6. g = [i \in 0..(n + 1) |-> IF i = 0 THEN 0 ELSE Base * g[i - 1] + bytes[i]]
    BY <2>4, <2>5
  <2>7. SumTo(g, bytes, n + 1)
    BY <2>6 DEF SumTo
  <2> HIDE DEF g
  <2> QED BY <2>3, <2>7
<1> HIDE DEF T
<1>3. T \in SUBSET Nat
  BY DEF T
<1>4. T = Nat
  BY <1>1, <1>2, <1>3, NatSetInduction
<1> QED BY <1>4 DEF T

LEMMA CombinedIsSum ==
    ASSUME NEW bytes, Len(bytes) \in Nat
    PROVE  \E f : SumTo(f, bytes, Len(bytes)) /\ Combined(bytes) = f[Len(bytes)]
<1> DEFINE upTo == CHOOSE f : SumTo(f, bytes, Len(bytes))
<1>1. SumTo(upTo, bytes, Len(bytes))
  BY SumsTo
<1>2. Combined(bytes) = upTo[Len(bytes)]
  BY DEF Combined, SumTo
<1> HIDE DEF upTo
<1> QED BY <1>1, <1>2

(* The bytes of something are a function on 1..n. *)
HasBytes(bytes, n) == bytes \in [1..n -> Bytes]

LEMMA LenOfBytes == ASSUME NEW n \in Nat, NEW bytes, HasBytes(bytes, n) PROVE Len(bytes) = n /\ bytes \in Seq(Bytes)
<1>1. bytes \in [1..n -> Bytes]
  BY DEF HasBytes
<1>2. bytes \in Seq(Bytes)
  BY <1>1
<1>3. DOMAIN bytes = 1..n
  BY <1>1
<1> QED BY <1>2, <1>3

LEMMA CombinedNat ==
    ASSUME NEW n \in Nat, NEW bytes, HasBytes(bytes, n)
    PROVE  Combined(bytes) \in Nat
<1>1. Len(bytes) = n
  BY LenOfBytes
<1>2. PICK f : SumTo(f, bytes, n) /\ Combined(bytes) = f[n]
  BY <1>1, CombinedIsSum
<1> DEFINE T == {i \in Nat : i <= n => f[i] \in Nat}
<1>3. \A i \in 0..n : f[i] = IF i = 0 THEN 0 ELSE Base * f[i - 1] + bytes[i]
  BY <1>2 DEF SumTo
<1>4. 0 \in T
  BY <1>3
<1>5. ASSUME NEW i \in T PROVE i + 1 \in T
  <2> SUFFICES ASSUME i + 1 <= n PROVE f[i + 1] \in Nat
    OBVIOUS
  <2>1. f[i + 1] = Base * f[i] + bytes[i + 1] /\ f[i] \in Nat
    BY <1>3
  <2>2. bytes[i + 1] \in Nat
    BY DEF HasBytes, Bytes
  <2>3. \A x, y \in Nat : Base * x + y \in Nat
    BY BaseAssumption
  <2> QED BY <2>1, <2>2, <2>3
<1>6. T \in SUBSET Nat
  OBVIOUS
<1> HIDE DEF T
<1>7. T = Nat
  BY <1>4, <1>5, <1>6, NatSetInduction
<1> QED BY <1>2, <1>7 DEF T

LEMMA Division ==
    ASSUME NEW n \in Int, NEW d \in Nat \ {0}
    PROVE  n \div d \in Int /\ n % d \in Nat /\ n % d < d /\ n = (d * (n \div d)) + (n % d)
OBVIOUS

LEMMA Quotient ==
    ASSUME NEW d \in Nat \ {0}, NEW q \in Int, NEW r \in Nat, r < d
    PROVE  ((d * q) + r) \div d = q
OBVIOUS

LEMMA SplitBytes == ASSUME NEW n \in Int, NEW count \in Nat PROVE HasBytes(Split(n, count), count)
<1>1. ASSUME NEW i \in 1..count PROVE (n \div Power[count - i]) % Base \in Bytes
  <2>1. count - i \in Nat
    OBVIOUS
  <2>2. Power[count - i] \in Nat \ {0}
    BY <2>1, PowersPositive
  <2>3. n \div Power[count - i] \in Int
    BY <2>2, Division
  <2>4. \A x \in Int : x % Base \in Bytes
    BY BaseAssumption DEF Bytes
  <2> QED BY <2>3, <2>4
<1> QED BY <1>1 DEF Split, HasBytes

(* A quotient, divided again. *)
LEMMA TwiceDivided ==
    ASSUME NEW n \in Int, NEW p \in Nat \ {0}, NEW b \in Nat \ {0}
    PROVE  (n \div p) \div b = n \div (b * p)
<1> DEFINE q == n \div p
           r == n % p
           u == q \div b
           v == q % b
<1>1. q \in Int /\ r \in Nat /\ r < p /\ n = (p * q) + r
  BY Division
<1> HIDE DEF q, r
<1>2. u \in Int /\ v \in Nat /\ v < b /\ q = (b * u) + v
  BY <1>1, Division
<1> HIDE DEF u, v
<1>3. n = (p * ((b * u) + v)) + r
  BY <1>1, <1>2
<1>4. p * ((b * u) + v) = ((b * p) * u) + (p * v)
  BY <1>2
<1>5. b * p \in Nat \ {0} /\ p * v \in Nat
  BY <1>2
<1>6. (p * v) + r < b * p
  <2>1. v <= b - 1
    BY <1>2
  <2>2. p * v <= p * (b - 1)
    BY <1>2, <2>1
  <2>3. p * (b - 1) = (b * p) - p
    OBVIOUS
  <2>4. p * (b - 1) \in Int
    OBVIOUS
  <2> QED BY <1>1, <1>5, <2>2, <2>3, <2>4
<1>7. (p * v) + r \in Nat
  BY <1>1, <1>5
<1>8. n = ((b * p) * u) + ((p * v) + r)
  <2> DEFINE x == (b * p) * u
             y == p * v
  <2>1. x \in Int /\ y \in Nat /\ n = (x + y) + r
    BY <1>2, <1>3, <1>4, <1>5
  <2> HIDE DEF x, y
  <2>2. n = x + (y + r)
    BY <1>1, <2>1
  <2> QED BY <2>2 DEF x, y
<1>9. n \div (b * p) = u
  <2> DEFINE d == b * p
             m == (p * v) + r
  <2>1. d \in Nat \ {0} /\ m \in Nat /\ m < d /\ n = (d * u) + m
    BY <1>5, <1>6, <1>7, <1>8
  <2> HIDE DEF d, m
  <2>2. n \div d = u
    BY <1>2, <2>1, Quotient
  <2> QED BY <2>2 DEF d
<1> QED BY <1>9 DEF u, q

(* What Split takes apart, Combined puts together. *)
LEMMA CombinedOfSplit ==
    ASSUME NEW count \in Nat, NEW n \in Nat, n < Power[count]
    PROVE  Combined(Split(n, count)) = n
<1> DEFINE bytes == Split(n, count)
<1>1. HasBytes(bytes, count) /\ Len(bytes) = count
  BY SplitBytes, LenOfBytes
<1>2. \A i \in 1..count : bytes[i] = (n \div Power[count - i]) % Base
  BY DEF Split
<1> HIDE DEF bytes
<1>3. PICK f : SumTo(f, bytes, count) /\ Combined(bytes) = f[count]
  BY <1>1, CombinedIsSum
<1> DEFINE T == {i \in Nat : i <= count => f[i] = n \div Power[count - i]}
<1>4. \A i \in 0..count : f[i] = IF i = 0 THEN 0 ELSE Base * f[i - 1] + bytes[i]
  BY <1>3 DEF SumTo
<1>5. 0 \in T
  <2>1. f[0] = 0
    BY <1>4
  <2>2. \A p \in Nat \ {0} : n < p => n \div p = 0
    OBVIOUS
  <2>3. count - 0 = count /\ Power[count] \in Nat \ {0}
    BY PowersPositive
  <2> QED BY <2>1, <2>2, <2>3
<1>6. ASSUME NEW i \in T PROVE i + 1 \in T
  <2> SUFFICES ASSUME i + 1 <= count PROVE f[i + 1] = n \div Power[count - (i + 1)]
    OBVIOUS
  <2> DEFINE k == count - (i + 1)
             p == Power[k]
             x == n \div p
  <2>1. k \in Nat /\ count - i = k + 1 /\ i + 1 \in 1..count /\ i \in Nat /\ (i + 1) - 1 = i /\ i + 1 # 0
    OBVIOUS
  <2>2. p \in Nat \ {0} /\ Power[k + 1] = Base * p
    BY <2>1, Powers, PowersPositive
  <2>3. f[i] = n \div (Base * p)
    BY <2>1, <2>2
  <2>4. f[i + 1] = Base * f[i] + bytes[i + 1]
    BY <1>4, <2>1
  <2>5. bytes[i + 1] = x % Base
    BY <1>2, <2>1
  <2>6. x \in Int /\ x \div Base = n \div (Base * p)
    <3> HIDE DEF p
    <3>1. Base \in Nat \ {0} /\ n \in Int
      BY BaseAssumption
    <3>2. x \in Int
      BY <2>2, <3>1, Division
    <3> QED BY <2>2, <3>1, <3>2, TwiceDivided
  <2> HIDE DEF x, p, k
  <2>7. x = (Base * (x \div Base)) + (x % Base)
    BY <2>6, BaseAssumption, Division
  <2>8. f[i + 1] = x
    BY <2>3, <2>4, <2>5, <2>6, <2>7
  <2> QED BY <2>8 DEF x, p, k
<1>7. T \in SUBSET Nat
  OBVIOUS
<1> HIDE DEF T
<1>8. T = Nat
  BY <1>5, <1>6, <1>7, NatSetInduction
<1>9. f[count] = n \div Power[count - count]
  BY <1>8 DEF T
<1>10. Power[count - count] = 1 /\ n \div 1 = n
  BY Powers
<1> QED BY <1>3, <1>9, <1>10 DEF bytes

-----------------------------------------------------------------------------
(* Values of ranges and their bytes.                                         *)
LEMMA MinOfTwo == ASSUME NEW x \in Int, NEW y \in Int PROVE Min({x, y}) = IF x <= y THEN x ELSE y
BY DEF Min

LEMMA MinOfOne == ASSUME NEW x \in Int PROVE Min({x}) = x
BY DEF Min

Ceiling(v, p) == -((-v) \div p)

LEMMA CeilingIs ==
    ASSUME NEW v \in Nat, NEW p \in Nat \ {0}
    PROVE  /\ Ceiling(v, p) \in Nat
           /\ v <= Ceiling(v, p) * p
           /\ \A n \in Nat : v <= n * p => Ceiling(v, p) <= n
<1> DEFINE q == (-v) \div p
           r == (-v) % p
<1>1. q \in Int /\ r \in Nat /\ r < p /\ -v = (p * q) + r
  BY Division
<1>2. Ceiling(v, p) = -q
  BY DEF Ceiling
<1> HIDE DEF q, r
<1>3. q <= 0
  <2> SUFFICES ASSUME q >= 1 PROVE FALSE
    BY <1>1
  <2>1. p * q >= 1
    BY <1>1
  <2> DEFINE m == p * q
  <2>2. m \in Int
    BY <1>1
  <2> HIDE DEF m
  <2> QED BY <1>1, <2>1, <2>2 DEF m
<1>4. v <= (-q) * p
  <2>1. (-q) * p = -(p * q)
    BY <1>1
  <2> DEFINE m == p * q
  <2>2. m \in Int /\ -v = m + r /\ (-q) * p = -m
    BY <1>1, <2>1
  <2> HIDE DEF m
  <2> QED BY <1>1, <2>2
<1>5. ASSUME NEW n \in Nat, v <= n * p PROVE -q <= n
  <2> SUFFICES ASSUME n + 1 <= -q PROVE FALSE
    BY <1>1
  <2>1. p * (q + n + 1) <= 0
    BY <1>1
  <2>2. p * (q + n + 1) = (p * q) + (n * p) + p
    BY <1>1
  <2> DEFINE m == p * q
             k == n * p
  <2>3. m \in Int /\ k \in Int /\ m + k + p <= 0 /\ v <= k /\ -v = m + r
    BY <1>1, <1>5, <2>1, <2>2
  <2> HIDE DEF m, k
  <2> QED BY <1>1, <2>3
<1> QED BY <1>1, <1>2, <1>3, <1>4, <1>5

LEMMA RangeBytesAre ==
    ASSUME NEW v \in Nat, NEW count \in Nat, NEW rangeBytes \in Nat
    PROVE  HasBytes(RangeBytes(v, count, rangeBytes), count)
<1>1. CASE count >= rangeBytes
  <2>1. count - rangeBytes \in Nat
    BY <1>1
  <2>2. Power[count - rangeBytes] \in Nat
    BY <2>1, PowersPositive
  <2>3. v * Power[count - rangeBytes] \in Int
    BY <2>2
  <2> QED BY <1>1, <2>3, SplitBytes DEF RangeBytes
<1>2. CASE ~(count >= rangeBytes)
  <2>1. rangeBytes - count \in Nat
    BY <1>2
  <2>2. Power[rangeBytes - count] \in Nat \ {0} /\ Power[count] \in Nat \ {0}
    BY <2>1, PowersPositive
  <2> DEFINE x == Ceiling(v, Power[rangeBytes - count])
             y == Power[count] - 1
  <2>3. x \in Int /\ y \in Int
    BY <2>2, CeilingIs
  <2> HIDE DEF x, y
  <2>4. Min({x, y}) \in Int
    BY <2>3, MinOfTwo
  <2>5. RangeBytes(v, count, rangeBytes) = Split(Min({x, y}), count)
    BY <1>2 DEF RangeBytes, x, y, Ceiling
  <2> QED BY <2>4, <2>5, SplitBytes
<1> QED BY <1>1, <1>2

LEMMA RangeValueNat ==
    ASSUME NEW count \in Nat, NEW rangeBytes \in Nat, NEW bytes, HasBytes(bytes, count)
    PROVE  RangeValue(bytes, rangeBytes) \in Nat
<1>1. Len(bytes) = count /\ Combined(bytes) \in Nat
  BY LenOfBytes, CombinedNat
<1>2. CASE count > rangeBytes
  <2>1. count - rangeBytes \in Nat
    BY <1>2
  <2>2. Power[count - rangeBytes] \in Nat \ {0}
    BY <2>1, PowersPositive
  <2>3. \A c \in Nat, p \in Nat \ {0} : c \div p \in Nat
    OBVIOUS
  <2> QED BY <1>1, <1>2, <2>2, <2>3 DEF RangeValue
<1>3. CASE ~(count > rangeBytes)
  <2>1. rangeBytes - count \in Nat
    BY <1>3
  <2>2. Power[rangeBytes - count] \in Nat \ {0}
    BY <2>1, PowersPositive
  <2>3. \A c \in Nat, p \in Nat \ {0} : c * p \in Nat
    OBVIOUS
  <2> QED BY <1>1, <1>3, <2>2, <2>3 DEF RangeValue
<1> QED BY <1>2, <1>3

LEMMA PowersMultiply ==
    ASSUME NEW m \in Nat PROVE \A n \in Nat : Power[m + n] = Power[m] * Power[n]
<1> DEFINE T == {n \in Nat : Power[m + n] = Power[m] * Power[n]}
<1>1. 0 \in T
  <2>1. m + 0 = m /\ Power[m] \in Nat /\ Power[0] = 1
    BY Powers, PowersPositive
  <2> QED BY <2>1
<1>2. ASSUME NEW n \in T PROVE n + 1 \in T
  <2>1. m + n \in Nat /\ m + (n + 1) = (m + n) + 1 /\ n \in Nat
    OBVIOUS
  <2>2. Power[m + (n + 1)] = Base * Power[m + n] /\ Power[n + 1] = Base * Power[n]
    BY <2>1, Powers
  <2>3. Power[m + n] = Power[m] * Power[n] /\ Power[m] \in Nat /\ Power[n] \in Nat
    BY <2>1, PowersPositive
  <2> DEFINE p == Power[m]
             q == Power[n]
  <2>4. p \in Nat /\ q \in Nat /\ Power[m + (n + 1)] = Base * (p * q) /\ Power[n + 1] = Base * q
    BY <2>2, <2>3
  <2> HIDE DEF p, q
  <2>5. Base * (p * q) = p * (Base * q)
    BY <2>4, BaseAssumption
  <2>6. Power[m + (n + 1)] = p * Power[n + 1]
    BY <2>4, <2>5
  <2> QED BY <2>1, <2>6 DEF p
<1>3. T \in SUBSET Nat
  OBVIOUS
<1> HIDE DEF T
<1>4. T = Nat
  BY <1>1, <1>2, <1>3, NatSetInduction
<1> QED BY <1>4 DEF T

(* A value that has room in its range comes back from its bytes as it is, if  *)
(* they are enough for it.                                                    *)
LEMMA FineBytesExact ==
    ASSUME NEW v \in Nat, NEW count \in Nat, NEW rangeBytes \in Nat, count >= rangeBytes, v < Power[rangeBytes]
    PROVE  RangeValue(RangeBytes(v, count, rangeBytes), rangeBytes) = v
<1> DEFINE p == Power[count - rangeBytes]
           w == v * p
<1>1. count - rangeBytes \in Nat /\ rangeBytes + (count - rangeBytes) = count
  OBVIOUS
<1>2. p \in Nat \ {0} /\ Power[count] = Power[rangeBytes] * p /\ Power[rangeBytes] \in Nat \ {0}
  <2>1. Power[rangeBytes + (count - rangeBytes)] = Power[rangeBytes] * Power[count - rangeBytes]
    BY <1>1, PowersMultiply
  <2> QED BY <1>1, <2>1, PowersPositive
<1>3. RangeBytes(v, count, rangeBytes) = Split(w, count)
  BY DEF RangeBytes
<1>4. w \in Nat /\ w < Power[count]
  <2> DEFINE top == Power[rangeBytes]
  <2>1. top \in Nat /\ v < top /\ Power[count] = top * p
    BY <1>2
  <2> HIDE DEF p, top
  <2>2. v * p < top * p
    BY <1>2, <2>1
  <2>3. v * p \in Nat
    BY <1>2
  <2> QED BY <2>1, <2>2, <2>3
<1>5. Combined(Split(w, count)) = w /\ Len(Split(w, count)) = count
  <2>1. w \in Int
    BY <1>4
  <2> HIDE DEF w
  <2> QED BY <1>4, <2>1, CombinedOfSplit, SplitBytes, LenOfBytes
<1>6. CASE count > rangeBytes
  <2>1. RangeValue(Split(w, count), rangeBytes) = w \div p
    BY <1>5, <1>6 DEF RangeValue
  <2>2. w \div p = v
    <3> HIDE DEF p
    <3>1. w = (p * v) + 0
      BY <1>2
    <3>2. ((p * v) + 0) \div p = v
      BY <1>2, Quotient
    <3> QED BY <3>1, <3>2
  <2> QED BY <1>3, <2>1, <2>2
<1>7. CASE count = rangeBytes
  <2>1. p = 1 /\ Power[rangeBytes - count] = 1
    BY <1>7, Powers
  <2>2. RangeValue(Split(w, count), rangeBytes) = w * 1
    BY <1>5, <1>7, <2>1 DEF RangeValue
  <2> QED BY <1>3, <2>1, <2>2
<1> QED BY <1>6, <1>7

(* With too few bytes it comes back as the lowest value they can express that *)
(* is not below it, if there is one.                                          *)
LEMMA CoarseBytesRoundUp ==
    ASSUME NEW v \in Nat, NEW count \in Nat, NEW rangeBytes \in Nat, count < rangeBytes,
           NEW n \in 0..HighestOf(count), v <= RangeValue(Split(n, count), rangeBytes)
    PROVE  LET w == RangeValue(RangeBytes(v, count, rangeBytes), rangeBytes)
           IN  v <= w /\ w <= RangeValue(Split(n, count), rangeBytes)
<1> DEFINE p == Power[rangeBytes - count]
           c == Ceiling(v, p)
<1>1. p \in Nat \ {0} /\ Power[count] \in Nat \ {0}
  <2>1. rangeBytes - count \in Nat
    OBVIOUS
  <2> QED BY <2>1, PowersPositive
<1>2. n \in Nat /\ n < Power[count]
  BY <1>1 DEF HighestOf
<1>3. ASSUME NEW k \in Nat, k < Power[count] PROVE RangeValue(Split(k, count), rangeBytes) = k * p
  <2>1. Combined(Split(k, count)) = k /\ Len(Split(k, count)) = count
    BY <1>3, CombinedOfSplit, SplitBytes, LenOfBytes
  <2> QED BY <2>1 DEF RangeValue
<1>4. v <= n * p
  BY <1>2, <1>3
<1>5. c \in Nat /\ v <= c * p /\ c <= n
  <2> HIDE DEF p
  <2> QED BY <1>1, <1>2, <1>4, CeilingIs
<1>6. c <= Power[count] - 1 /\ Power[count] - 1 \in Int
  BY <1>1, <1>2, <1>5
<1>7. RangeBytes(v, count, rangeBytes) = Split(c, count)
  <2>1. RangeBytes(v, count, rangeBytes) = Split(Min({c, Power[count] - 1}), count)
    BY DEF RangeBytes, Ceiling
  <2>2. Min({c, Power[count] - 1}) = c
    <3> HIDE DEF c
    <3> QED BY <1>5, <1>6, MinOfTwo
  <2> QED BY <2>1, <2>2
<1>8. RangeValue(Split(c, count), rangeBytes) = c * p
  <2>1. c < Power[count]
    BY <1>1, <1>5, <1>6
  <2> HIDE DEF c
  <2> QED BY <1>3, <1>5, <2>1
<1>9. c * p <= n * p
  <2> HIDE DEF c, p
  <2> QED BY <1>1, <1>2, <1>5
<1> QED BY <1>2, <1>3, <1>5, <1>7, <1>8, <1>9

(* Beyond what they can express it comes back as the highest they can.       *)
LEMMA CoarseBytesCapped ==
    ASSUME NEW v \in Nat, NEW count \in Nat, NEW rangeBytes \in Nat, count < rangeBytes,
           RangeValue(Split(HighestOf(count), count), rangeBytes) < v
    PROVE  RangeBytes(v, count, rangeBytes) = Split(HighestOf(count), count)
<1> DEFINE p == Power[rangeBytes - count]
           c == Ceiling(v, p)
           h == HighestOf(count)
<1>1. p \in Nat \ {0} /\ h \in Nat /\ h = Power[count] - 1 /\ h < Power[count]
  <2>1. rangeBytes - count \in Nat
    OBVIOUS
  <2>2. p \in Nat \ {0} /\ Power[count] \in Nat \ {0}
    BY <2>1, PowersPositive
  <2> QED BY <2>2 DEF HighestOf
<1>2. RangeValue(Split(h, count), rangeBytes) = h * p
  <2>1. ASSUME NEW k \in Nat, k < Power[count] PROVE RangeValue(Split(k, count), rangeBytes) = k * p
    <3>1. Combined(Split(k, count)) = k /\ Len(Split(k, count)) = count
      BY <2>1, CombinedOfSplit, SplitBytes, LenOfBytes
    <3> QED BY <3>1 DEF RangeValue
  <2> HIDE DEF h, p
  <2> QED BY <1>1, <2>1
<1>3. h * p < v
  BY <1>2
<1>4. c \in Nat /\ v <= c * p
  <2> HIDE DEF p
  <2> QED BY <1>1, CeilingIs
<1>5. h < c
  <2> HIDE DEF c, h, p
  <2> SUFFICES ASSUME c <= h PROVE FALSE
    BY <1>1, <1>4
  <2>1. c * p <= h * p
    BY <1>1, <1>4
  <2> DEFINE x == c * p
             y == h * p
  <2>2. x \in Int /\ y \in Int /\ x <= y /\ y < v /\ v <= x
    BY <1>1, <1>3, <1>4, <2>1
  <2> HIDE DEF x, y
  <2> QED BY <2>2
<1>6. RangeBytes(v, count, rangeBytes) = Split(Min({c, Power[count] - 1}), count)
  BY DEF RangeBytes, Ceiling
<1>7. Min({c, Power[count] - 1}) = h
  <2> HIDE DEF c, h
  <2> QED BY <1>1, <1>4, <1>5, MinOfTwo
<1> QED BY <1>6, <1>7

-----------------------------------------------------------------------------
(* The fixture.                                                              *)
LEMMA FixtureIs == ASSUME fixture \in Fixtures PROVE IsFixture(fixture)
BY FixtureAssumption

LEMMA OptionIs ==
    ASSUME fixture \in Fixtures, NEW o \in DOMAIN Options
    PROVE  /\ Options[o].from \in Nat /\ Options[o].to \in Nat
           /\ ValueOf(o) \in Nat /\ IsApplicable(o, ValueOf(o)) /\ ValueOf(o) < Power[fixture.rangeBytes]
           /\ Options[o].menuClick # None => Options[o].menuClick \in Nat
<1>1. IsOption(Options[o], fixture)
  BY FixtureIs DEF IsFixture, Options
<1>2. Power[fixture.rangeBytes] \in Nat
  BY FixtureIs, PowersPositive DEF IsFixture
<1> DEFINE option == Options[o]
<1>3. /\ option.from \in Nat /\ option.to \in Nat
      /\ option.from <= option.to /\ option.to < Power[fixture.rangeBytes]
      /\ option.menuClick \in {None} \cup option.from..option.to
  BY <1>1 DEF IsOption
<1>4. ValueOf(o) = IF option.menuClick # None THEN option.menuClick ELSE option.from
  BY DEF ValueOf
<1>5. IsApplicable(o, ValueOf(o)) <=> option.from <= ValueOf(o) /\ ValueOf(o) <= option.to
  BY DEF IsApplicable
<1> HIDE DEF option
<1>6. ValueOf(o) \in option.from..option.to
  BY <1>3, <1>4
<1> QED BY <1>2, <1>3, <1>5, <1>6 DEF option

LEMMA OptionsApart ==
    ASSUME fixture \in Fixtures, NEW o \in DOMAIN Options, NEW p \in DOMAIN Options, NEW v \in Nat,
           IsApplicable(o, v), IsApplicable(p, v)
    PROVE  o = p
<1>1. o # p => Options[o].to < Options[p].from \/ Options[p].to < Options[o].from
  BY FixtureIs DEF IsFixture, Options
<1>2. /\ Options[o].from \in Nat /\ Options[o].to \in Nat
      /\ Options[p].from \in Nat /\ Options[p].to \in Nat
  BY OptionIs
<1> QED BY <1>1, <1>2 DEF IsApplicable

Slots(e) == ToSet(ChannelsOf(e))

LEMMA SelectIsNoNumber == ASSUME fixture \in Fixtures PROVE Select \notin Numbers /\ None \notin Entities
<1>1. Select \notin Numbers /\ None \notin Numbers
  BY FixtureIs DEF IsFixture, Numbers
<1>2. None # Select
  BY NoneAssumption
<1> QED BY <1>1, <1>2 DEF Entities

LEMMA EntityHasSlots ==
    ASSUME fixture \in Fixtures, NEW e \in Entities
    PROVE  /\ Len(ChannelsOf(e)) \in Nat \ {0}
           /\ DOMAIN ChannelsOf(e) = 1..Len(ChannelsOf(e))
           /\ \A i, j \in 1..Len(ChannelsOf(e)) : ChannelsOf(e)[i] = ChannelsOf(e)[j] => i = j
           /\ Slots(e) \subseteq Channels /\ Slots(e) # {}
           /\ \A i \in 1..Len(ChannelsOf(e)) : ChannelsOf(e)[i] \in Slots(e)
           /\ \A c \in Slots(e) : \E i \in 1..Len(ChannelsOf(e)) : ChannelsOf(e)[i] = c
<1> DEFINE q == ChannelsOf(e)
<1>1. HasSlots(q)
  <2>1. CASE e = Select
    BY <2>1, FixtureIs DEF IsFixture, ChannelsOf
  <2>2. CASE e # Select
    <3>1. e \in DOMAIN fixture.numbers
      BY <2>2 DEF Entities, Numbers
    <3>2. IsNumber(fixture.numbers[e])
      BY <3>1, FixtureIs DEF IsFixture
    <3> QED BY <2>2, <3>2 DEF IsNumber, ChannelsOf
  <2> QED BY <2>1, <2>2
<1>2. Slots(e) \subseteq Channels
  BY DEF Slots, Channels
<1>3. Slots(e) = {q[i] : i \in DOMAIN q}
  BY DEF Slots, ToSet
<1> HIDE DEF q
<1>4. q \in Seq(Nat) /\ q # <<>> /\ \A i, j \in DOMAIN q : q[i] = q[j] => i = j
  BY <1>1 DEF HasSlots, IsInjective
<1>5. Len(q) \in Nat /\ DOMAIN q = 1..Len(q) /\ Len(q) # 0
  BY <1>4
<1>6. Slots(e) # {}
  <2>1. 1 \in DOMAIN q
    BY <1>5
  <2> QED BY <1>3, <2>1
<1> QED BY <1>2, <1>3, <1>4, <1>5, <1>6 DEF q

(* What select and number have in common.                                    *)
LEMMA SlidersShareSlots ==
    ASSUME fixture \in Fixtures, NEW o \in DOMAIN Options, Options[o].slider # None
    PROVE  Options[o].slider \in Numbers /\ Slots(Options[o].slider) = Slots(Select)
<1>1. IsOption(Options[o], fixture)
  BY FixtureIs DEF IsFixture, Options
<1>2. Options[o].slider \in Numbers /\ fixture.numbers[Options[o].slider].channels = fixture.channels
  BY <1>1 DEF IsOption, Numbers
<1>3. Options[o].slider # Select
  BY <1>2, SelectIsNoNumber
<1>4. ChannelsOf(Options[o].slider) = ChannelsOf(Select)
  BY <1>2, <1>3 DEF ChannelsOf
<1> QED BY <1>2, <1>4 DEF Slots

LEMMA OwnersHaveOtherSlots ==
    ASSUME fixture \in Fixtures, NEW n \in Numbers, fixture.numbers[n].owns
    PROVE  Slots(n) \cap Slots(Select) = {}
<1>1. ToSet(fixture.numbers[n].channels) \cap ToSet(fixture.channels) = {}
  BY FixtureIs DEF IsFixture, Numbers
<1>2. n # Select
  BY SelectIsNoNumber
<1> QED BY <1>1, <1>2 DEF Slots, ChannelsOf

LEMMA SwitchedToHasOtherSlots ==
    ASSUME fixture \in Fixtures, NEW o \in DOMAIN Options, Options[o].switchesTo # None
    PROVE  Options[o].switchesTo \in Numbers /\ Slots(Options[o].switchesTo) \cap Slots(Select) = {}
<1>1. IsOption(Options[o], fixture)
  BY FixtureIs DEF IsFixture, Options
<1>2. Options[o].switchesTo \in Numbers /\ fixture.numbers[Options[o].switchesTo].owns
  BY <1>1 DEF IsOption, Numbers
<1> QED BY <1>2, OwnersHaveOtherSlots

-----------------------------------------------------------------------------
(* The bytes that select and restore write stand for their option, if there   *)
(* are as many as the ranges have, or one of the values they can express that *)
(* are not below the one to be written, or else the highest one, is of it.    *)
CanExpress(o) == \E value \in Expressible : ValueOf(o) <= value /\ IsApplicable(o, value)
Highest == RangeValue(Split(HighestOf(Len(fixture.channels)), Len(fixture.channels)), fixture.rangeBytes)

HasBytesFor(o) ==
    Len(fixture.channels) >= fixture.rangeBytes \/ CanExpress(o) \/ IsApplicable(o, Highest)

SelectBytes(o) == RangeBytes(ValueOf(o), Len(fixture.channels), fixture.rangeBytes)

LEMMA SelectSlots ==
    ASSUME fixture \in Fixtures
    PROVE  ChannelsOf(Select) = fixture.channels /\ Len(fixture.channels) \in Nat /\ fixture.rangeBytes \in Nat
<1>1. ChannelsOf(Select) = fixture.channels
  BY DEF ChannelsOf
<1>2. Len(ChannelsOf(Select)) \in Nat
  BY EntityHasSlots DEF Entities
<1> QED BY <1>1, <1>2, FixtureIs DEF IsFixture

LEMMA BytesStandForOption ==
    ASSUME fixture \in Fixtures, NEW o \in DOMAIN Options, HasBytesFor(o)
    PROVE  IsApplicable(o, RangeValue(SelectBytes(o), fixture.rangeBytes))
<1> DEFINE count == Len(fixture.channels)
           range == fixture.rangeBytes
           v == ValueOf(o)
<1>1. count \in Nat /\ range \in Nat
  BY SelectSlots
<1>2. v \in Nat /\ IsApplicable(o, v) /\ v < Power[range]
  BY OptionIs
<1>3. CASE count >= range
  <2>1. RangeValue(RangeBytes(v, count, range), range) = v
    BY <1>1, <1>2, <1>3, FineBytesExact
  <2> QED BY <1>2, <2>1 DEF SelectBytes
<1>4. CASE count < range /\ CanExpress(o)
  <2>1. PICK n \in 0..HighestOf(count) :
               v <= RangeValue(Split(n, count), range) /\ IsApplicable(o, RangeValue(Split(n, count), range))
    BY <1>4 DEF CanExpress, Expressible
  <2> DEFINE w == RangeValue(SelectBytes(o), range)
             e == RangeValue(Split(n, count), range)
  <2>2. v <= w /\ w <= e
    BY <1>1, <1>2, <1>4, <2>1, CoarseBytesRoundUp DEF SelectBytes
  <2>3. w \in Nat
    <3>1. HasBytes(SelectBytes(o), count)
      BY <1>1, <1>2, RangeBytesAre DEF SelectBytes
    <3> QED BY <1>1, <3>1, RangeValueNat
  <2>4. e \in Nat
    <3>1. Power[count] \in Nat
      BY <1>1, PowersPositive
    <3>2. n \in Int
      BY <1>1, <3>1 DEF HighestOf
    <3> QED BY <1>1, <3>2, SplitBytes, RangeValueNat
  <2>5. /\ Options[o].from <= v /\ v <= Options[o].to
        /\ Options[o].from <= e /\ e <= Options[o].to
        /\ Options[o].from \in Nat /\ Options[o].to \in Nat
    BY <1>2, <2>1, OptionIs DEF IsApplicable
  <2> HIDE DEF w, e, v
  <2>6. Options[o].from <= w /\ w <= Options[o].to
    BY <1>2, <2>2, <2>3, <2>4, <2>5
  <2> QED BY <2>6 DEF w, IsApplicable
<1>5. CASE count < range /\ ~CanExpress(o) /\ IsApplicable(o, Highest)
  <2> DEFINE h == HighestOf(count)
  <2>1. h \in Nat /\ Highest = RangeValue(Split(h, count), range)
    <3>1. Power[count] \in Nat \ {0}
      BY <1>1, PowersPositive
    <3> QED BY <3>1 DEF HighestOf, Highest
  <2>2. Highest \in Nat
    <3> HIDE DEF h
    <3>1. h \in Int
      BY <2>1
    <3>2. HasBytes(Split(h, count), count)
      BY <1>1, <3>1, SplitBytes
    <3> QED BY <1>1, <2>1, <3>2, RangeValueNat
  <2>3. Highest < v
    <3>1. Highest \in Expressible
      BY <2>1 DEF Expressible
    <3> QED BY <1>2, <1>5, <2>2, <3>1 DEF CanExpress
  <2>4. SelectBytes(o) = Split(h, count)
    BY <1>1, <1>2, <1>5, <2>1, <2>3, CoarseBytesCapped DEF SelectBytes
  <2> QED BY <1>5, <2>1, <2>4
<1> QED BY <1>1, <1>3, <1>4, <1>5 DEF HasBytesFor

LEMMA SelectedShown == ASSUME fixture \in Fixtures PROVE SelectedIsShown
BY BytesStandForOption DEF SelectedIsShown, HasBytesFor, CanExpress, SelectBytes

-----------------------------------------------------------------------------
(* The types of what the entities show.                                      *)
Natives == [exact : BOOLEAN, value : Int]
States == [values : [Channels -> Bytes \cup {None}], option : DOMAIN Options,
           available : [Entities -> BOOLEAN], native : [Numbers -> Natives]]

Count(e) == Len(ChannelsOf(e))

LEMMA NoneIsNoByte == None \notin Bytes /\ 0 \in Bytes /\ Bytes \subseteq Nat
BY NoneAssumption, BaseAssumption DEF Bytes

LEMMA NumberIs ==
    ASSUME fixture \in Fixtures, NEW n \in Numbers
    PROVE  /\ n \in Entities /\ n # Select /\ Count(n) \in Nat \ {0}
           /\ fixture.numbers[n].low \in Int /\ fixture.numbers[n].from \in Nat
           /\ Span(n) \in Nat \ {0} /\ Width(n) \in Nat \ {0}
           /\ HighestOf(fixture.numbers[n].rangeBytes) \in Nat \ {0}
           /\ HighestOf(Count(n)) \in Nat \ {0}
<1>1. n \in Entities /\ n # Select
  BY SelectIsNoNumber DEF Entities
<1>2. Count(n) \in Nat \ {0}
  BY <1>1, EntityHasSlots DEF Count
<1> DEFINE number == fixture.numbers[n]
<1>3. IsNumber(number)
  BY FixtureIs DEF IsFixture, Numbers
<1> HIDE DEF number
<1>4. /\ number.rangeBytes \in Nat \ {0}
      /\ number.low \in Int /\ number.high \in Int /\ number.low < number.high
      /\ number.from \in Nat /\ number.to \in Nat /\ number.from < number.to
  BY <1>3 DEF IsNumber
<1>5. number.high - number.low \in Nat \ {0} /\ number.to - number.from \in Nat \ {0}
  BY <1>4
<1>6. ASSUME NEW k \in Nat \ {0} PROVE HighestOf(k) \in Nat \ {0}
  <2>1. Power[k] \in Nat /\ Power[k] > 1
    BY PowersPositive
  <2> QED BY <2>1 DEF HighestOf
<1> QED BY <1>1, <1>2, <1>4, <1>5, <1>6 DEF number, Span, Width

LEMMA RoundInt == ASSUME NEW n \in Int, NEW d \in Nat \ {0} PROVE Round(n, d) \in Int
<1>1. n \div d \in Int
  BY Division
<1> QED BY <1>1 DEF Round

LEMMA Products == ASSUME NEW x \in Nat \ {0}, NEW y \in Nat \ {0} PROVE x * y \in Nat \ {0}
OBVIOUS

LEMMA IntProducts == ASSUME NEW x \in Int, NEW y \in Int PROVE x * y \in Int
OBVIOUS

LEMMA ToDmxBytes ==
    ASSUME fixture \in Fixtures, NEW n \in Numbers, NEW h \in Int
    PROVE  HasBytes(ToDmx(n, h), Count(n))
<1> DEFINE number == fixture.numbers[n]
           place == 100 * number.from * Span(n) + (h - 100 * number.low) * Width(n)
           d == 100 * Span(n) * HighestOf(number.rangeBytes)
<1>1. d \in Nat \ {0}
  <2>1. 100 * Span(n) \in Nat \ {0}
    BY NumberIs
  <2> QED BY <2>1, NumberIs, Products
<1>2. place \in Int
  <2>1. 100 * number.from \in Int /\ h - 100 * number.low \in Int
    BY NumberIs
  <2>2. 100 * number.from * Span(n) \in Int /\ (h - 100 * number.low) * Width(n) \in Int
    BY <2>1, NumberIs, IntProducts
  <2> QED BY <2>2
<1>3. place * HighestOf(Count(n)) \in Int
  <2> HIDE DEF place
  <2> QED BY <1>2, NumberIs, IntProducts
<1>4. ToDmx(n, h) = Split(Round(place * HighestOf(Count(n)), d), Count(n))
  BY DEF ToDmx, Count
<1> HIDE DEF place, d
<1>5. Round(place * HighestOf(Count(n)), d) \in Int
  BY <1>1, <1>3, RoundInt
<1> QED BY <1>4, <1>5, NumberIs, SplitBytes

LEMMA NativeValueInt ==
    ASSUME fixture \in Fixtures, NEW n \in Numbers, NEW native \in Natives
    PROVE  NativeValue(n, native) \in Int
<1> DEFINE number == fixture.numbers[n]
           parts == HighestOf(Count(n))
           x == 100 * (native.value - number.from * parts) * Span(n)
           d == Width(n) * parts
<1>1. native.value \in Int
  BY DEF Natives
<1>2. d \in Nat \ {0}
  BY NumberIs, Products
<1>3. x \in Int
  <2>1. number.from * parts \in Int
    BY NumberIs, IntProducts
  <2> DEFINE y == number.from * parts
  <2> HIDE DEF y
  <2>2. 100 * (native.value - y) \in Int
    BY <1>1, <2>1 DEF y
  <2>3. (100 * (native.value - y)) * Span(n) \in Int
    BY <2>2, NumberIs, IntProducts
  <2> QED BY <2>3 DEF y
<1>4. NativeValue(n, native) = IF native.exact THEN 100 * number.low + Round(x, d) ELSE native.value
  BY DEF NativeValue, Count
<1> HIDE DEF x, d
<1>5. Round(x, d) \in Int
  BY <1>2, <1>3, RoundInt
<1>6. 100 * number.low \in Int
  BY NumberIs
<1> HIDE DEF number
<1> QED BY <1>1, <1>4, <1>5, <1>6

LEMMA FromDmxNative ==
    ASSUME fixture \in Fixtures, NEW n \in Numbers, NEW count \in Nat, NEW bytes, HasBytes(bytes, count)
    PROVE  FromDmx(n, bytes) \in Natives
<1>1. Combined(bytes) \in Int
  BY CombinedNat
<1>2. Combined(bytes) * HighestOf(fixture.numbers[n].rangeBytes) \in Int
  BY <1>1, NumberIs, IntProducts
<1> QED BY <1>2 DEF FromDmx, Exact, Natives

-----------------------------------------------------------------------------
(* The bytes of an entity.                                                   *)
LEMMA BytesOfAre ==
    ASSUME fixture \in Fixtures, NEW st \in States, NEW e \in Entities
    PROVE  HasBytes(BytesOf(st, e), Count(e))
<1> DEFINE q == ChannelsOf(e)
<1>1. DOMAIN q = 1..Count(e) /\ \A i \in 1..Count(e) : q[i] \in Channels
  BY EntityHasSlots DEF Count
<1>2. st.values \in [Channels -> Bytes \cup {None}]
  BY DEF States
<1>3. BytesOf(st, e) = [i \in DOMAIN q |-> IF st.values[q[i]] = None THEN 0 ELSE st.values[q[i]]]
  BY DEF BytesOf
<1> HIDE DEF q
<1>4. \A i \in 1..Count(e) : st.values[q[i]] \in Bytes \cup {None}
  BY <1>1, <1>2
<1>5. \A i \in DOMAIN q : (IF st.values[q[i]] = None THEN 0 ELSE st.values[q[i]]) \in Bytes
  BY <1>1, <1>4, NoneIsNoByte
<1> QED BY <1>1, <1>3, <1>5 DEF HasBytes

LEMMA SameBytes ==
    ASSUME fixture \in Fixtures, NEW st, NEW t, NEW e \in Entities, \A c \in Slots(e) : t.values[c] = st.values[c]
    PROVE  BytesOf(t, e) = BytesOf(st, e) /\ (IsSet(t, e) <=> IsSet(st, e))
<1>1. \A i \in DOMAIN ChannelsOf(e) : t.values[ChannelsOf(e)[i]] = st.values[ChannelsOf(e)[i]]
  BY EntityHasSlots
<1> QED BY <1>1 DEF BytesOf, IsSet, Slots

LEMMA ValuesAre ==
    ASSUME fixture \in Fixtures, NEW e \in Entities, NEW bytes, HasBytes(bytes, Count(e))
    PROVE  /\ Values(e, bytes) \in [Slots(e) -> Bytes]
           /\ \A i \in 1..Count(e) : Values(e, bytes)[ChannelsOf(e)[i]] = bytes[i]
<1> DEFINE q == ChannelsOf(e)
<1>1. /\ DOMAIN q = 1..Count(e) /\ \A i \in 1..Count(e) : q[i] \in Slots(e)
      /\ \A i, j \in 1..Count(e) : q[i] = q[j] => i = j
      /\ \A c \in Slots(e) : \E i \in 1..Count(e) : q[i] = c
  BY EntityHasSlots DEF Count
<1>2. DOMAIN bytes = 1..Count(e) /\ \A i \in 1..Count(e) : bytes[i] \in Bytes
  BY DEF HasBytes
<1>3. Values(e, bytes) = [c \in Slots(e) |-> bytes[CHOOSE i \in DOMAIN bytes : q[i] = c]]
  BY DEF Values, Slots
<1> HIDE DEF q
<1>4. ASSUME NEW i \in 1..Count(e) PROVE (CHOOSE j \in DOMAIN bytes : q[j] = q[i]) = i
  BY <1>1, <1>2
<1>5. ASSUME NEW i \in 1..Count(e) PROVE Values(e, bytes)[q[i]] = bytes[i]
  <2>1. q[i] \in Slots(e)
    BY <1>1
  <2>2. Values(e, bytes)[q[i]] = bytes[CHOOSE j \in DOMAIN bytes : q[j] = q[i]]
    BY <1>3, <2>1
  <2> QED BY <1>4, <2>2
<1>6. \A c \in Slots(e) : Values(e, bytes)[c] \in Bytes
  BY <1>1, <1>2, <1>5
<1> QED BY <1>3, <1>5, <1>6 DEF q

LEMMA BytesWritten ==
    ASSUME fixture \in Fixtures, NEW e \in Entities, NEW bytes, HasBytes(bytes, Count(e)), NEW t,
           \A c \in Slots(e) : t.values[c] = Values(e, bytes)[c]
    PROVE  BytesOf(t, e) = bytes
<1> DEFINE q == ChannelsOf(e)
<1>1. DOMAIN q = 1..Count(e) /\ \A i \in 1..Count(e) : q[i] \in Slots(e)
  BY EntityHasSlots DEF Count
<1>2. ASSUME NEW i \in 1..Count(e) PROVE t.values[q[i]] = bytes[i] /\ bytes[i] # None
  <2>1. Values(e, bytes)[q[i]] = bytes[i]
    BY ValuesAre
  <2>2. bytes[i] \in Bytes
    BY DEF HasBytes
  <2>3. t.values[q[i]] = Values(e, bytes)[q[i]]
    BY <1>1
  <2> QED BY <2>1, <2>2, <2>3, NoneIsNoByte
<1>3. BytesOf(t, e) = [i \in DOMAIN q |-> IF t.values[q[i]] = None THEN 0 ELSE t.values[q[i]]]
  BY DEF BytesOf
<1> HIDE DEF q
<1> QED BY <1>1, <1>2, <1>3 DEF HasBytes

-----------------------------------------------------------------------------
(* What the updates of the entities do.                                      *)
LEMMA UpdateNumbersIs ==
    ASSUME fixture \in Fixtures, NEW st \in States, NEW ns
    PROVE  LET t == UpdateNumbers(st, ns)
           IN  /\ t \in States /\ t.values = st.values /\ t.option = st.option /\ t.available = st.available
               /\ \A n \in Numbers : t.native[n] = IF n \in ns /\ st.available[n] THEN FromDmx(n, BytesOf(st, n))
                                                   ELSE st.native[n]
<1> DEFINE g == [n \in Numbers |-> IF n \in ns /\ st.available[n] THEN FromDmx(n, BytesOf(st, n)) ELSE st.native[n]]
<1>1. \A n \in Numbers : FromDmx(n, BytesOf(st, n)) \in Natives
  BY BytesOfAre, FromDmxNative, NumberIs
<1>2. \A n \in Numbers : st.native[n] \in Natives
  BY DEF States
<1>3. g \in [Numbers -> Natives]
  BY <1>1, <1>2
<1>4. UpdateNumbers(st, ns) = [st EXCEPT !.native = g]
  BY DEF UpdateNumbers
<1>5. \A n \in Numbers : g[n] = IF n \in ns /\ st.available[n] THEN FromDmx(n, BytesOf(st, n)) ELSE st.native[n]
  OBVIOUS
<1> HIDE DEF g
<1>6. [st EXCEPT !.native = g] \in States
  BY <1>3 DEF States
<1>7. /\ [st EXCEPT !.native = g].values = st.values /\ [st EXCEPT !.native = g].option = st.option
      /\ [st EXCEPT !.native = g].available = st.available /\ [st EXCEPT !.native = g].native = g
  BY DEF States
<1> QED BY <1>4, <1>5, <1>6, <1>7

LEMMA SetAvailabilityIs ==
    ASSUME fixture \in Fixtures, NEW st \in States, NEW b \in BOOLEAN
    PROVE  LET t == SetAvailability(st, b)
           IN  /\ t \in States /\ t.values = st.values /\ t.option = st.option /\ t.native = st.native
               /\ \A e \in Entities : t.available[e] = IF e \in EntitiesOf(st.option) THEN b ELSE st.available[e]
<1> DEFINE g == [e \in Entities |-> IF e \in EntitiesOf(st.option) THEN b ELSE st.available[e]]
<1>1. \A e \in Entities : st.available[e] \in BOOLEAN
  BY DEF States
<1>2. g \in [Entities -> BOOLEAN]
  BY <1>1
<1>3. SetAvailability(st, b) = [st EXCEPT !.available = g]
  BY DEF SetAvailability
<1>4. \A e \in Entities : g[e] = IF e \in EntitiesOf(st.option) THEN b ELSE st.available[e]
  OBVIOUS
<1> HIDE DEF g
<1>5. [st EXCEPT !.available = g] \in States
  BY <1>2 DEF States
<1>6. /\ [st EXCEPT !.available = g].values = st.values /\ [st EXCEPT !.available = g].option = st.option
      /\ [st EXCEPT !.available = g].available = g /\ [st EXCEPT !.available = g].native = st.native
  BY DEF States
<1> QED BY <1>3, <1>4, <1>5, <1>6

LEMMA UpdateCurrentOptionIs ==
    ASSUME fixture \in Fixtures, NEW st \in States, NEW o \in DOMAIN Options
    PROVE  LET t == UpdateCurrentOption(st, o)
           IN  /\ t \in States /\ t.values = st.values /\ t.option = o /\ t.native = st.native
               /\ \A e \in Entities : t.available[e] = IF e \in EntitiesOf(o) THEN TRUE
                                                       ELSE IF e \in EntitiesOf(st.option) THEN FALSE
                                                       ELSE st.available[e]
<1> DEFINE u == SetAvailability(st, FALSE)
           v == [u EXCEPT !.option = o]
           t == SetAvailability(v, TRUE)
<1>1. /\ u \in States /\ u.values = st.values /\ u.native = st.native
      /\ \A e \in Entities : u.available[e] = IF e \in EntitiesOf(st.option) THEN FALSE ELSE st.available[e]
  BY SetAvailabilityIs
<1>2. UpdateCurrentOption(st, o) = t
  BY DEF UpdateCurrentOption
<1> HIDE DEF u
<1>3. v \in States /\ v.values = u.values /\ v.native = u.native /\ v.option = o /\ v.available = u.available
  BY <1>1 DEF States
<1> HIDE DEF v
<1>4. /\ t \in States /\ t.values = v.values /\ t.option = v.option /\ t.native = v.native
      /\ \A e \in Entities : t.available[e] = IF e \in EntitiesOf(v.option) THEN TRUE ELSE v.available[e]
  BY <1>3, SetAvailabilityIs
<1> HIDE DEF t
<1> QED BY <1>1, <1>2, <1>3, <1>4

LEMMA UpdateOptionToIs ==
    ASSUME fixture \in Fixtures, NEW st, NEW v \in Nat
    PROVE  /\ \A o \in DOMAIN Options : IsApplicable(o, v) => UpdateOptionTo(st, v) = UpdateCurrentOption(st, o)
           /\ (\A o \in DOMAIN Options : ~IsApplicable(o, v)) => UpdateOptionTo(st, v) = st
<1> DEFINE applicable == {o \in DOMAIN Options : IsApplicable(o, v)}
<1>1. UpdateOptionTo(st, v) = IF applicable = {} THEN st ELSE UpdateCurrentOption(st, Min(applicable))
  BY DEF UpdateOptionTo
<1>2. ASSUME NEW o \in DOMAIN Options, IsApplicable(o, v) PROVE UpdateOptionTo(st, v) = UpdateCurrentOption(st, o)
  <2>1. applicable = {o}
    BY <1>2, OptionsApart
  <2>2. o \in Int
    BY FixtureIs DEF IsFixture, Options
  <2>3. Min({o}) = o
    BY <2>2, MinOfOne
  <2> QED BY <1>1, <2>1, <2>3
<1> QED BY <1>1, <1>2

Value(st) == RangeValue(BytesOf(st, Select), fixture.rangeBytes)

LEMMA ValueNat == ASSUME fixture \in Fixtures, NEW st \in States PROVE Value(st) \in Nat
<1>1. HasBytes(BytesOf(st, Select), Count(Select)) /\ Count(Select) \in Nat
  BY BytesOfAre, EntityHasSlots DEF Entities, Count
<1> QED BY <1>1, SelectSlots, RangeValueNat DEF Value

LEMMA UpdateSelectIs ==
    ASSUME fixture \in Fixtures, NEW st \in States
    PROVE  LET t == UpdateSelect(st)
           IN  /\ t \in States /\ t.values = st.values /\ t.native = st.native
               /\ \A o \in DOMAIN Options : IsApplicable(o, Value(st)) => t = UpdateCurrentOption(st, o)
               /\ (\A o \in DOMAIN Options : ~IsApplicable(o, Value(st))) => t = st
<1>1. UpdateSelect(st) = UpdateOptionTo(st, Value(st))
  BY DEF UpdateSelect, Value
<1>2. Value(st) \in Nat
  BY ValueNat
<1>3. /\ \A o \in DOMAIN Options : IsApplicable(o, Value(st)) => UpdateSelect(st) = UpdateCurrentOption(st, o)
      /\ (\A o \in DOMAIN Options : ~IsApplicable(o, Value(st))) => UpdateSelect(st) = st
  BY <1>1, <1>2, UpdateOptionToIs
<1>4. CASE \E o \in DOMAIN Options : IsApplicable(o, Value(st))
  <2>1. PICK o \in DOMAIN Options : IsApplicable(o, Value(st))
    BY <1>4
  <2>2. UpdateSelect(st) = UpdateCurrentOption(st, o)
    BY <1>3, <2>1
  <2>3. /\ UpdateCurrentOption(st, o) \in States /\ UpdateCurrentOption(st, o).values = st.values
        /\ UpdateCurrentOption(st, o).native = st.native
    BY UpdateCurrentOptionIs
  <2> QED BY <1>3, <2>2, <2>3, <1>4
<1>5. CASE \A o \in DOMAIN Options : ~IsApplicable(o, Value(st))
  BY <1>3, <1>5
<1> QED BY <1>4, <1>5

(* The select minds only its channels, its option and what is available.     *)
LEMMA SelectMindsNoNative ==
    ASSUME fixture \in Fixtures, NEW st \in States, NEW t \in States,
           t.values = st.values, t.option = st.option, t.available = st.available
    PROVE  UpdateSelect(t).option = UpdateSelect(st).option /\ UpdateSelect(t).available = UpdateSelect(st).available
<1>1. Value(t) = Value(st)
  <2>1. Select \in Entities
    BY DEF Entities
  <2> QED BY <2>1, SameBytes DEF Value
<1>2. CASE \E o \in DOMAIN Options : IsApplicable(o, Value(st))
  <2>1. PICK o \in DOMAIN Options : IsApplicable(o, Value(st))
    BY <1>2
  <2> DEFINE u == UpdateCurrentOption(st, o)
             v == UpdateCurrentOption(t, o)
  <2>2. UpdateSelect(st) = u /\ UpdateSelect(t) = v
    BY <1>1, <2>1, UpdateSelectIs
  <2>3. u \in States /\ v \in States /\ u.option = o /\ v.option = o
    BY UpdateCurrentOptionIs
  <2>4. \A e \in Entities : u.available[e] = v.available[e]
    <3>1. \A e \in Entities : u.available[e] = IF e \in EntitiesOf(o) THEN TRUE
                                               ELSE IF e \in EntitiesOf(st.option) THEN FALSE ELSE st.available[e]
      BY UpdateCurrentOptionIs
    <3>2. \A e \in Entities : v.available[e] = IF e \in EntitiesOf(o) THEN TRUE
                                               ELSE IF e \in EntitiesOf(t.option) THEN FALSE ELSE t.available[e]
      BY UpdateCurrentOptionIs
    <3> QED BY <3>1, <3>2
  <2> HIDE DEF u, v
  <2>5. u.available = v.available
    <3>1. u.available \in [Entities -> BOOLEAN] /\ v.available \in [Entities -> BOOLEAN]
      BY <2>3 DEF States
    <3> QED BY <2>4, <3>1
  <2> QED BY <2>2, <2>3, <2>5
<1>3. CASE \A o \in DOMAIN Options : ~IsApplicable(o, Value(st))
  BY <1>1, <1>3, UpdateSelectIs
<1> QED BY <1>2, <1>3

LEMMA HeardIs ==
    ASSUME fixture \in Fixtures, NEW w \in States, NEW ls \in SUBSET Entities, NEW t \in Heard(w, ls)
    PROVE  /\ t \in States /\ t.values = w.values
           /\ Select \notin ls => t.option = w.option /\ t.available = w.available
           /\ Select \in ls => t.option = UpdateSelect(w).option /\ t.available = UpdateSelect(w).available
           /\ \A n \in Numbers : t.native[n] = w.native[n] \/ (n \in ls /\ t.native[n] = FromDmx(n, BytesOf(t, n)))
           /\ \A n \in Numbers \cap ls : w.available[n] /\ t.available[n] => t.native[n] = FromDmx(n, BytesOf(t, n))
<1>1. \A u, v : u.values = v.values => \A n \in Numbers : BytesOf(u, n) = BytesOf(v, n)
  BY SameBytes, NumberIs
<1>2. CASE Select \notin ls
  <2>1. t = UpdateNumbers(w, ls)
    BY <1>2 DEF Heard
  <2>2. /\ t \in States /\ t.values = w.values /\ t.option = w.option /\ t.available = w.available
        /\ \A n \in Numbers : t.native[n] = IF n \in ls /\ w.available[n] THEN FromDmx(n, BytesOf(w, n))
                                            ELSE w.native[n]
    BY <2>1, UpdateNumbersIs
  <2>3. \A n \in Numbers : BytesOf(t, n) = BytesOf(w, n)
    BY <1>1, <2>2
  <2> QED BY <1>2, <2>2, <2>3
<1>3. CASE Select \in ls
  <2>1. PICK before \in SUBSET (ls \ {Select}) :
               t = UpdateNumbers(UpdateSelect(UpdateNumbers(w, before)), ls \ before)
    BY <1>3 DEF Heard
  <2> DEFINE u == UpdateNumbers(w, before)
             v == UpdateSelect(u)
  <2>2. /\ u \in States /\ u.values = w.values /\ u.option = w.option /\ u.available = w.available
        /\ \A n \in Numbers : u.native[n] = IF n \in before /\ w.available[n] THEN FromDmx(n, BytesOf(w, n))
                                            ELSE w.native[n]
    BY UpdateNumbersIs
  <2> HIDE DEF u
  <2>3. /\ v \in States /\ v.values = u.values /\ v.native = u.native
        /\ v.option = UpdateSelect(w).option /\ v.available = UpdateSelect(w).available
    BY <2>2, UpdateSelectIs, SelectMindsNoNative
  <2> HIDE DEF v
  <2>4. t = UpdateNumbers(v, ls \ before)
    BY <2>1 DEF u, v
  <2>5. /\ t \in States /\ t.values = v.values /\ t.option = v.option /\ t.available = v.available
        /\ \A n \in Numbers : t.native[n] = IF n \in ls \ before /\ v.available[n] THEN FromDmx(n, BytesOf(v, n))
                                            ELSE v.native[n]
    BY <2>3, <2>4, UpdateNumbersIs
  <2>6. \A n \in Numbers : BytesOf(t, n) = BytesOf(w, n) /\ BytesOf(v, n) = BytesOf(w, n)
    BY <1>1, <2>2, <2>3, <2>5
  <2> QED BY <1>3, <2>2, <2>3, <2>5, <2>6
<1> QED BY <1>2, <1>3

LEMMA WrittenIs ==
    ASSUME fixture \in Fixtures, NEW st \in States, NEW D \in SUBSET Channels, NEW values \in [D -> Bytes]
    PROVE  LET w == Written(st, values)
           IN  /\ w \in States /\ w.option = st.option /\ w.available = st.available /\ w.native = st.native
               /\ \A c \in Channels : w.values[c] = IF c \in D THEN values[c] ELSE st.values[c]
<1> DEFINE g == [c \in Channels |-> IF c \in DOMAIN values THEN values[c] ELSE st.values[c]]
<1>1. \A c \in Channels : g[c] = IF c \in D THEN values[c] ELSE st.values[c]
  OBVIOUS
<1>2. g \in [Channels -> Bytes \cup {None}]
  <2>1. st.values \in [Channels -> Bytes \cup {None}]
    BY DEF States
  <2> QED BY <2>1
<1>3. Written(st, values) = [st EXCEPT !.values = g]
  BY DEF Written
<1> HIDE DEF g
<1>4. [st EXCEPT !.values = g] \in States
  BY <1>2 DEF States
<1>5. /\ [st EXCEPT !.values = g].values = g /\ [st EXCEPT !.values = g].option = st.option
      /\ [st EXCEPT !.values = g].available = st.available /\ [st EXCEPT !.values = g].native = st.native
  BY DEF States
<1> QED BY <1>1, <1>3, <1>4, <1>5

(* Who listens: those whose channels the write changes.                      *)
LEMMA ListenersAre ==
    ASSUME fixture \in Fixtures, NEW st \in States, NEW D \in SUBSET Channels, NEW values \in [D -> Bytes],
           NEW t, \A c \in Channels : t.values[c] = IF c \in D THEN values[c] ELSE st.values[c],
           NEW e \in Entities
    PROVE  e \in Listeners(st, values) <=> \E c \in Slots(e) : t.values[c] # st.values[c]
<1>1. Slots(e) \subseteq Channels /\ DOMAIN values = D
  BY EntityHasSlots
<1>2. e \in Listeners(st, values) <=> \E c \in Slots(e) \cap D : values[c] # st.values[c]
  BY <1>1 DEF Listeners, Slots
<1> QED BY <1>1, <1>2

-----------------------------------------------------------------------------
(* A write as those who look at the entities see it: from st to t it changes  *)
(* only the channels D, which have bytes afterwards.                          *)
Touched(st, t, e) == \E c \in Slots(e) : t.values[c] # st.values[c]
Shown(st, n) == st.native[n] = FromDmx(n, BytesOf(st, n))

Same(st, t) == t.option = st.option /\ t.available = st.available

Turned(st, t, o) ==
    /\ t.option = o
    /\ \A e \in Entities : t.available[e] = IF e \in EntitiesOf(o) THEN TRUE
                                            ELSE IF e \in EntitiesOf(st.option) THEN FALSE ELSE st.available[e]

Writes(st, t, D) ==
    /\ t \in States
    /\ \A c \in Channels \ D : t.values[c] = st.values[c]
    /\ \A c \in D : t.values[c] \in Bytes
    /\ ~Touched(st, t, Select) => Same(st, t)
    /\ Touched(st, t, Select) =>
          \/ \E o \in DOMAIN Options : IsApplicable(o, Value(t)) /\ Turned(st, t, o)
          \/ (\A o \in DOMAIN Options : ~IsApplicable(o, Value(t))) /\ Same(st, t)

(* What becomes of the number n.                                             *)
Follows(st, t, n) ==
    /\ ~Touched(st, t, n) => t.native[n] = st.native[n]
    /\ Touched(st, t, n) /\ st.available[n] /\ t.available[n] => Shown(t, n)

LEMMA WriteIs ==
    ASSUME fixture \in Fixtures, NEW st \in States, NEW D \in SUBSET Channels, NEW values \in [D -> Bytes],
           NEW writer, writer # Select, NEW t \in Updated(st, values, writer)
    PROVE  /\ Writes(st, t, D) /\ \A c \in D : t.values[c] = values[c]
           /\ \A n \in Numbers : IF n = writer THEN t.native[n] = st.native[n] ELSE Follows(st, t, n)
<1> DEFINE ls == Listeners(st, values)
           w == Written(st, values)
           heard == ls \ {writer}
<1>1. /\ t \in States
      /\ \A c \in Channels : t.values[c] = IF c \in D THEN values[c] ELSE st.values[c]
      /\ Select \notin heard => t.option = st.option /\ t.available = st.available
      /\ Select \in heard => t.option = UpdateSelect(w).option /\ t.available = UpdateSelect(w).available
      /\ \A n \in Numbers : t.native[n] = st.native[n] \/ (n \in heard /\ t.native[n] = FromDmx(n, BytesOf(t, n)))
      /\ \A n \in Numbers \cap heard : st.available[n] /\ t.available[n] => t.native[n] = FromDmx(n, BytesOf(t, n))
  <2>1. t \in Heard(w, heard)
    BY DEF Updated
  <2>2. heard \in SUBSET Entities
    BY DEF Listeners
  <2>3. /\ w \in States /\ w.option = st.option /\ w.available = st.available /\ w.native = st.native
        /\ \A c \in Channels : w.values[c] = IF c \in D THEN values[c] ELSE st.values[c]
    BY WrittenIs
  <2> HIDE DEF heard, w
  <2>4. /\ t \in States /\ t.values = w.values
        /\ Select \notin heard => t.option = w.option /\ t.available = w.available
        /\ Select \in heard => t.option = UpdateSelect(w).option /\ t.available = UpdateSelect(w).available
        /\ \A n \in Numbers : t.native[n] = w.native[n] \/ (n \in heard /\ t.native[n] = FromDmx(n, BytesOf(t, n)))
        /\ \A n \in Numbers \cap heard : w.available[n] /\ t.available[n] => t.native[n] = FromDmx(n, BytesOf(t, n))
    BY <2>1, <2>2, <2>3, HeardIs
  <2> QED BY <2>3, <2>4
<1>2. \A e \in Entities : e \in ls <=> Touched(st, t, e)
  BY <1>1, ListenersAre DEF Touched
<1>3. /\ w \in States /\ w.option = st.option /\ w.available = st.available
      /\ \A c \in Channels : w.values[c] = t.values[c]
  BY <1>1, WrittenIs
<1> HIDE DEF ls, w
<1>4. \A n \in Numbers : IF n = writer THEN t.native[n] = st.native[n] ELSE Follows(st, t, n)
  BY <1>1, <1>2, NumberIs DEF Follows, Shown
<1>5. /\ \A c \in Channels \ D : t.values[c] = st.values[c]
      /\ \A c \in D : t.values[c] = values[c] /\ values[c] \in Bytes
  BY <1>1
<1>6. ASSUME Touched(st, t, Select)
      PROVE  \/ \E o \in DOMAIN Options : IsApplicable(o, Value(t)) /\ Turned(st, t, o)
             \/ (\A o \in DOMAIN Options : ~IsApplicable(o, Value(t))) /\ Same(st, t)
  <2>1. t.option = UpdateSelect(w).option /\ t.available = UpdateSelect(w).available
    BY <1>1, <1>2, <1>6 DEF Entities
  <2>2. Value(w) = Value(t)
    <3>1. Select \in Entities /\ Slots(Select) \subseteq Channels
      BY EntityHasSlots DEF Entities
    <3> QED BY <1>3, <3>1, SameBytes DEF Value
  <2>3. CASE \E o \in DOMAIN Options : IsApplicable(o, Value(t))
    <3>1. PICK o \in DOMAIN Options : IsApplicable(o, Value(t))
      BY <2>3
    <3>2. UpdateSelect(w) = UpdateCurrentOption(w, o)
      BY <1>3, <2>2, <3>1, UpdateSelectIs
    <3> DEFINE x == UpdateCurrentOption(w, o)
    <3>3. /\ x.option = o
          /\ \A e \in Entities : x.available[e] = IF e \in EntitiesOf(o) THEN TRUE
                                                  ELSE IF e \in EntitiesOf(w.option) THEN FALSE ELSE w.available[e]
      BY <1>3, UpdateCurrentOptionIs
    <3> HIDE DEF x
    <3>4. t.option = x.option /\ t.available = x.available
      BY <2>1, <3>2 DEF x
    <3>5. Turned(st, t, o)
      BY <1>3, <3>3, <3>4 DEF Turned
    <3> QED BY <3>1, <3>5
  <2>4. CASE \A o \in DOMAIN Options : ~IsApplicable(o, Value(t))
    <3>1. UpdateSelect(w) = w
      BY <1>3, <2>2, <2>4, UpdateSelectIs
    <3> QED BY <1>3, <2>1, <2>4, <3>1 DEF Same
  <2> QED BY <2>3, <2>4
<1>7. ~Touched(st, t, Select) => Same(st, t)
  BY <1>1, <1>2 DEF Same, Entities
<1> QED BY <1>1, <1>4, <1>5, <1>6, <1>7 DEF Writes

(* Commands and restores of a number.                                        *)
LEMMA WithNative ==
    ASSUME fixture \in Fixtures, NEW st \in States, NEW n \in Numbers, NEW native \in Natives
    PROVE  LET u == [st EXCEPT !.native[n] = native]
           IN  /\ u \in States /\ u.values = st.values /\ u.option = st.option /\ u.available = st.available
               /\ \A m \in Numbers : u.native[m] = IF m = n THEN native ELSE st.native[m]
<1> DEFINE u == [st EXCEPT !.native[n] = native]
           g == [st.native EXCEPT ![n] = native]
<1>1. st.native \in [Numbers -> Natives]
  BY DEF States
<1>2. g \in [Numbers -> Natives] /\ \A m \in Numbers : g[m] = IF m = n THEN native ELSE st.native[m]
  BY <1>1
<1>3. u = [st EXCEPT !.native = g]
  BY DEF States
<1> HIDE DEF g, u
<1>4. u \in States /\ u.values = st.values /\ u.option = st.option /\ u.available = st.available /\ u.native = g
  BY <1>2, <1>3 DEF States
<1> QED BY <1>2, <1>4 DEF u

LEMMA WritesOfSame ==
    ASSUME fixture \in Fixtures, NEW st, NEW u, NEW t, NEW D, Writes(u, t, D),
           u.values = st.values, u.option = st.option, u.available = st.available
    PROVE  /\ Writes(st, t, D)
           /\ \A n \in Numbers : Follows(u, t, n) /\ u.native[n] = st.native[n] => Follows(st, t, n)
BY DEF Writes, Touched, Same, Turned, Follows

LEMMA SetNativeValueIs ==
    ASSUME fixture \in Fixtures, NEW st \in States, NEW n \in Numbers, NEW h \in Int, NEW t \in SetNativeValue(st, n, h)
    PROVE  /\ Writes(st, t, Slots(n)) /\ Shown(t, n)
           /\ \A m \in Numbers \ {n} : Follows(st, t, m)
<1> DEFINE bytes == ToDmx(n, h)
           u == [st EXCEPT !.native[n] = FromDmx(n, bytes)]
           values == Values(n, bytes)
<1>1. n \in Entities /\ n # Select /\ Slots(n) \subseteq Channels /\ Count(n) \in Nat
  BY NumberIs, EntityHasSlots
<1>2. HasBytes(bytes, Count(n))
  BY ToDmxBytes
<1>3. t \in Updated(u, values, n)
  BY DEF SetNativeValue
<1> HIDE DEF bytes
<1>4. values \in [Slots(n) -> Bytes]
  BY <1>1, <1>2, ValuesAre
<1>5. FromDmx(n, bytes) \in Natives
  BY <1>1, <1>2, FromDmxNative
<1>6. /\ u \in States /\ u.values = st.values /\ u.option = st.option /\ u.available = st.available
      /\ \A m \in Numbers : u.native[m] = IF m = n THEN FromDmx(n, bytes) ELSE st.native[m]
  BY <1>5, WithNative
<1> HIDE DEF u, values
<1>7. /\ Writes(u, t, Slots(n)) /\ \A c \in Slots(n) : t.values[c] = values[c]
      /\ \A m \in Numbers : IF m = n THEN t.native[m] = u.native[m] ELSE Follows(u, t, m)
  BY <1>1, <1>3, <1>4, <1>6, WriteIs
<1>8. BytesOf(t, n) = bytes
  BY <1>1, <1>2, <1>7, BytesWritten DEF values
<1>9. Shown(t, n)
  BY <1>6, <1>7, <1>8 DEF Shown
<1> QED BY <1>6, <1>7, <1>9, WritesOfSame

(* Writes of the bytes of an option.                                         *)
LEMMA WriteCapabilityIs ==
    ASSUME fixture \in Fixtures, NEW st \in States, NEW o \in DOMAIN Options, NEW t \in WriteCapability(st, o)
    PROVE  /\ Writes(st, t, Slots(Select)) /\ BytesOf(t, Select) = SelectBytes(o)
           /\ \A n \in Numbers : Follows(st, t, n)
<1> DEFINE bytes == SelectBytes(o)
           values == Values(Select, bytes)
<1>1. Select \in Entities /\ Slots(Select) \subseteq Channels /\ None # Select
  BY EntityHasSlots, NoneAssumption DEF Entities
<1>2. HasBytes(bytes, Count(Select))
  <2>1. ValueOf(o) \in Nat
    BY OptionIs
  <2>2. ValueOf(o) < Power[fixture.rangeBytes]
    BY OptionIs
  <2> QED BY <2>1, <2>2, SelectSlots, RangeBytesAre DEF SelectBytes, Count
<1>3. t \in Updated(st, values, None)
  BY DEF WriteCapability, SelectBytes
<1> HIDE DEF bytes
<1>4. values \in [Slots(Select) -> Bytes]
  BY <1>1, <1>2, ValuesAre
<1> HIDE DEF values
<1>5. /\ Writes(st, t, Slots(Select)) /\ \A c \in Slots(Select) : t.values[c] = values[c]
      /\ \A n \in Numbers : IF n = None THEN t.native[n] = st.native[n] ELSE Follows(st, t, n)
  BY <1>1, <1>3, <1>4, WriteIs
<1>6. None \notin Numbers
  BY SelectIsNoNumber DEF Entities
<1>7. BytesOf(t, Select) = bytes
  BY <1>1, <1>2, <1>5, BytesWritten DEF values
<1> QED BY <1>5, <1>6, <1>7 DEF bytes

-----------------------------------------------------------------------------
(* What is available belongs to the current option.                          *)
OnlyCurrent(st) ==
    \A o \in DOMAIN Options : \A e \in EntitiesOf(o) : st.available[e] => e \in EntitiesOf(st.option)

LEMMA EntitiesOfOption ==
    ASSUME fixture \in Fixtures, NEW o \in DOMAIN Options
    PROVE  EntitiesOf(o) \subseteq Numbers /\ EntitiesOf(o) \subseteq Entities
<1>1. EntitiesOf(o) \subseteq Numbers
  BY SlidersShareSlots, SwitchedToHasOtherSlots DEF EntitiesOf
<1> QED BY <1>1 DEF Entities

LEMMA TurnedOnlyCurrent ==
    ASSUME fixture \in Fixtures, NEW st, NEW t, NEW o \in DOMAIN Options, Turned(st, t, o), OnlyCurrent(st)
    PROVE  OnlyCurrent(t)
<1> SUFFICES ASSUME NEW p \in DOMAIN Options, NEW e \in EntitiesOf(p), t.available[e] PROVE e \in EntitiesOf(o)
  BY DEF OnlyCurrent, Turned
<1>1. e \in Entities
  BY EntitiesOfOption
<1>2. st.available[e] => e \in EntitiesOf(st.option)
  BY DEF OnlyCurrent
<1> QED BY <1>1, <1>2 DEF Turned

LEMMA WritesOnlyCurrent ==
    ASSUME fixture \in Fixtures, NEW st, NEW t, NEW D, Writes(st, t, D), OnlyCurrent(st)
    PROVE  OnlyCurrent(t)
<1>1. Same(st, t) \/ \E o \in DOMAIN Options : Turned(st, t, o)
  BY DEF Writes
<1>2. CASE Same(st, t)
  BY <1>2 DEF Same, OnlyCurrent
<1>3. CASE \E o \in DOMAIN Options : Turned(st, t, o)
  BY <1>3, TurnedOnlyCurrent
<1> QED BY <1>1, <1>2, <1>3

(* The select shows its channels.                                            *)
OptionShown(st) == IsSet(st, Select) => \A o \in DOMAIN Options : IsApplicable(o, Value(st)) => st.option = o

LEMMA WritesOptionShown ==
    ASSUME fixture \in Fixtures, NEW st, NEW t, NEW D, Writes(st, t, D), OptionShown(st)
    PROVE  OptionShown(t)
<1>1. t \in States /\ Value(t) \in Nat
  BY ValueNat DEF Writes
<1>2. CASE Touched(st, t, Select)
  <2>1. CASE \E o \in DOMAIN Options : IsApplicable(o, Value(t)) /\ Turned(st, t, o)
    BY <1>1, <2>1, OptionsApart DEF Turned, OptionShown
  <2>2. CASE \A o \in DOMAIN Options : ~IsApplicable(o, Value(t))
    BY <2>2 DEF OptionShown
  <2> QED BY <1>2, <2>1, <2>2 DEF Writes
<1>3. CASE ~Touched(st, t, Select)
  <2>1. BytesOf(t, Select) = BytesOf(st, Select) /\ (IsSet(t, Select) <=> IsSet(st, Select))
    BY <1>3, SameBytes DEF Touched, Entities
  <2>2. t.option = st.option
    BY <1>3 DEF Writes, Same
  <2> QED BY <2>1, <2>2 DEF OptionShown, Value
<1> QED BY <1>2, <1>3

(* The select has the option o, and the numbers ns, whose channels are other  *)
(* than its own, have been written again.                                     *)
Reapplied(st, u, o, ns) ==
    /\ u \in States /\ Turned(st, u, o)
    /\ \A c \in Channels : (\A n \in ns : c \notin Slots(n)) => u.values[c] = st.values[c]
    /\ \A n \in ns : n \in Numbers /\ Slots(n) \cap Slots(Select) = {} /\ Shown(u, n)
                     /\ \A c \in Slots(n) : u.values[c] \in Bytes
    /\ \A m \in Numbers \ ns :
          /\ ~Touched(st, u, m) => u.native[m] = st.native[m]
          /\ Touched(st, u, m) /\ u.available[m] => Shown(u, m)

LEMMA CurrentIsReapplied ==
    ASSUME fixture \in Fixtures, NEW st \in States, NEW o \in DOMAIN Options
    PROVE  Reapplied(st, UpdateCurrentOption(st, o), o, {})
<1> DEFINE u == UpdateCurrentOption(st, o)
<1>1. /\ u \in States /\ u.values = st.values /\ u.option = o /\ u.native = st.native
      /\ \A e \in Entities : u.available[e] = IF e \in EntitiesOf(o) THEN TRUE
                                              ELSE IF e \in EntitiesOf(st.option) THEN FALSE ELSE st.available[e]
  BY UpdateCurrentOptionIs
<1> HIDE DEF u
<1>2. Reapplied(st, u, o, {})
  BY <1>1 DEF Reapplied, Turned, Touched
<1> QED BY <1>2 DEF u

ReappliedBy(o) == {Options[o].switchesTo} \ {None}

LEMMA UpdateAndReapplyIs ==
    ASSUME fixture \in Fixtures, NEW st \in States, NEW o \in DOMAIN Options, NEW u \in UpdateAndReapply(st, o)
    PROVE  Reapplied(st, u, o, ReappliedBy(o))
<1> DEFINE v == UpdateCurrentOption(st, o)
           n == Options[o].switchesTo
<1>1. Reapplied(st, v, o, {})
  BY CurrentIsReapplied
<1>2. v \in States /\ v.values = st.values /\ v.native = st.native
  BY UpdateCurrentOptionIs
<1>3. UpdateAndReapply(st, o) = IF n = None THEN {v} ELSE SetNativeValue(v, n, NativeValue(n, v.native[n]))
  BY DEF UpdateAndReapply
<1> HIDE DEF v
<1>4. CASE n = None
  BY <1>1, <1>3, <1>4 DEF ReappliedBy
<1>5. CASE n # None
  <2>1. n \in Numbers /\ Slots(n) \cap Slots(Select) = {}
    BY <1>5, SwitchedToHasOtherSlots
  <2>2. ReappliedBy(o) = {n}
    BY <1>5 DEF ReappliedBy
  <2> HIDE DEF n
  <2>3. NativeValue(n, v.native[n]) \in Int
    <3>1. v.native[n] \in Natives
      BY <1>2, <2>1 DEF States
    <3> QED BY <2>1, <3>1, NativeValueInt
  <2>4. u \in SetNativeValue(v, n, NativeValue(n, v.native[n]))
    BY <1>3, <1>5
  <2>5. Writes(v, u, Slots(n)) /\ Shown(u, n) /\ \A m \in Numbers \ {n} : Follows(v, u, m)
    <3> DEFINE h == NativeValue(n, v.native[n])
    <3> HIDE DEF h
    <3>1. h \in Int /\ u \in SetNativeValue(v, n, h)
      BY <2>3, <2>4 DEF h
    <3> QED BY <1>2, <2>1, <3>1, SetNativeValueIs
  <2>6. Select \in Entities /\ Slots(Select) \subseteq Channels /\ Slots(n) \subseteq Channels
    BY <2>1, EntityHasSlots, NumberIs DEF Entities
  <2>7. Same(v, u)
    BY <2>1, <2>5, <2>6 DEF Writes, Touched
  <2>8. u \in States /\ Turned(st, u, o)
    BY <1>1, <2>5, <2>7 DEF Writes, Reapplied, Turned, Same
  <2>9. \A m \in Numbers \ {n} : /\ ~Touched(st, u, m) => u.native[m] = st.native[m]
                                 /\ Touched(st, u, m) /\ u.available[m] => Shown(u, m)
    BY <1>2, <2>5, <2>7 DEF Follows, Touched, Same
  <2>10. \A c \in Channels : c \notin Slots(n) => u.values[c] = st.values[c]
    BY <1>2, <2>5 DEF Writes
  <2>11. \A c \in Slots(n) : u.values[c] \in Bytes
    BY <2>5 DEF Writes
  <2> QED BY <2>1, <2>2, <2>5, <2>8, <2>9, <2>10, <2>11 DEF Reapplied
<1> QED BY <1>4, <1>5

LEMMA ShownStays ==
    ASSUME fixture \in Fixtures, NEW st, NEW t, NEW n \in Numbers, ~Touched(st, t, n), t.native[n] = st.native[n]
    PROVE  Shown(t, n) <=> Shown(st, n)
BY SameBytes, NumberIs DEF Touched, Shown

LEMMA OptionWritten ==
    ASSUME fixture \in Fixtures, NEW st \in States, NEW o \in DOMAIN Options, NEW ns, NEW u, Reapplied(st, u, o, ns),
           NEW t \in WriteCapability(u, o)
    PROVE  /\ t \in States /\ BytesOf(t, Select) = SelectBytes(o)
           /\ \A c \in Channels : c \notin Slots(Select) /\ (\A n \in ns : c \notin Slots(n)) => t.values[c] = st.values[c]
           /\ \A c \in Slots(Select) : t.values[c] \in Bytes
           /\ OnlyCurrent(st) => OnlyCurrent(t)
           /\ \A n \in ns : Shown(t, n) /\ \A c \in Slots(n) : t.values[c] \in Bytes
           /\ HasBytesFor(o) =>
                 /\ t.option = o /\ OptionShown(t)
                 /\ Options[o].slider # None /\ Touched(st, t, Select) => Shown(t, Options[o].slider)
                 /\ \A m \in Numbers \ ns : Follows(st, t, m)
<1>1. /\ u \in States /\ Turned(st, u, o) /\ u.option = o
      /\ \A c \in Channels : (\A n \in ns : c \notin Slots(n)) => u.values[c] = st.values[c]
      /\ \A n \in ns : n \in Numbers /\ Slots(n) \cap Slots(Select) = {} /\ Shown(u, n)
                       /\ \A c \in Slots(n) : u.values[c] \in Bytes
      /\ \A m \in Numbers \ ns : /\ ~Touched(st, u, m) => u.native[m] = st.native[m]
                                 /\ Touched(st, u, m) /\ u.available[m] => Shown(u, m)
  BY DEF Reapplied, Turned
<1>2. /\ Writes(u, t, Slots(Select)) /\ BytesOf(t, Select) = SelectBytes(o)
      /\ \A n \in Numbers : Follows(u, t, n)
  BY <1>1, WriteCapabilityIs
<1>3. /\ t \in States
      /\ \A c \in Channels : c \notin Slots(Select) => t.values[c] = u.values[c]
      /\ \A c \in Slots(Select) : t.values[c] \in Bytes
  BY <1>2 DEF Writes
<1>4. \A m \in Numbers : m \in Entities /\ Slots(m) \subseteq Channels
  BY NumberIs, EntityHasSlots
<1>5. Slots(Select) \subseteq Channels /\ \A c \in Slots(Select) : u.values[c] = st.values[c]
  <2>1. Slots(Select) \subseteq Channels
    BY EntityHasSlots DEF Entities
  <2> QED BY <1>1, <2>1
<1>6. OnlyCurrent(st) => OnlyCurrent(t)
  BY <1>1, <1>2, TurnedOnlyCurrent, WritesOnlyCurrent
<1>7. ASSUME NEW n \in ns PROVE Shown(t, n) /\ \A c \in Slots(n) : t.values[c] \in Bytes
  <2>1. n \in Numbers /\ Slots(n) \cap Slots(Select) = {} /\ Shown(u, n) /\ Slots(n) \subseteq Channels
    BY <1>1, <1>4
  <2>2. \A c \in Slots(n) : t.values[c] = u.values[c]
    BY <1>3, <2>1
  <2>3. ~Touched(u, t, n)
    BY <2>2 DEF Touched
  <2>4. t.native[n] = u.native[n]
    BY <1>2, <2>1, <2>3 DEF Follows
  <2>5. Shown(t, n)
    BY <2>1, <2>3, <2>4, ShownStays
  <2> QED BY <1>1, <2>2, <2>5
<1>8. \A c \in Channels : c \notin Slots(Select) /\ (\A n \in ns : c \notin Slots(n)) => t.values[c] = st.values[c]
  BY <1>1, <1>3
<1>9. ASSUME HasBytesFor(o) PROVE t.option = o /\ OptionShown(t) /\ \A e \in Entities : t.available[e] = u.available[e]
  <2>1. IsApplicable(o, Value(t)) /\ Value(t) \in Nat
    BY <1>2, <1>3, <1>9, BytesStandForOption, ValueNat DEF Value
  <2>2. \A p \in DOMAIN Options : IsApplicable(p, Value(t)) => p = o
    BY <2>1, OptionsApart
  <2>3. CASE ~Touched(u, t, Select)
    BY <1>1, <1>2, <2>2, <2>3 DEF Writes, Same, OptionShown
  <2>4. CASE Touched(u, t, Select)
    <3>1. Turned(u, t, o)
      BY <1>2, <2>1, <2>2, <2>4 DEF Writes
    <3>2. \A e \in Entities : t.available[e] = u.available[e]
      BY <1>1, <3>1 DEF Turned
    <3> QED BY <2>2, <3>1, <3>2 DEF Turned, OptionShown
  <2> QED BY <2>3, <2>4
<1>10. ASSUME HasBytesFor(o), Options[o].slider # None, Touched(st, t, Select) PROVE Shown(t, Options[o].slider)
  <2> DEFINE m == Options[o].slider
  <2>1. m \in Numbers /\ Slots(m) = Slots(Select) /\ m \in EntitiesOf(o)
    BY <1>10, SlidersShareSlots DEF EntitiesOf
  <2>2. u.available[m] /\ t.available[m]
    BY <1>1, <1>4, <1>9, <1>10, <2>1 DEF Turned
  <2>3. Touched(u, t, m)
    BY <1>5, <1>10, <2>1 DEF Touched
  <2> QED BY <1>2, <2>1, <2>2, <2>3 DEF Follows
<1>11. ASSUME HasBytesFor(o), NEW m \in Numbers \ ns PROVE Follows(st, t, m)
  <2>1. m \in Entities /\ Slots(m) \subseteq Channels
    BY <1>4
  <2>2. CASE Touched(u, t, m)
    <3>1. Touched(st, t, m)
      BY <1>3, <1>5, <2>1, <2>2 DEF Touched
    <3> QED BY <1>2, <1>9, <1>11, <2>1, <2>2, <3>1 DEF Follows
  <2>3. CASE ~Touched(u, t, m)
    <3>1. t.native[m] = u.native[m]
      BY <1>2, <2>3 DEF Follows
    <3>2. Shown(t, m) <=> Shown(u, m)
      BY <2>3, <3>1, ShownStays
    <3>3. Touched(st, t, m) <=> Touched(st, u, m)
      BY <2>3 DEF Touched
    <3> QED BY <1>1, <1>9, <1>11, <2>1, <3>1, <3>2, <3>3 DEF Follows
  <2> QED BY <2>2, <2>3
<1> QED BY <1>2, <1>3, <1>6, <1>7, <1>8, <1>9, <1>10, <1>11

-----------------------------------------------------------------------------
(* Home Assistant starts with no value on any channel.                       *)
LEMMA StartNative ==
    ASSUME fixture \in Fixtures, NEW n \in Numbers, NEW clicked \in SUBSET DOMAIN Options,
           \A o \in clicked : Options[o].menuClick # None
    PROVE  FromRangeValue(n, IF clicked = {} THEN 0 ELSE Options[CHOOSE o \in clicked : TRUE].menuClick) \in Natives
<1> DEFINE value == IF clicked = {} THEN 0 ELSE Options[CHOOSE o \in clicked : TRUE].menuClick
<1>1. value \in Int
  <2>1. CASE clicked = {}
    BY <2>1
  <2>2. CASE clicked # {}
    <3>1. PICK o \in clicked : o = CHOOSE p \in clicked : TRUE
      BY <2>2
    <3>2. Options[o].menuClick \in Nat
      BY OptionIs
    <3> QED BY <2>2, <3>1, <3>2
  <2> QED BY <2>1, <2>2
<1> HIDE DEF value
<1>2. value * HighestOf(Count(n)) \in Int
  BY <1>1, NumberIs, IntProducts
<1> QED BY <1>2 DEF value, FromRangeValue, Exact, Natives, Count

LEMMA ConstructedIs ==
    ASSUME fixture \in Fixtures
    PROVE  Constructed \in States /\ (\A c \in Channels : Constructed.values[c] = None) /\ OnlyCurrent(Constructed)
<1> DEFINE hidden == UNION {EntitiesOf(o) : o \in DOMAIN Options}
           clicked(n) == {o \in DOMAIN Options : Options[o].slider = n /\ Options[o].menuClick # None}
           values == [c \in Channels |-> None]
           available == [e \in Entities |-> e \notin hidden]
           native == [n \in Numbers |->
                        FromRangeValue(n, IF clicked(n) = {} THEN 0
                                          ELSE Options[CHOOSE o \in clicked(n) : TRUE].menuClick)]
           start == [values |-> values, option |-> 1, available |-> available, native |-> native]
           u == UpdateOptionTo(start, fixture.default)
           v == [u EXCEPT !.available = start.available]
           t == SetAvailability(v, TRUE)
<1>1. Constructed = t
  BY DEF Constructed
<1>2. native \in [Numbers -> Natives]
  <2>1. \A n \in Numbers : /\ clicked(n) \in SUBSET DOMAIN Options
                           /\ \A o \in clicked(n) : Options[o].menuClick # None
    OBVIOUS
  <2> HIDE DEF clicked
  <2>2. \A n \in Numbers : FromRangeValue(n, IF clicked(n) = {} THEN 0
                                             ELSE Options[CHOOSE o \in clicked(n) : TRUE].menuClick) \in Natives
    BY <2>1, StartNative
  <2> QED BY <2>2
<1>3. available \in [Entities -> BOOLEAN] /\ values \in [Channels -> Bytes \cup {None}] /\ 1 \in DOMAIN Options
  BY FixtureIs DEF IsFixture, Options
<1>4. \A o \in DOMAIN Options : \A e \in EntitiesOf(o) : e \in Entities /\ ~available[e]
  BY EntitiesOfOption
<1>5. \A c \in Channels : values[c] = None
  OBVIOUS
<1> HIDE DEF native, available, values
<1>6. start \in States /\ start.values = values /\ start.available = available
  BY <1>2, <1>3 DEF States
<1> HIDE DEF start
<1>7. u \in States /\ u.values = values
  <2>1. fixture.default \in Nat
    BY FixtureIs DEF IsFixture
  <2>2. CASE \E o \in DOMAIN Options : IsApplicable(o, fixture.default)
    <3>1. PICK o \in DOMAIN Options : u = UpdateCurrentOption(start, o)
      BY <2>1, <2>2, UpdateOptionToIs
    <3>2. UpdateCurrentOption(start, o) \in States /\ UpdateCurrentOption(start, o).values = values
      BY <1>6, UpdateCurrentOptionIs
    <3> QED BY <3>1, <3>2
  <2>3. CASE \A o \in DOMAIN Options : ~IsApplicable(o, fixture.default)
    BY <1>6, <2>1, <2>3, UpdateOptionToIs
  <2> QED BY <2>2, <2>3
<1> HIDE DEF u
<1>8. v \in States /\ v.values = values /\ v.available = available
  BY <1>3, <1>6, <1>7 DEF States
<1> HIDE DEF v
<1>9. /\ t \in States /\ t.values = values /\ t.option = v.option
      /\ \A e \in Entities : t.available[e] = IF e \in EntitiesOf(v.option) THEN TRUE ELSE v.available[e]
  BY <1>8, SetAvailabilityIs
<1> HIDE DEF t
<1>10. OnlyCurrent(t)
  BY <1>4, <1>8, <1>9 DEF OnlyCurrent
<1> QED BY <1>1, <1>5, <1>9, <1>10

-----------------------------------------------------------------------------
(* A fixture stays as it is.                                                 *)
LEMMA SameFixture ==
    ASSUME fixture' = fixture
    PROVE  /\ Numbers' = Numbers /\ Entities' = Entities /\ Options' = Options /\ Channels' = Channels
           /\ States' = States
           /\ (OnlyCurrent(s))' <=> OnlyCurrent(s')
           /\ (OptionShown(s))' <=> OptionShown(s')
           /\ (IsSet(s, Select))' <=> IsSet(s', Select)
           /\ \A n : /\ (Slots(n))' = Slots(n)
                     /\ (Shown(s, n))' <=> Shown(s', n)
           /\ \A o : (HasBytesFor(o))' <=> HasBytesFor(o)
<1>1. Numbers' = Numbers /\ Options' = Options
  BY DEF Numbers, Options
<1>2. Entities' = Entities
  BY <1>1 DEF Entities
<1>3. \A e : (ChannelsOf(e))' = ChannelsOf(e)
  BY DEF ChannelsOf
<1>4. \A e : (Slots(e))' = Slots(e)
  BY <1>3 DEF Slots, ToSet
<1>5. Channels' = Channels
  BY <1>2, <1>3 DEF Channels, ToSet
<1>6. States' = States
  BY <1>1, <1>2, <1>5 DEF States, Natives
<1>7. \A o : (EntitiesOf(o))' = EntitiesOf(o)
  BY <1>1 DEF EntitiesOf
<1>8. (OnlyCurrent(s))' <=> OnlyCurrent(s')
  BY <1>1, <1>7 DEF OnlyCurrent, EntitiesOf
<1>9. \A e : (BytesOf(s, e))' = BytesOf(s', e) /\ ((IsSet(s, e))' <=> IsSet(s', e))
  BY <1>3 DEF BytesOf, IsSet, ToSet
<1>10. (Value(s))' = Value(s')
  BY <1>9 DEF Value, RangeValue
<1>11. (OptionShown(s))' <=> OptionShown(s')
  BY <1>1, <1>9, <1>10 DEF OptionShown, IsApplicable
<1>12. \A n : (Shown(s, n))' <=> Shown(s', n)
  BY <1>9 DEF Shown, FromDmx, Exact
<1>13. \A o : (HasBytesFor(o))' <=> HasBytesFor(o)
  BY <1>1 DEF HasBytesFor, CanExpress, Expressible, Highest, ValueOf, IsApplicable
<1> QED BY <1>1, <1>2, <1>4, <1>5, <1>6, <1>8, <1>9, <1>11, <1>12, <1>13

-----------------------------------------------------------------------------
(* The inductive invariant: what the entities show has its types, what was    *)
(* last commanded or received is on the channels, and until the universe is   *)
(* switched, what is available belongs to the current option.                 *)
Phases == {"constructed", "asking", "added"}

CurrentAvailable == ~switched => OnlyCurrent(s)

Kept ==
    /\ fixture \in Fixtures /\ s \in States /\ phase \in [Entities -> Phases]
    /\ stored.option \in DOMAIN Options \cup {None} /\ stored.native \in [Numbers -> Int \cup {None}]
    /\ missed \subseteq Numbers /\ switched \in BOOLEAN
    /\ LatestCommandStays
    /\ CurrentAvailable

(* ... and, for a fixture whose channels have bytes for each of its options,  *)
(* the select shows its channels, a number that has followed its channels     *)
(* shows them once they have values, hidden or not, and after a restart the   *)
(* select's channels have no value until it has been restored to its option.  *)
NumberShown(st, n) == (\A c \in Slots(n) : st.values[c] # None) => Shown(st, n)
NumbersShown == \A n \in Numbers \ missed : NumberShown(s, n)

EveryOptionExpressible == \A o \in DOMAIN Options : HasBytesFor(o)

Untaken == stored.option # None /\ \A c \in Channels : wanted[c] = None
Restoring == Untaken => IF phase[Select] = "added" THEN s.option = stored.option ELSE ~IsSet(s, Select)

Matching == EveryOptionExpressible /\ OptionShown(s) /\ NumbersShown /\ Restoring

LEMMA KeptIfSo ==
    ASSUME fixture \in Fixtures, fixture' = fixture, s' \in States, phase' \in [Entities -> Phases],
           stored'.option \in DOMAIN Options \cup {None}, stored'.native \in [Numbers -> Int \cup {None}],
           missed' \subseteq Numbers, switched' \in BOOLEAN,
           \A c \in Channels : wanted'[c] # None => s'.values[c] = wanted'[c],
           ~switched' => OnlyCurrent(s')
    PROVE  Kept'
<1>1. Numbers' = Numbers /\ Entities' = Entities /\ Options' = Options /\ Channels' = Channels /\ States' = States
  BY SameFixture
<1>2. LatestCommandStays'
  BY <1>1 DEF LatestCommandStays
<1>3. CurrentAvailable'
  BY SameFixture DEF CurrentAvailable
<1> QED BY <1>1, <1>2, <1>3 DEF Kept, Phases

LEMMA MatchingIfSo ==
    ASSUME Matching, fixture' = fixture, OptionShown(s'), \A n \in Numbers \ missed' : NumberShown(s', n),
           Untaken' => IF phase'[Select] = "added" THEN s'.option = stored'.option ELSE ~IsSet(s', Select)
    PROVE  Matching'
<1>1. Numbers' = Numbers /\ Options' = Options
  BY SameFixture
<1>2. \A n : (Slots(n))' = Slots(n) /\ ((Shown(s, n))' <=> Shown(s', n))
  BY SameFixture
<1>3. \A n : (NumberShown(s, n))' <=> NumberShown(s', n)
  BY <1>2 DEF NumberShown
<1>4. NumbersShown'
  BY <1>1, <1>3 DEF NumbersShown
<1>5. EveryOptionExpressible'
  <2>1. \A o : (HasBytesFor(o))' <=> HasBytesFor(o)
    BY SameFixture
  <2> QED BY <1>1, <2>1 DEF EveryOptionExpressible, Matching
<1>6. Restoring'
  BY SameFixture DEF Restoring
<1>7. (OptionShown(s))'
  BY SameFixture
<1> QED BY <1>4, <1>5, <1>6, <1>7 DEF Matching

(* What a command or a frame has written is wanted.                          *)
LEMMA TakenIfWritten ==
    ASSUME fixture' = fixture, NEW written, Wanted(written), NEW c \in written \cap Channels, s'.values[c] # None
    PROVE  ~Untaken'
<1>1. wanted'[c] # None
  BY DEF Wanted
<1>2. Channels' = Channels
  BY SameFixture
<1> QED BY <1>1, <1>2 DEF Untaken

LEMMA WantedStays ==
    ASSUME Kept, NEW written, Wanted(written), \A c \in Channels : c \notin written => s'.values[c] = s.values[c]
    PROVE  \A c \in Channels : wanted'[c] # None => s'.values[c] = wanted'[c]
BY DEF Kept, LatestCommandStays, Wanted

LEMMA MissedAreNumbers == ASSUME missed \subseteq Numbers, NEW updated, Missed(updated) PROVE missed' \subseteq Numbers
BY DEF Missed

(* A number that is not missed has been updated or has followed.             *)
LEMMA NotMissed ==
    ASSUME fixture \in Fixtures, NEW updated, Missed(updated), NEW n \in Numbers \ missed', n \notin updated,
           Follows(s, s', n), n \notin missed => NumberShown(s, n)
    PROVE  NumberShown(s', n)
<1>1. Changed(n) <=> Touched(s, s', n)
  BY DEF Changed, Touched, Slots
<1>2. CASE Touched(s, s', n)
  <2>1. s.available[n] /\ s'.available[n]
    BY <1>1, <1>2 DEF Missed
  <2> QED BY <1>2, <2>1 DEF Follows, NumberShown
<1>3. CASE ~Touched(s, s', n)
  <2>1. n \notin missed
    BY <1>1, <1>3 DEF Missed
  <2>2. Shown(s', n) <=> Shown(s, n)
    BY <1>3, ShownStays DEF Follows
  <2> QED BY <1>3, <2>1, <2>2 DEF NumberShown, Touched
<1> QED BY <1>2, <1>3

-----------------------------------------------------------------------------
(* The steps.                                                                *)
LEMMA WishesInt == ASSUME fixture \in Fixtures, NEW n \in Numbers PROVE Wishes(n) \subseteq Int
<1> DEFINE number == fixture.numbers[n]
<1>1. number.low \in Int /\ number.high \in Int
  BY FixtureIs DEF IsFixture, IsNumber, Numbers
<1>2. Wishes(n) = {100 * number.low, 50 * (number.low + number.high), 100 * number.high}
  BY DEF Wishes
<1> HIDE DEF number
<1> QED BY <1>1, <1>2

LEMMA SlotsOfEntities ==
    ASSUME fixture \in Fixtures
    PROVE  /\ \A e \in Entities : Slots(e) \subseteq Channels /\ Slots(e) # {}
           /\ \A n \in Numbers : n \in Entities /\ n # Select
           /\ Select \in Entities
BY EntityHasSlots, NumberIs DEF Entities

LEMMA SetNumberKeeps ==
    ASSUME Kept, NEW n \in Numbers, NEW h \in Int, SetNumber(n, h)
    PROVE  Kept' /\ (Matching => Matching')
<1>1. /\ fixture \in Fixtures /\ s \in States /\ missed \subseteq Numbers
      /\ s' \in SetNativeValue(s, n, h) /\ Missed({n}) /\ Wanted(Slots(n))
      /\ UNCHANGED <<fixture, phase, stored, switched>>
  BY DEF Kept, SetNumber, Slots
<1>2. Writes(s, s', Slots(n)) /\ Shown(s', n) /\ \A m \in Numbers \ {n} : Follows(s, s', m)
  BY <1>1, SetNativeValueIs
<1>3. \A c \in Channels : c \notin Slots(n) => s'.values[c] = s.values[c]
  BY <1>2 DEF Writes
<1>4. Kept'
  <2>1. \A c \in Channels : wanted'[c] # None => s'.values[c] = wanted'[c]
    BY <1>1, <1>3, WantedStays
  <2>2. ~switched' => OnlyCurrent(s')
    BY <1>1, <1>2, WritesOnlyCurrent DEF Kept, CurrentAvailable
  <2>3. s' \in States /\ missed' \subseteq Numbers
    BY <1>1, <1>2, MissedAreNumbers DEF Writes
  <2> QED BY <1>1, <2>1, <2>2, <2>3, KeptIfSo DEF Kept
<1>5. ASSUME Matching PROVE Matching'
  <2>1. OptionShown(s')
    BY <1>1, <1>2, <1>5, WritesOptionShown DEF Matching
  <2>2. ASSUME NEW m \in Numbers \ missed' PROVE NumberShown(s', m)
    <3>1. CASE m = n
      BY <1>2, <3>1 DEF NumberShown
    <3>2. CASE m # n
      <4>1. Follows(s, s', m) /\ (m \notin missed => NumberShown(s, m))
        BY <1>2, <1>5, <3>2 DEF Matching, NumbersShown
      <4> QED BY <1>1, <3>2, <4>1, NotMissed
    <3> QED BY <3>1, <3>2
  <2>3. ~Untaken'
    <3>1. PICK c \in Slots(n) : c \in Channels
      BY <1>1, SlotsOfEntities
    <3>2. s'.values[c] # None
      BY <1>2, NoneIsNoByte DEF Writes
    <3> QED BY <1>1, <3>1, <3>2, TakenIfWritten
  <2> QED BY <1>1, <1>5, <2>1, <2>2, <2>3, MatchingIfSo
<1> QED BY <1>4, <1>5

(* The numbers after an option was written: the ones written again, the       *)
(* slider of the option, and those that followed.                             *)
LEMMA NumbersOfOption ==
    ASSUME Kept, Matching, NEW o \in DOMAIN Options, NEW ns, NEW u, Reapplied(s, u, o, ns), s' \in WriteCapability(u, o),
           NEW updated, updated \cap Numbers \subseteq ns \cup (IF Changed(Select) THEN {Options[o].slider} ELSE {}),
           Missed(updated), NEW n \in Numbers \ missed'
    PROVE  NumberShown(s', n)
<1>1. fixture \in Fixtures /\ s \in States /\ HasBytesFor(o) /\ (n \notin missed => NumberShown(s, n))
  BY DEF Kept, Matching, NumbersShown, EveryOptionExpressible
<1>2. /\ \A m \in ns : Shown(s', m)
      /\ Options[o].slider # None /\ Touched(s, s', Select) => Shown(s', Options[o].slider)
      /\ \A m \in Numbers \ ns : Follows(s, s', m)
  BY <1>1, OptionWritten
<1>3. CASE n \in ns
  BY <1>2, <1>3 DEF NumberShown
<1>4. CASE n \in updated /\ n \notin ns
  <2>1. n = Options[o].slider /\ Changed(Select) /\ n # None
    BY <1>1, <1>4, SelectIsNoNumber DEF Entities
  <2>2. Touched(s, s', Select)
    BY <2>1 DEF Changed, Touched, Slots
  <2> QED BY <1>2, <2>1, <2>2 DEF NumberShown
<1>5. CASE n \notin updated /\ n \notin ns
  BY <1>1, <1>2, <1>5, NotMissed
<1> QED BY <1>3, <1>4, <1>5

LEMMA SelectOptionKeeps ==
    ASSUME Kept, NEW o \in DOMAIN Options, SelectOption(o)
    PROVE  Kept' /\ (Matching => Matching')
<1> DEFINE ns == ReappliedBy(o)
           updated == {Options[o].switchesTo} \cup (IF Changed(Select) THEN {Options[o].slider} ELSE {})
           written == Slots(Select) \cup UNION {Slots(n) : n \in ns}
<1>1. /\ fixture \in Fixtures /\ s \in States /\ missed \subseteq Numbers
      /\ Missed(updated) /\ UNCHANGED <<fixture, phase, stored, switched>>
  BY DEF Kept, SelectOption
<1>2. Wanted(written)
  <2>1. Slots(Select) = ToSet(fixture.channels)
    BY DEF Slots, ChannelsOf
  <2>2. UNION {Slots(n) : n \in ns} = IF Options[o].switchesTo = None THEN {} ELSE ToSet(ChannelsOf(Options[o].switchesTo))
    BY DEF ReappliedBy, Slots
  <2>3. Wanted(ToSet(fixture.channels) \cup
                 (IF Options[o].switchesTo = None THEN {} ELSE ToSet(ChannelsOf(Options[o].switchesTo))))
    BY DEF SelectOption
  <2> QED BY <2>1, <2>2, <2>3
<1>3. PICK u \in UpdateAndReapply(s, o) : s' \in WriteCapability(u, o)
  BY DEF SelectOption
<1>4. Reapplied(s, u, o, ns)
  BY <1>1, <1>3, UpdateAndReapplyIs
<1>5. updated \cap Numbers \subseteq ns \cup (IF Changed(Select) THEN {Options[o].slider} ELSE {})
  <2>1. None \notin Numbers
    BY <1>1, SelectIsNoNumber DEF Entities
  <2> QED BY <2>1 DEF ReappliedBy
<1> HIDE DEF ns, updated
<1>6. /\ s' \in States
      /\ \A c \in Channels : c \notin Slots(Select) /\ (\A n \in ns : c \notin Slots(n)) => s'.values[c] = s.values[c]
      /\ \A c \in Slots(Select) : s'.values[c] \in Bytes
      /\ OnlyCurrent(s) => OnlyCurrent(s')
      /\ HasBytesFor(o) => OptionShown(s')
  BY <1>1, <1>3, <1>4, OptionWritten
<1>7. Kept'
  <2>1. \A c \in Channels : wanted'[c] # None => s'.values[c] = wanted'[c]
    <3>1. \A c \in Channels : c \notin written => s'.values[c] = s.values[c]
      BY <1>6
    <3> QED BY <1>2, <3>1, WantedStays
  <2>2. ~switched' => OnlyCurrent(s')
    BY <1>1, <1>6 DEF Kept, CurrentAvailable
  <2>3. missed' \subseteq Numbers
    BY <1>1, MissedAreNumbers
  <2> QED BY <1>1, <1>6, <2>1, <2>2, <2>3, KeptIfSo DEF Kept
<1>8. ASSUME Matching PROVE Matching'
  <2>1. OptionShown(s')
    BY <1>6, <1>8 DEF Matching, EveryOptionExpressible
  <2>2. \A n \in Numbers \ missed' : NumberShown(s', n)
    BY <1>1, <1>3, <1>4, <1>5, <1>8, NumbersOfOption
  <2>3. ~Untaken'
    <3>1. PICK c \in Slots(Select) : c \in Channels
      BY <1>1, SlotsOfEntities
    <3>2. s'.values[c] # None
      BY <1>6, NoneIsNoByte
    <3> QED BY <1>1, <1>2, <3>1, <3>2, TakenIfWritten
  <2> QED BY <1>1, <1>8, <2>1, <2>2, <2>3, MatchingIfSo
<1> QED BY <1>7, <1>8

LEMMA FrameKeeps ==
    ASSUME Kept, NEW values \in [Channels -> Levels], Frame(values)
    PROVE  Kept' /\ (Matching => Matching')
<1>1. /\ fixture \in Fixtures /\ s \in States /\ missed \subseteq Numbers
      /\ s' \in Updated(s, values, None) /\ Missed({}) /\ Wanted(Channels)
      /\ UNCHANGED <<fixture, phase, stored, switched>>
  BY DEF Kept, Frame
<1>2. values \in [Channels -> Bytes] /\ None # Select /\ None \notin Numbers
  BY <1>1, LevelsAssumption, NoneAssumption, SelectIsNoNumber DEF Entities
<1>3. /\ Writes(s, s', Channels) /\ \A c \in Channels : s'.values[c] = values[c]
      /\ \A n \in Numbers : Follows(s, s', n)
  <2> DEFINE D == Channels
  <2>1. D \in SUBSET Channels /\ values \in [D -> Bytes]
    BY <1>2
  <2> HIDE DEF D
  <2>2. /\ Writes(s, s', D) /\ \A c \in D : s'.values[c] = values[c]
        /\ \A n \in Numbers : IF n = None THEN s'.native[n] = s.native[n] ELSE Follows(s, s', n)
    BY <1>1, <1>2, <2>1, WriteIs
  <2> QED BY <1>2, <2>2 DEF D
<1>4. Kept'
  <2>1. \A c \in Channels : wanted'[c] # None => s'.values[c] = wanted'[c]
    BY <1>1, WantedStays
  <2>2. ~switched' => OnlyCurrent(s')
    BY <1>1, <1>3, WritesOnlyCurrent DEF Kept, CurrentAvailable
  <2>3. s' \in States /\ missed' \subseteq Numbers
    BY <1>1, <1>3, MissedAreNumbers DEF Writes
  <2> QED BY <1>1, <2>1, <2>2, <2>3, KeptIfSo DEF Kept
<1>5. ASSUME Matching PROVE Matching'
  <2>1. OptionShown(s')
    BY <1>1, <1>3, <1>5, WritesOptionShown DEF Matching
  <2>2. ASSUME NEW m \in Numbers \ missed' PROVE NumberShown(s', m)
    <3>1. Follows(s, s', m) /\ (m \notin missed => NumberShown(s, m))
      BY <1>3, <1>5 DEF Matching, NumbersShown
    <3> QED BY <1>1, <3>1, NotMissed
  <2>3. ~Untaken'
    <3>1. PICK c \in Slots(Select) : c \in Channels
      BY <1>1, SlotsOfEntities
    <3>2. s'.values[c] # None
      BY <1>2, <1>3, <3>1, NoneIsNoByte
    <3> QED BY <1>1, <3>1, <3>2, TakenIfWritten
  <2> QED BY <1>1, <1>5, <2>1, <2>2, <2>3, MatchingIfSo
<1> QED BY <1>4, <1>5

(* Without a change of values and options, shown is what was.                *)
LEMMA ShownAsBefore ==
    ASSUME Kept, Matching, s'.values = s.values, s'.option = s.option
    PROVE  /\ OptionShown(s') /\ (IsSet(s', Select) <=> IsSet(s, Select))
           /\ \A n \in Numbers \ missed : s'.native[n] = s.native[n] => NumberShown(s', n)
<1>1. fixture \in Fixtures /\ OptionShown(s) /\ \A n \in Numbers \ missed : NumberShown(s, n)
  BY DEF Kept, Matching, NumbersShown
<1>2. \A e \in Entities : BytesOf(s', e) = BytesOf(s, e) /\ (IsSet(s', e) <=> IsSet(s, e))
  BY <1>1, SameBytes
<1>3. OptionShown(s') /\ (IsSet(s', Select) <=> IsSet(s, Select))
  BY <1>1, <1>2 DEF OptionShown, Value, Entities
<1>4. \A n \in Numbers \ missed : s'.native[n] = s.native[n] => NumberShown(s', n)
  BY <1>1, <1>2, NumberIs DEF NumberShown, Shown
<1> QED BY <1>3, <1>4

LEMMA SwitchKeeps ==
    ASSUME Kept, NEW on \in BOOLEAN, Switch(on)
    PROVE  Kept' /\ (Matching => Matching')
<1> DEFINE available == [e \in Entities |-> on]
<1>1. /\ fixture \in Fixtures /\ s \in States /\ LatestCommandStays
      /\ s' = [s EXCEPT !.available = available] /\ switched' = TRUE
      /\ UNCHANGED <<fixture, phase, stored, wanted, missed>>
  BY DEF Kept, Switch
<1>2. available \in [Entities -> BOOLEAN]
  OBVIOUS
<1> HIDE DEF available
<1>3. s' \in States /\ s'.values = s.values /\ s'.option = s.option /\ s'.native = s.native
  BY <1>1, <1>2 DEF States
<1>4. Kept'
  <2>1. \A c \in Channels : wanted'[c] # None => s'.values[c] = wanted'[c]
    BY <1>1, <1>3 DEF LatestCommandStays
  <2> QED BY <1>1, <1>3, <2>1, KeptIfSo DEF Kept
<1>5. ASSUME Matching PROVE Matching'
  <2>1. OptionShown(s') /\ (IsSet(s', Select) <=> IsSet(s, Select)) /\ \A n \in Numbers \ missed' : NumberShown(s', n)
    BY <1>1, <1>3, <1>5, ShownAsBefore
  <2>2. Untaken' => Untaken
    BY <1>1, SameFixture DEF Untaken
  <2>3. Untaken' => IF phase'[Select] = "added" THEN s'.option = stored'.option ELSE ~IsSet(s', Select)
    BY <1>1, <1>3, <1>5, <2>1, <2>2 DEF Matching, Restoring
  <2> QED BY <1>1, <1>5, <2>1, <2>3, MatchingIfSo
<1> QED BY <1>4, <1>5

LEMMA RestartKeeps ==
    ASSUME Kept, Restart
    PROVE  Kept' /\ (Matching => Matching')
<1>1. /\ fixture \in Fixtures /\ s \in States /\ s' = Constructed /\ missed' = {} /\ switched' = FALSE
      /\ phase' = [e \in Entities |-> "constructed"] /\ wanted' = [c \in Channels |-> None] /\ fixture' = fixture
      /\ stored' = [option |-> IF s.available[Select] THEN s.option ELSE None,
                    native |-> [n \in Numbers |-> NativeValue(n, s.native[n])]]
  BY DEF Kept, Restart
<1>2. s' \in States /\ (\A c \in Channels : s'.values[c] = None) /\ OnlyCurrent(s')
  BY <1>1, ConstructedIs
<1>3. stored'.option \in DOMAIN Options \cup {None} /\ stored'.native \in [Numbers -> Int \cup {None}]
  <2>1. s.option \in DOMAIN Options /\ \A n \in Numbers : s.native[n] \in Natives
    BY <1>1 DEF States
  <2>2. \A n \in Numbers : NativeValue(n, s.native[n]) \in Int
    BY <1>1, <2>1, NativeValueInt
  <2> DEFINE native == [n \in Numbers |-> NativeValue(n, s.native[n])]
  <2>3. native \in [Numbers -> Int \cup {None}]
    BY <2>2
  <2> HIDE DEF native
  <2> QED BY <1>1, <2>1, <2>3 DEF native
<1>4. Kept'
  <2>1. \A c \in Channels : wanted'[c] # None => s'.values[c] = wanted'[c]
    BY <1>1
  <2>2. phase' \in [Entities -> Phases]
    BY <1>1 DEF Phases
  <2> QED BY <1>1, <1>2, <1>3, <2>1, <2>2, KeptIfSo
<1>5. ASSUME Matching PROVE Matching'
  <2>1. ~IsSet(s', Select)
    <3>1. Slots(Select) \subseteq Channels
      BY <1>1, SlotsOfEntities
    <3> QED BY <1>2, <3>1 DEF IsSet, Slots
  <2>2. \A n \in Numbers : NumberShown(s', n)
    BY <1>1, <1>2, SlotsOfEntities DEF NumberShown
  <2>3. phase'[Select] = "constructed"
    BY <1>1, SlotsOfEntities
  <2>4. OptionShown(s')
    BY <2>1 DEF OptionShown
  <2> QED BY <1>1, <1>5, <2>1, <2>2, <2>3, <2>4, MatchingIfSo
<1> QED BY <1>4, <1>5

LEMMA AskForLastStateKeeps ==
    ASSUME Kept, NEW e \in Entities, AskForLastState(e)
    PROVE  Kept' /\ (Matching => Matching')
<1>1. /\ fixture \in Fixtures /\ s \in States /\ phase \in [Entities -> Phases] /\ LatestCommandStays
      /\ phase[e] = "constructed" /\ phase' = [phase EXCEPT ![e] = IF Owns(e) /\ IsSet(s, e) THEN "added" ELSE "asking"]
      /\ UNCHANGED <<fixture, s, stored, steps, wanted, missed, switched>>
  BY DEF Kept, AskForLastState
<1>2. phase' \in [Entities -> Phases]
  BY <1>1 DEF Phases
<1>3. Kept'
  BY <1>1, <1>2, KeptIfSo DEF Kept, CurrentAvailable, LatestCommandStays
<1>4. ASSUME Matching PROVE Matching'
  <2>1. OptionShown(s') /\ \A n \in Numbers \ missed' : NumberShown(s', n)
    BY <1>1, <1>4, ShownAsBefore
  <2>2. Untaken' => Untaken
    BY <1>1, SameFixture DEF Untaken
  <2>3. Untaken => IF phase'[Select] = "added" THEN s.option = stored.option ELSE ~IsSet(s, Select)
    <3>1. Untaken => IF phase[Select] = "added" THEN s.option = stored.option ELSE ~IsSet(s, Select)
      BY <1>4 DEF Matching, Restoring
    <3>2. Select \in Entities
      BY <1>1, SlotsOfEntities
    <3>3. CASE e = Select
      BY <1>1, <3>1, <3>2, <3>3
    <3>4. CASE e # Select
      BY <1>1, <3>1, <3>2, <3>4
    <3> QED BY <3>3, <3>4
  <2>4. Untaken' => IF phase'[Select] = "added" THEN s'.option = stored'.option ELSE ~IsSet(s', Select)
    BY <1>1, <2>2, <2>3
  <2> QED BY <1>1, <1>4, <2>1, <2>4, MatchingIfSo
<1> QED BY <1>3, <1>4

(* A restore writes channels that have no value yet, which nobody wants.     *)
LEMMA NothingWanted ==
    ASSUME Kept, wanted' = wanted, NEW e, ~IsSet(s, e),
           \A c \in Channels : c \notin Slots(e) => s'.values[c] = s.values[c]
    PROVE  \A c \in Channels : wanted'[c] # None => s'.values[c] = wanted'[c]
<1>1. \A c \in Slots(e) : s.values[c] = None
  BY DEF IsSet, Slots
<1> QED BY <1>1 DEF Kept, LatestCommandStays

LEMMA RestoreNumberKeeps ==
    ASSUME Kept, NEW n \in Numbers, RestoreNumber(n)
    PROVE  Kept' /\ (Matching => Matching')
<1> DEFINE h == stored.native[n]
           restored == [s EXCEPT !.native[n] = Hundredths(h)]
           bytes == ToDmx(n, h)
           phases == phase' = [phase EXCEPT ![n] = "added"]
<1>1. /\ fixture \in Fixtures /\ s \in States /\ phase \in [Entities -> Phases] /\ LatestCommandStays
      /\ missed \subseteq Numbers /\ h \in Int \cup {None} /\ phases
      /\ UNCHANGED <<fixture, stored, steps, wanted, switched>>
  BY DEF Kept, RestoreNumber
<1>2. \/ UNCHANGED <<s, missed>>
      \/ Owns(n) /\ ~IsSet(s, n) /\ h # None /\ s' \in Updated(restored, Values(n, bytes), None) /\ Missed({})
      \/ h # None /\ s' = restored /\ missed' = missed \cup {n}
  BY DEF RestoreNumber, Taken
<1>3. n \in Entities /\ n # Select /\ Select \in Entities /\ Slots(n) \subseteq Channels
  BY <1>1, SlotsOfEntities
<1>4. phase' \in [Entities -> Phases] /\ phase'[Select] = phase[Select]
  BY <1>1, <1>3 DEF Phases
<1> HIDE DEF phases, h, bytes
<1>5. ASSUME h # None
      PROVE  /\ restored \in States /\ restored.values = s.values /\ restored.option = s.option
             /\ restored.available = s.available
             /\ \A m \in Numbers : m # n => restored.native[m] = s.native[m]
  <2>1. Hundredths(h) \in Natives
    BY <1>1, <1>5 DEF Hundredths, Natives
  <2> QED BY <1>1, <2>1, WithNative
<1>6. ASSUME Matching, OptionShown(s'), \A m \in Numbers \ missed' : NumberShown(s', m),
             s'.option = s.option, IsSet(s', Select) <=> IsSet(s, Select)
      PROVE  Matching'
  <2>1. Untaken' => Untaken
    BY <1>1, SameFixture DEF Untaken
  <2>2. Untaken' => IF phase'[Select] = "added" THEN s'.option = stored'.option ELSE ~IsSet(s', Select)
    BY <1>1, <1>4, <1>6, <2>1 DEF Matching, Restoring
  <2> QED BY <1>1, <1>6, <2>2, MatchingIfSo
<1>7. CASE UNCHANGED <<s, missed>>
  <2>1. Kept'
    BY <1>1, <1>4, <1>7, KeptIfSo DEF Kept, CurrentAvailable, LatestCommandStays
  <2>2. Matching => Matching'
    BY <1>6, <1>7, ShownAsBefore
  <2> QED BY <2>1, <2>2
<1>8. CASE h # None /\ s' = restored /\ missed' = missed \cup {n}
  <2> HIDE DEF restored
  <2>1. \A c \in Channels : wanted'[c] # None => s'.values[c] = wanted'[c]
    BY <1>1, <1>5, <1>8 DEF LatestCommandStays
  <2>2. ~switched' => OnlyCurrent(s')
    BY <1>1, <1>5, <1>8 DEF Kept, CurrentAvailable, OnlyCurrent
  <2>3. Kept'
    BY <1>1, <1>4, <1>5, <1>8, <2>1, <2>2, KeptIfSo DEF Kept
  <2>4. Matching => Matching'
    <3> SUFFICES ASSUME Matching PROVE Matching'
      OBVIOUS
    <3>1. /\ OptionShown(s') /\ (IsSet(s', Select) <=> IsSet(s, Select))
          /\ \A m \in Numbers \ missed : s'.native[m] = s.native[m] => NumberShown(s', m)
      BY <1>5, <1>8, ShownAsBefore
    <3> QED BY <1>5, <1>6, <1>8, <3>1
  <2> QED BY <2>3, <2>4
<1>9. CASE Owns(n) /\ ~IsSet(s, n) /\ h # None /\ s' \in Updated(restored, Values(n, bytes), None) /\ Missed({})
  <2>1. HasBytes(bytes, Count(n)) /\ None # Select /\ None \notin Numbers
    BY <1>1, <1>9, ToDmxBytes, NoneAssumption, SelectIsNoNumber DEF bytes, Entities
  <2>2. Values(n, bytes) \in [Slots(n) -> Bytes]
    BY <1>1, <1>3, <2>1, ValuesAre
  <2>3. Slots(n) \cap Slots(Select) = {}
    <3>1. fixture.numbers[n].owns
      BY <1>3, <1>9 DEF Owns
    <3> QED BY <1>1, <3>1, OwnersHaveOtherSlots
  <2> HIDE DEF restored
  <2> DEFINE values == Values(n, bytes)
  <2> HIDE DEF values
  <2>4. Writes(restored, s', Slots(n)) /\ \A m \in Numbers : Follows(restored, s', m)
    <3>1. values \in [Slots(n) -> Bytes] /\ s' \in Updated(restored, values, None)
      BY <1>9, <2>2 DEF values
    <3>2. /\ Writes(restored, s', Slots(n))
          /\ \A m \in Numbers : IF m = None THEN s'.native[m] = restored.native[m] ELSE Follows(restored, s', m)
      BY <1>1, <1>3, <1>5, <1>9, <2>1, <3>1, WriteIs
    <3> QED BY <2>1, <3>2
  <2>5. /\ Writes(s, s', Slots(n)) /\ Follows(restored, s', n)
        /\ \A m \in Numbers : m # n => Follows(s, s', m)
    BY <1>1, <1>5, <1>9, <2>4, WritesOfSame
  <2>6. Slots(Select) \subseteq Channels /\ Slots(n) # {}
    BY <1>1, SlotsOfEntities
  <2>7. ~Touched(s, s', Select)
    BY <2>3, <2>5, <2>6 DEF Writes, Touched
  <2>8. s'.option = s.option /\ (IsSet(s', Select) <=> IsSet(s, Select))
    BY <1>1, <1>3, <2>5, <2>7, SameBytes DEF Writes, Same, Touched
  <2>9. Touched(s, s', n)
    <3>1. PICK c \in Slots(n) : s.values[c] = None
      BY <1>9, <2>6 DEF IsSet, Slots
    <3>2. s'.values[c] # None
      BY <2>5, NoneIsNoByte DEF Writes
    <3> QED BY <3>1, <3>2 DEF Touched
  <2>10. Follows(s, s', n)
    BY <1>5, <1>9, <2>5, <2>9 DEF Follows, Touched
  <2>11. Kept'
    <3>1. \A c \in Channels : wanted'[c] # None => s'.values[c] = wanted'[c]
      BY <1>1, <1>9, <2>5, NothingWanted DEF Writes
    <3>2. ~switched' => OnlyCurrent(s')
      BY <1>1, <2>5, WritesOnlyCurrent DEF Kept, CurrentAvailable
    <3>3. s' \in States /\ missed' \subseteq Numbers
      BY <1>1, <1>9, <2>5, MissedAreNumbers DEF Writes
    <3> QED BY <1>1, <1>4, <3>1, <3>2, <3>3, KeptIfSo DEF Kept
  <2>12. ASSUME Matching PROVE Matching'
    <3>1. OptionShown(s')
      BY <1>1, <2>5, <2>12, WritesOptionShown DEF Matching
    <3>2. ASSUME NEW m \in Numbers \ missed' PROVE NumberShown(s', m)
      <4>1. Follows(s, s', m) /\ (m \notin missed => NumberShown(s, m))
        BY <2>5, <2>10, <2>12 DEF Matching, NumbersShown
      <4> QED BY <1>1, <1>9, <4>1, NotMissed
    <3> QED BY <1>6, <2>8, <2>12, <3>1, <3>2
  <2> QED BY <2>11, <2>12
<1> QED BY <1>2, <1>7, <1>8, <1>9

LEMMA RestoreSelectKeeps ==
    ASSUME Kept, RestoreSelect
    PROVE  Kept' /\ (Matching => Matching')
<1> DEFINE o == stored.option
           updated == IF Changed(Select) THEN {Options[o].slider} ELSE {}
<1>1. /\ fixture \in Fixtures /\ s \in States /\ phase \in [Entities -> Phases] /\ LatestCommandStays
      /\ missed \subseteq Numbers /\ o \in DOMAIN Options \cup {None} /\ phase' = [phase EXCEPT ![Select] = "added"]
      /\ phase[Select] = "asking"
      /\ UNCHANGED <<fixture, stored, steps, wanted, switched>>
  BY DEF Kept, RestoreSelect
<1>2. \/ UNCHANGED <<s, missed>> /\ (IsSet(s, Select) \/ o = None)
      \/ ~IsSet(s, Select) /\ o # None /\ s' \in WriteCapability(UpdateCurrentOption(s, o), o) /\ Missed(updated)
  BY DEF RestoreSelect, Taken, Owns
<1> HIDE DEF updated
<1>3. Select \in Entities
  BY <1>1, SlotsOfEntities
<1>4. phase' \in [Entities -> Phases] /\ phase'[Select] = "added"
  BY <1>1, <1>3 DEF Phases
<1>5. Untaken' => Untaken
  BY <1>1, SameFixture DEF Untaken
<1>6. CASE UNCHANGED <<s, missed>> /\ (IsSet(s, Select) \/ o = None)
  <2>1. Kept'
    BY <1>1, <1>4, <1>6, KeptIfSo DEF Kept, CurrentAvailable, LatestCommandStays
  <2>2. ASSUME Matching PROVE Matching'
    <3>1. OptionShown(s') /\ \A n \in Numbers \ missed' : NumberShown(s', n)
      BY <1>6, <2>2, ShownAsBefore
    <3>2. ~Untaken
      BY <1>1, <1>6, <2>2 DEF Matching, Restoring, Untaken
    <3> QED BY <1>1, <1>5, <2>2, <3>1, <3>2, MatchingIfSo
  <2> QED BY <2>1, <2>2
<1>7. CASE ~IsSet(s, Select) /\ o # None /\ s' \in WriteCapability(UpdateCurrentOption(s, o), o) /\ Missed(updated)
  <2> DEFINE u == UpdateCurrentOption(s, o)
  <2>1. o \in DOMAIN Options
    BY <1>1, <1>7
  <2>2. Reapplied(s, u, o, {}) /\ s' \in WriteCapability(u, o)
    BY <1>1, <1>7, <2>1, CurrentIsReapplied
  <2> HIDE DEF u, o
  <2>3. /\ s' \in States
        /\ \A c \in Channels : c \notin Slots(Select) => s'.values[c] = s.values[c]
        /\ OnlyCurrent(s) => OnlyCurrent(s')
        /\ HasBytesFor(o) => s'.option = o /\ OptionShown(s')
    BY <1>1, <2>1, <2>2, OptionWritten
  <2>4. Kept'
    <3>1. \A c \in Channels : wanted'[c] # None => s'.values[c] = wanted'[c]
      BY <1>1, <1>7, <2>3, NothingWanted
    <3>2. ~switched' => OnlyCurrent(s')
      BY <1>1, <2>3 DEF Kept, CurrentAvailable
    <3>3. missed' \subseteq Numbers
      BY <1>1, <1>7, MissedAreNumbers
    <3> QED BY <1>1, <1>4, <2>3, <3>1, <3>2, <3>3, KeptIfSo DEF Kept
  <2>5. ASSUME Matching PROVE Matching'
    <3>1. s'.option = o /\ OptionShown(s')
      BY <2>1, <2>3, <2>5 DEF Matching, EveryOptionExpressible
    <3>2. \A n \in Numbers \ missed' : NumberShown(s', n)
      <4>1. updated \cap Numbers \subseteq {} \cup (IF Changed(Select) THEN {Options[o].slider} ELSE {})
        BY DEF updated, o
      <4> QED BY <1>7, <2>1, <2>2, <2>5, <4>1, NumbersOfOption
    <3>3. stored'.option = o
      BY <1>1 DEF o
    <3> QED BY <1>1, <1>4, <2>5, <3>1, <3>2, <3>3, MatchingIfSo
  <2> QED BY <2>4, <2>5
<1> QED BY <1>2, <1>6, <1>7

-----------------------------------------------------------------------------
LEMMA InitKept == Init => Kept /\ (EveryOptionExpressible => Matching)
<1> SUFFICES ASSUME Init PROVE Kept /\ (EveryOptionExpressible => Matching)
  OBVIOUS
<1>1. /\ fixture \in Fixtures /\ s = Constructed /\ phase = [e \in Entities |-> "added"]
      /\ stored = [option |-> None, native |-> [n \in Numbers |-> None]]
      /\ wanted = [c \in Channels |-> None] /\ missed = {} /\ switched = FALSE
  BY DEF Init
<1>2. s \in States /\ (\A c \in Channels : s.values[c] = None) /\ OnlyCurrent(s)
  BY <1>1, ConstructedIs
<1>3. Kept
  BY <1>1, <1>2 DEF Kept, Phases, LatestCommandStays, CurrentAvailable
<1>4. ASSUME EveryOptionExpressible PROVE Matching
  <2>1. ~IsSet(s, Select)
    <3>1. Slots(Select) \subseteq Channels
      BY <1>1, SlotsOfEntities
    <3> QED BY <1>2, <3>1 DEF IsSet, Slots
  <2>2. NumbersShown
    BY <1>1, <1>2, SlotsOfEntities DEF NumbersShown, NumberShown
  <2>3. Restoring
    BY <1>1 DEF Restoring, Untaken
  <2> QED BY <1>4, <2>1, <2>2, <2>3 DEF Matching, OptionShown
<1> QED BY <1>3, <1>4

LEMMA NextKeeps == Kept /\ [Next]_vars => Kept' /\ (Matching => Matching')
<1> SUFFICES ASSUME Kept, [Next]_vars PROVE Kept' /\ (Matching => Matching')
  OBVIOUS
<1>1. CASE UNCHANGED vars
  <2>1. UNCHANGED <<fixture, s, phase, stored, wanted, missed, switched>> /\ fixture \in Fixtures
    BY <1>1 DEF vars, Kept
  <2>2. Kept'
    BY <2>1, KeptIfSo DEF Kept, CurrentAvailable, LatestCommandStays
  <2>3. ASSUME Matching PROVE Matching'
    <3>1. OptionShown(s') /\ (\A n \in Numbers \ missed' : NumberShown(s', n)) /\ (IsSet(s', Select) <=> IsSet(s, Select))
      BY <2>1, <2>3, ShownAsBefore
    <3>2. Untaken' => Untaken
      BY <2>1, SameFixture DEF Untaken
    <3>3. Untaken' => IF phase'[Select] = "added" THEN s'.option = stored'.option ELSE ~IsSet(s', Select)
      BY <2>1, <2>3, <3>1, <3>2 DEF Matching, Restoring
    <3> QED BY <2>1, <2>3, <3>1, <3>3, MatchingIfSo
  <2> QED BY <2>2, <2>3
<1>2. ASSUME NEW n \in Numbers, NEW h \in Wishes(n), SetNumber(n, h) PROVE Kept' /\ (Matching => Matching')
  <2>1. h \in Int
    BY WishesInt DEF Kept
  <2> QED BY <1>2, <2>1, SetNumberKeeps
<1>3. ASSUME NEW o \in DOMAIN Options, SelectOption(o) PROVE Kept' /\ (Matching => Matching')
  BY <1>3, SelectOptionKeeps
<1>4. ASSUME NEW values \in [Channels -> Levels], Frame(values) PROVE Kept' /\ (Matching => Matching')
  BY <1>4, FrameKeeps
<1>5. ASSUME NEW on \in BOOLEAN, Switch(on) PROVE Kept' /\ (Matching => Matching')
  BY <1>5, SwitchKeeps
<1>6. CASE Restart
  BY <1>6, RestartKeeps
<1>7. ASSUME NEW e \in Entities, AskForLastState(e) PROVE Kept' /\ (Matching => Matching')
  BY <1>7, AskForLastStateKeeps
<1>8. ASSUME NEW n \in Numbers, RestoreNumber(n) PROVE Kept' /\ (Matching => Matching')
  BY <1>8, RestoreNumberKeeps
<1>9. CASE RestoreSelect
  BY <1>9, RestoreSelectKeeps
<1> QED BY <1>1, <1>2, <1>3, <1>4, <1>5, <1>6, <1>7, <1>8, <1>9 DEF Next, Step

LEMMA AlwaysKept == Spec => []Kept
<1>1. Init => Kept
  BY InitKept
<1>2. Kept /\ [Next]_vars => Kept'
  BY NextKeeps
<1> QED BY <1>1, <1>2, PTL DEF Spec

LEMMA AlwaysMatching == Spec /\ EveryOptionExpressible => [](Kept /\ Matching)
<1>1. Init /\ EveryOptionExpressible => Kept /\ Matching
  BY InitKept
<1>2. Kept /\ Matching /\ [Next]_vars => (Kept /\ Matching)'
  <2>1. Kept /\ Matching /\ [Next]_vars => Kept' /\ Matching'
    BY NextKeeps
  <2> QED BY <2>1
<1> QED BY <1>1, <1>2, PTL DEF Spec

(* The state of the select and its numbers has its types whatever is          *)
(* commanded, received, switched, stopped and restored: the option is always  *)
(* one of the fixture's (entity/select.py:133), every channel value a byte.   *)
THEOREM TypeCorrect == Spec => []TypeOK
<1>1. Kept => TypeOK
  <2> SUFFICES ASSUME Kept PROVE TypeOK
    OBVIOUS
  <2>1. /\ s.values \in [Channels -> Bytes \cup {None}] /\ s.option \in DOMAIN Options
        /\ s.available \in [Entities -> BOOLEAN]
    BY DEF Kept, States
  <2>2. ASSUME NEW n \in Numbers PROVE s.native[n].exact \in BOOLEAN /\ s.native[n].value \in Int
    <3>1. s.native[n] \in Natives
      BY DEF Kept, States
    <3> QED BY <3>1 DEF Natives
  <2> QED BY <2>1, <2>2 DEF Kept, TypeOK, Phases
<1> QED BY <1>1, AlwaysKept, PTL

(* What was last commanded or received is on every channel, however many      *)
(* entities are being restored at the time (entity/number.py:130): a restore  *)
(* writes only channels that had no value, which nobody wanted.               *)
THEOREM CommandsStay == Spec => []LatestCommandStays
<1>1. Kept => LatestCommandStays
  BY DEF Kept
<1> QED BY <1>1, AlwaysKept, PTL

(* Until the universe is switched, a slider or a number that takes turns is   *)
(* available only if it belongs to the current option (entity/number.py:82),  *)
(* whoever changed the option: a user, a frame, a restore.                    *)
THEOREM HiddenWithTheirOption == Spec => []OnlyCurrentAvailable
<1>1. Kept => OnlyCurrentAvailable
  BY DEF Kept, CurrentAvailable, OnlyCurrent, OnlyCurrentAvailable
<1> QED BY <1>1, AlwaysKept, PTL

(* The bytes that are written for an option stand for that option             *)
(* (fixture/channel.py:40), in any number of bytes and for ranges of any      *)
(* resolution, if the bytes can express a value of it that is not below.      *)
THEOREM WrittenOptionIsShown == Spec => []SelectedIsShown
<1>1. Kept => SelectedIsShown
  BY SelectedShown DEF Kept
<1> QED BY <1>1, AlwaysKept, PTL

(* For a fixture whose channels have bytes for each of its options, the       *)
(* select shows the option its channels have, whoever wrote them.             *)
THEOREM OptionIsShown == Spec /\ EveryOptionExpressible => []SelectShowsChannel
<1>1. Matching => SelectShowsChannel
  BY DEF Matching, OptionShown, Value, ShownValue, SelectShowsChannel
<1> QED BY <1>1, AlwaysMatching, PTL

(* ... it has its option back after a restart, in whatever order it and its   *)
(* sliders are restored, unless a command or a frame came before.             *)
THEOREM OptionIsRestored == Spec /\ EveryOptionExpressible => []RestoredOptionStays
<1>1. Kept /\ Matching => RestoredOptionStays
  BY SlotsOfEntities DEF Kept, Matching, Restoring, Untaken, RestoredOptionStays
<1> QED BY <1>1, AlwaysMatching, PTL

(* ... and a number that can be seen shows its channels, also the ones that   *)
(* take turns, but for those whose channels changed while they were hidden.   *)
THEOREM NumbersShowTheirChannels == Spec /\ EveryOptionExpressible => []AvailableNumberShows
<1>1. Kept /\ Matching => AvailableNumberShows
  BY DEF Matching, NumbersShown, NumberShown, Shown, Shows, Slots, AvailableNumberShows
<1> QED BY <1>1, AlwaysMatching, PTL
=============================================================================
