----------------------------- MODULE LightProofs -----------------------------
(***************************************************************************)
(* Proofs about Light and ColorConverter, for all kinds of lights, bounds  *)
(* of their color temperature, and values that commands and other writers  *)
(* may have.                                                               *)
(***************************************************************************)
EXTENDS Light, FiniteSetTheorems, WellFoundedInduction, TLAPS

-----------------------------------------------------------------------------
(* Arithmetic, and the color temperatures.                                   *)
LEMMA Bounds ==
    MinKelvin \in Nat /\ MaxKelvin \in Nat /\ Range_ \in Nat \ {0} /\ Range_ = MaxKelvin - MinKelvin
BY KelvinAssumption DEF Range_

LEMMA Division ==
    ASSUME NEW n \in Nat, NEW d \in Nat \ {0}
    PROVE  n \div d \in Nat /\ n % d \in 0..(d - 1) /\ n = (d * (n \div d)) + (n % d)
BY SMT

(* A fraction of at most b is at most b when it is rounded. *)
LEMMA RoundBound ==
    ASSUME NEW n \in Nat, NEW d \in Nat \ {0}, NEW b \in Nat, n <= d * b
    PROVE  Round(n, d) \in 0..b
<1> DEFINE q == n \div d
           r == n % d
<1>1. q \in Nat /\ r \in 0..(d - 1) /\ n = (d * q) + r
  BY Division
<1>2. Round(n, d) = q \/ (Round(n, d) = q + 1 /\ 2 * r >= d)
  BY <1>1 DEF Round
<1> HIDE DEF q, r
<1>3. q <= b /\ (q = b => r = 0)
  BY <1>1, SMT
<1>4. 2 * r >= d => r > 0
  BY <1>1
<1> QED BY <1>1, <1>2, <1>3, <1>4

LEMMA WithinBounds ==
    ASSUME NEW k \in Int
    PROVE  /\ Within(k) \in MinKelvin..MaxKelvin
           /\ k \in MinKelvin..MaxKelvin => Within(k) = k
BY Bounds DEF Within

-----------------------------------------------------------------------------
(* kelvin_to_dmx never leaves the byte, whatever temperature is asked for.   *)
THEOREM DmxInByte == \A k \in Int : KelvinToDmx(k) \in 0..(255 * Range_)
<1> SUFFICES ASSUME NEW k \in Int PROVE KelvinToDmx(k) \in 0..(255 * Range_)
  OBVIOUS
<1>1. Within(k) - MinKelvin \in 0..Range_
  BY Bounds, WithinBounds
<1> QED BY <1>1, Bounds DEF KelvinToDmx

(* The temperature channel gives back the temperature it was set for, so the *)
(* state read from the channel is the state commanded, but for what the      *)
(* code's floating point loses.                                              *)
THEOREM KelvinSurvives == \A k \in Int : DmxToKelvin(KelvinToDmx(k)) = Within(k)
<1> SUFFICES ASSUME NEW k \in Int PROVE DmxToKelvin(KelvinToDmx(k)) = Within(k)
  OBVIOUS
<1> DEFINE x == Within(k) - MinKelvin
<1>1. x \in Int /\ MinKelvin + x = Within(k)
  BY Bounds, WithinBounds
<1> HIDE DEF x
<1>2. (x * 255) \div 255 = x
  BY <1>1, SMT
<1> QED BY <1>1, <1>2 DEF DmxToKelvin, KelvinToDmx, x

(* temp_to_cw_ww gives the brighter of the two channels the brightness, and  *)
(* the other no more: so the brightness is read back from the pair.          *)
THEOREM BrightnessSurvives ==
    \A k \in Int, b \in Nat :
        LET pair == TempToCwWw(k, b)
        IN  pair[1] \in 0..b /\ pair[2] \in 0..b /\ Brighter(pair[1], pair[2]) = b
<1> SUFFICES ASSUME NEW k \in Int, NEW b \in Nat
             PROVE  /\ TempToCwWw(k, b)[1] \in 0..b /\ TempToCwWw(k, b)[2] \in 0..b
                    /\ Brighter(TempToCwWw(k, b)[1], TempToCwWw(k, b)[2]) = b
  OBVIOUS
<1> DEFINE up == 2 * (MaxKelvin - Within(k))
           down == 2 * (Within(k) - MinKelvin)
<1>1. up \in Nat /\ down \in Nat /\ up + down = 2 * Range_
  BY Bounds, WithinBounds
<1>2. CASE up <= Range_
  <2>1. up * b \in Nat /\ up * b <= Range_ * b
    <3> HIDE DEF up
    <3> QED BY <1>1, <1>2, Bounds, SMT
  <2>2. Round(up * b, Range_) \in 0..b
    BY <2>1, Bounds, RoundBound
  <2>3. TempToCwWw(k, b) = <<b, Round(up * b, Range_)>>
    BY <1>2 DEF TempToCwWw
  <2> QED BY <2>2, <2>3 DEF Brighter
<1>3. CASE ~(up <= Range_)
  <2>1. down * b \in Nat /\ down * b <= Range_ * b
    <3> HIDE DEF up, down
    <3> QED BY <1>1, <1>3, Bounds, SMT
  <2>2. Round(down * b, Range_) \in 0..b
    BY <2>1, Bounds, RoundBound
  <2>3. TempToCwWw(k, b) = <<Round(down * b, Range_), b>>
    BY <1>3 DEF TempToCwWw
  <2> QED BY <2>2, <2>3 DEF Brighter
<1> QED BY <1>2, <1>3

(* Whatever the two white channels are set to, the temperature read from     *)
(* them is one of the fixture's.                                             *)
THEOREM TemperatureInBounds ==
    \A cold, warm \in Nat : CwWwToTemp(cold, warm) \in MinKelvin..MaxKelvin
<1> SUFFICES ASSUME NEW cold \in Nat, NEW warm \in Nat
             PROVE  CwWwToTemp(cold, warm) \in MinKelvin..MaxKelvin
  OBVIOUS
<1> DEFINE m == 2 * Brighter(cold, warm)
           x == IF cold >= warm THEN warm ELSE m - cold
           n == (m * MaxKelvin) - (Range_ * x)
<1>1. m \in Nat /\ x \in 0..m
  BY DEF Brighter
<1>2. CASE m = 0
  BY <1>2, Bounds DEF CwWwToTemp
<1>3. CASE m # 0
  <2>1. CwWwToTemp(cold, warm) = n \div m
    BY <1>3 DEF CwWwToTemp
  <2> HIDE DEF m, x
  <2>2. n >= m * MinKelvin /\ n <= m * MaxKelvin
    <3>1. Range_ * x >= 0 /\ Range_ * x <= Range_ * m
      BY <1>1, Bounds, SMT
    <3>2. Range_ * m = (m * MaxKelvin) - (m * MinKelvin)
      BY <1>1, Bounds, SMT
    <3>3. m * MaxKelvin \in Int /\ m * MinKelvin \in Int /\ Range_ * x \in Int
      BY <1>1, Bounds
    <3> QED BY <3>1, <3>2, <3>3
  <2>3. n \in Nat
    BY <1>1, <2>2, Bounds, SMT
  <2> HIDE DEF n
  <2> DEFINE q == n \div m
             r == n % m
  <2>4. q \in Nat /\ r \in 0..(m - 1) /\ n = (m * q) + r
    BY <1>1, <1>3, <2>3, Division
  <2> HIDE DEF q, r
  <2>5. q >= MinKelvin /\ q <= MaxKelvin
    BY <1>1, <1>3, <2>2, <2>4, Bounds, SMT
  <2> QED BY <2>1, <2>4, <2>5, Bounds DEF q
<1> QED BY <1>2, <1>3

-----------------------------------------------------------------------------
(* Types: the values of a light, its states, and updates of its channels.    *)
Temps == 0..(255 * Range_)
Dimmed == Twins \ {"kelvin", "temp"}
Modes == {"rgb", "rgbw", "rgbww", "color_temp", "brightness"}
LightValues == {v \in [Twins -> Nat] : v["temp"] \in Temps /\ \A a \in Dimmed : v[a] \in Bytes}
LightStates == [on : BOOLEAN, mode : Modes, preserve : BOOLEAN, v : LightValues, last : LightValues]
ValuesOf(c) == IF c = "temp" THEN Temps ELSE Bytes

(* What is written of a color temperature.                                   *)
LEMMA TempByte ==
    ASSUME NEW x \in Temps
    PROVE  Round(x, Range_) \in Bytes
<1> DEFINE d == Range_
           b == 255
<1>1. d \in Nat \ {0} /\ b \in Nat
  BY Bounds
<1>2. x \in Nat /\ x <= d * b
  BY Bounds DEF Temps
<1>3. Bytes = 0..b
  BY DEF Bytes
<1> HIDE DEF d, b
<1>4. Round(x, d) \in 0..b
  BY <1>1, <1>2, RoundBound
<1> QED BY <1>3, <1>4 DEF d

(* Nothing but the values differs, and nothing but the values kept of it.    *)
SameBut(t, st) == t.on = st.on /\ t.mode = st.mode /\ t.preserve = st.preserve
SameValues(t, st) == SameBut(t, st) /\ t.v = st.v

LEMMA StateParts ==
    ASSUME NEW st \in LightStates
    PROVE  /\ st = [on |-> st.on, mode |-> st.mode, preserve |-> st.preserve, v |-> st.v, last |-> st.last]
           /\ st.on \in BOOLEAN /\ st.mode \in Modes /\ st.preserve \in BOOLEAN
           /\ st.v \in LightValues /\ st.last \in LightValues
BY DEF LightStates

LEMMA Values ==
    ASSUME NEW v \in LightValues
    PROVE  /\ v \in [Twins -> Nat] /\ v["temp"] \in Temps /\ \A a \in Dimmed : v[a] \in Bytes
           /\ \A a \in Dimmed, x \in Bytes : [v EXCEPT ![a] = x] \in LightValues
           /\ \A x \in Temps, k \in Nat : [v EXCEPT !["temp"] = x, !["kelvin"] = k] \in LightValues
           /\ \A x \in Temps, k \in Nat : [v EXCEPT !["kelvin"] = k, !["temp"] = x] \in LightValues
<1> Twins = {"brightness", "red", "green", "blue", "cold", "warm", "kelvin", "temp"}
  BY DEF Twins
<1> Bytes \subseteq Nat /\ Temps \subseteq Nat
  BY Bounds DEF Bytes, Temps
<1> QED BY DEF LightValues, Dimmed

LEMMA RememberedState ==
    ASSUME NEW st \in LightStates, NEW attributes
    PROVE  /\ Remembered(st, attributes) \in LightStates
           /\ SameValues(Remembered(st, attributes), st)
<1> DEFINE last == [a \in Twins |-> IF a \in attributes THEN st.v[a] ELSE st.last[a]]
<1>1. last \in LightValues
  <2>1. st.v \in LightValues /\ st.last \in LightValues
    BY StateParts
  <2>2. /\ st.v \in [Twins -> Nat] /\ st.v["temp"] \in Temps /\ \A a \in Dimmed : st.v[a] \in Bytes
        /\ st.last \in [Twins -> Nat] /\ st.last["temp"] \in Temps /\ \A a \in Dimmed : st.last[a] \in Bytes
    BY <2>1, Values
  <2> QED BY <2>2 DEF LightValues, Dimmed, Twins
<1>2. [st EXCEPT !.last = last] \in LightStates /\ SameValues([st EXCEPT !.last = last], st)
  BY <1>1, StateParts DEF LightStates, SameValues, SameBut
<1> QED BY <1>2 DEF Remembered, SameValues, SameBut

LEMMA RememberedIfAnyState ==
    ASSUME NEW st \in LightStates, NEW attributes
    PROVE  /\ RememberedIfAny(st, attributes) \in LightStates
           /\ SameValues(RememberedIfAny(st, attributes), st)
BY RememberedState DEF RememberedIfAny, SameValues, SameBut
(* The updates of single attributes. *)
LEMMA UpdateBrightnessState ==
    ASSUME NEW st \in LightStates, NEW x \in Bytes
    PROVE  /\ UpdateBrightness(st, x) \in LightStates
           /\ SameBut(UpdateBrightness(st, x), st)
           /\ UpdateBrightness(st, x).v = [st.v EXCEPT !["brightness"] = x]
<1> DEFINE t == [st EXCEPT !.v.brightness = x]
<1>1. [st.v EXCEPT !["brightness"] = x] \in LightValues
  BY StateParts, Values DEF Dimmed, Twins
<1>2. t \in LightStates /\ SameBut(t, st) /\ t.v = [st.v EXCEPT !["brightness"] = x]
  BY <1>1, StateParts DEF LightStates, SameBut
<1> HIDE DEF t
<1>3. UpdateBrightness(st, x) = RememberedIfAny(t, {"brightness"})
  BY DEF UpdateBrightness, t
<1> QED BY <1>2, <1>3, RememberedIfAnyState DEF SameValues, SameBut

LEMMA UpdateTempState ==
    ASSUME NEW st \in LightStates, NEW x \in Temps
    PROVE  /\ UpdateColorTempDmx(st, x) \in LightStates
           /\ SameBut(UpdateColorTempDmx(st, x), st)
           /\ UpdateColorTempDmx(st, x).v = [st.v EXCEPT !["temp"] = x, !["kelvin"] = DmxToKelvin(x)]
<1> DEFINE w == [st.v EXCEPT !["temp"] = x, !["kelvin"] = DmxToKelvin(x)]
           t == [st EXCEPT !.v.temp = x, !.v.kelvin = DmxToKelvin(x)]
<1>1. DmxToKelvin(x) \in Nat
  <2>1. x \in Nat
    BY Bounds DEF Temps
  <2> QED BY <2>1, Bounds, Division DEF DmxToKelvin
<1>2. w \in LightValues
  BY <1>1, StateParts, Values
<1>3. t \in LightStates /\ SameBut(t, st) /\ t.v = w
  BY <1>2, StateParts DEF LightStates, SameBut
<1> HIDE DEF t, w
<1>4. UpdateColorTempDmx(st, x) = Remembered(t, {"temp", "kelvin"})
  BY DEF UpdateColorTempDmx, t
<1> QED BY <1>3, <1>4, RememberedState DEF SameValues, SameBut, w

LEMMA UpdateKelvinState ==
    ASSUME NEW st \in LightStates, NEW k \in Nat
    PROVE  /\ UpdateColorTempKelvin(st, k) \in LightStates
           /\ SameBut(UpdateColorTempKelvin(st, k), st)
           /\ UpdateColorTempKelvin(st, k).v = [st.v EXCEPT !["kelvin"] = k, !["temp"] = KelvinToDmx(k)]
<1> DEFINE w == [st.v EXCEPT !["kelvin"] = k, !["temp"] = KelvinToDmx(k)]
           t == [st EXCEPT !.v.kelvin = k, !.v.temp = KelvinToDmx(k)]
<1>1. KelvinToDmx(k) \in Temps
  BY DmxInByte DEF Temps
<1>2. w \in LightValues
  BY <1>1, StateParts, Values
<1>3. t \in LightStates /\ SameBut(t, st) /\ t.v = w
  BY <1>2, StateParts DEF LightStates, SameBut
<1> HIDE DEF t, w
<1>4. UpdateColorTempKelvin(st, k) = Remembered(t, {"temp", "kelvin"})
  BY DEF UpdateColorTempKelvin, t
<1> QED BY <1>3, <1>4, RememberedState DEF SameValues, SameBut, w
-----------------------------------------------------------------------------
(* Induction over the natural numbers, for a set instead of a predicate.     *)
LEMMA NatSetInduction ==
    ASSUME NEW T \in SUBSET Nat, 0 \in T, \A n \in T : n + 1 \in T
    PROVE  T = Nat
<1> SUFFICES ASSUME T # Nat PROVE FALSE
  OBVIOUS
<1> DEFINE R == OpToRel(<, Nat)
<1>1. PICK x \in Nat \ T : \A y \in Nat \ T : ~(<<y, x>> \in R)
  <2>1. IsWellFoundedOn(R, Nat)
    BY NatLessThanWellFounded
  <2> HIDE DEF R
  <2> QED BY <2>1, WFMin
<1>2. \A y \in Nat \ T : ~(y < x)
  BY <1>1 DEF OpToRel
<1> QED BY <1>2

(* The highest of some bytes. *)
LEMMA HighestByte ==
    ASSUME NEW S \in SUBSET Bytes
    PROVE  Highest(S) \in Bytes /\ Highest(S) \in S \cup {0} /\ \A y \in S : y <= Highest(S)
<1> DEFINE HasHighest(n) == \A P \in SUBSET (0..n) : P # {} => \E x \in P : \A y \in P : y <= x
           T == {n \in Nat : HasHighest(n)}
<1>1. 0 \in T
  <2>1. \A P \in SUBSET (0..0) : P # {} => 0 \in P /\ \A y \in P : y <= 0
    <3> SUFFICES ASSUME NEW P \in SUBSET (0..0), P # {} PROVE 0 \in P /\ \A y \in P : y <= 0
      OBVIOUS
    <3>1. PICK x \in P : TRUE
      OBVIOUS
    <3>2. \A y \in P : y = 0
      OBVIOUS
    <3> QED BY <3>1, <3>2
  <2>2. HasHighest(0)
    BY <2>1
  <2> QED BY <2>2
<1>2. ASSUME NEW n \in T PROVE n + 1 \in T
  <2> SUFFICES ASSUME NEW P \in SUBSET (0..(n + 1)), P # {} PROVE \E x \in P : \A y \in P : y <= x
    OBVIOUS
  <2>1. CASE n + 1 \in P
    BY <2>1
  <2>2. CASE n + 1 \notin P
    <3>1. P \in SUBSET (0..n)
      BY <2>2
    <3> QED BY <3>1
  <2> QED BY <2>1, <2>2
<1> HIDE DEF T
<1>3. 255 \in T
  <2>1. T \in SUBSET Nat
    BY DEF T
  <2>2. T = Nat
    BY <1>1, <1>2, <2>1, NatSetInduction
  <2> QED BY <2>2
<1>4. S \cup {0} \in SUBSET (0..255) /\ S \cup {0} # {}
  BY DEF Bytes
<1>5. \E x \in S \cup {0} : \A y \in S \cup {0} : y <= x
  BY <1>3, <1>4 DEF T
<1>6. Highest(S) \in S \cup {0} /\ \A y \in S : y <= Highest(S)
  BY <1>5 DEF Highest
<1> QED BY <1>4, <1>6 DEF Bytes

-----------------------------------------------------------------------------
(* The channels of a light, and the attributes that stand for them.          *)
LEMMA ChannelFacts ==
    ASSUME channels \in Kinds
    PROVE  /\ channels \in Seq(ChannelNames)
           /\ ToSet(channels) \subseteq ChannelNames
           /\ \A c : Has(c) <=> c \in ToSet(channels)
BY KindsAssumption DEF ToSet, Has

(* Sequences whose entries are all different, by a key or as they are.       *)
Keyed(q) == \A i, j \in DOMAIN q : q[i][1] = q[j][1] => i = j
Distinct(q) == \A i, j \in DOMAIN q : q[i] = q[j] => i = j

LEMMA Concatenation ==
    ASSUME NEW S, NEW a \in Seq(S), NEW b \in Seq(S)
    PROVE  /\ a \o b \in Seq(S)
           /\ ToSet(a \o b) = ToSet(a) \cup ToSet(b)
           /\ Distinct(a) /\ Distinct(b) /\ ToSet(a) \cap ToSet(b) = {} => Distinct(a \o b)
           /\ Keyed(a) /\ Keyed(b) /\ Names(a) \cap Names(b) = {} => Keyed(a \o b)
           /\ Names(a \o b) = Names(a) \cup Names(b)
<1> DEFINE c == a \o b
<1>1. /\ c \in Seq(S) /\ Len(c) = Len(a) + Len(b)
      /\ DOMAIN a = 1..Len(a) /\ DOMAIN b = 1..Len(b) /\ DOMAIN c = 1..Len(c)
      /\ Len(a) \in Nat /\ Len(b) \in Nat
      /\ \A i \in DOMAIN a : i \in DOMAIN c /\ c[i] = a[i]
      /\ \A i \in DOMAIN b : i + Len(a) \in DOMAIN c /\ c[i + Len(a)] = b[i]
      /\ \A i \in DOMAIN c : i \in DOMAIN a \/ (i - Len(a) \in DOMAIN b /\ c[i] = b[i - Len(a)])
  OBVIOUS
<1> HIDE DEF c
<1>2. ToSet(c) = ToSet(a) \cup ToSet(b)
  <2>1. ToSet(c) \subseteq ToSet(a) \cup ToSet(b)
    BY <1>1 DEF ToSet
  <2>2. ToSet(a) \subseteq ToSet(c) /\ ToSet(b) \subseteq ToSet(c)
    BY <1>1 DEF ToSet
  <2> QED BY <2>1, <2>2
<1>3. ASSUME Distinct(a), Distinct(b), ToSet(a) \cap ToSet(b) = {} PROVE Distinct(c)
  <2> SUFFICES ASSUME NEW i \in DOMAIN c, NEW j \in DOMAIN c, c[i] = c[j] PROVE i = j
    BY DEF Distinct
  <2>1. i \in DOMAIN a <=> j \in DOMAIN a
    BY <1>1, <1>3 DEF ToSet
  <2>2. CASE i \in DOMAIN a
    BY <1>1, <1>3, <2>1, <2>2 DEF Distinct
  <2>3. CASE i \notin DOMAIN a
    <3>1. i - Len(a) = j - Len(a)
      BY <1>1, <1>3, <2>1, <2>3 DEF Distinct
    <3> QED BY <1>1, <3>1
  <2> QED BY <2>2, <2>3
<1>4. ASSUME Keyed(a), Keyed(b), Names(a) \cap Names(b) = {} PROVE Keyed(c)
  <2> SUFFICES ASSUME NEW i \in DOMAIN c, NEW j \in DOMAIN c, c[i][1] = c[j][1] PROVE i = j
    BY DEF Keyed
  <2>1. i \in DOMAIN a <=> j \in DOMAIN a
    <3>1. \A k \in DOMAIN a : c[k][1] \in Names(a)
      BY <1>1 DEF Names, ToSet
    <3>2. \A k \in DOMAIN c \ DOMAIN a : c[k][1] \in Names(b)
      BY <1>1 DEF Names, ToSet
    <3> QED BY <1>4, <3>1, <3>2
  <2>2. CASE i \in DOMAIN a
    BY <1>1, <1>4, <2>1, <2>2 DEF Keyed
  <2>3. CASE i \notin DOMAIN a
    <3>1. i - Len(a) = j - Len(a)
      BY <1>1, <1>4, <2>1, <2>3 DEF Keyed
    <3> QED BY <1>1, <3>1
  <2> QED BY <2>2, <2>3
<1>5. Names(c) = Names(a) \cup Names(b)
  BY <1>2 DEF Names
<1> QED BY <1>1, <1>2, <1>3, <1>4, <1>5 DEF c

LEMMA ConcatDistinct ==
    ASSUME NEW S, NEW a \in Seq(S), NEW b \in Seq(S),
           Distinct(a), Distinct(b), ToSet(a) \cap ToSet(b) = {}
    PROVE  a \o b \in Seq(S) /\ ToSet(a \o b) = ToSet(a) \cup ToSet(b) /\ Distinct(a \o b)
BY Concatenation

LEMMA OnlyOne ==
    ASSUME NEW c, NEW S, NEW e \in S
    PROVE  /\ Only(c, e) \in Seq(S)
           /\ ToSet(Only(c, e)) = IF Has(c) THEN {e} ELSE {}
           /\ Names(Only(c, e)) = IF Has(c) THEN {e[1]} ELSE {}
           /\ Distinct(Only(c, e)) /\ Keyed(Only(c, e))
<1>1. <<e>> \in Seq(S) /\ DOMAIN <<e>> = {1} /\ <<e>>[1] = e
  OBVIOUS
<1>2. <<>> \in Seq(S) /\ DOMAIN <<>> = {}
  OBVIOUS
<1>3. CASE Has(c)
  <2>1. Only(c, e) = <<e>>
    BY <1>3 DEF Only
  <2> QED BY <1>1, <1>3, <2>1 DEF ToSet, Names, Distinct, Keyed
<1>4. CASE ~Has(c)
  <2>1. Only(c, e) = <<>>
    BY <1>4 DEF Only
  <2> QED BY <1>2, <1>4, <2>1 DEF ToSet, Names, Distinct, Keyed
<1> QED BY <1>3, <1>4

OutputNames == {"red", "green", "blue", "cold", "warm"}

LEMMA OutputsOfLight ==
    /\ OutputChannels \in Seq(OutputNames)
    /\ ToSet(OutputChannels) = {c \in OutputNames : Has(c)}
    /\ Distinct(OutputChannels)
<1> DEFINE r == Only("red", "red")
           g == Only("green", "green")
           b == Only("blue", "blue")
           c == Only("cold", "cold")
           w == Only("warm", "warm")
           S == OutputNames
<1>1. /\ r \in Seq(S) /\ ToSet(r) = (IF Has("red") THEN {"red"} ELSE {}) /\ Distinct(r)
      /\ g \in Seq(S) /\ ToSet(g) = (IF Has("green") THEN {"green"} ELSE {}) /\ Distinct(g)
      /\ b \in Seq(S) /\ ToSet(b) = (IF Has("blue") THEN {"blue"} ELSE {}) /\ Distinct(b)
      /\ c \in Seq(S) /\ ToSet(c) = (IF Has("cold") THEN {"cold"} ELSE {}) /\ Distinct(c)
      /\ w \in Seq(S) /\ ToSet(w) = (IF Has("warm") THEN {"warm"} ELSE {}) /\ Distinct(w)
  BY OnlyOne DEF OutputNames
<1> HIDE DEF r, g, b, c, w
<1> DEFINE c2 == r \o g
           c3 == c2 \o b
           c4 == c3 \o c
           c5 == c4 \o w
<1>2. c2 \in Seq(S) /\ ToSet(c2) = ToSet(r) \cup ToSet(g) /\ Distinct(c2)
  BY <1>1, ConcatDistinct
<1> HIDE DEF c2
<1>3. c3 \in Seq(S) /\ ToSet(c3) = ToSet(c2) \cup ToSet(b) /\ Distinct(c3)
  <2>1. ToSet(c2) \cap ToSet(b) = {}
    BY <1>1, <1>2
  <2> QED BY <1>1, <1>2, <2>1, ConcatDistinct
<1> HIDE DEF c3
<1>4. c4 \in Seq(S) /\ ToSet(c4) = ToSet(c3) \cup ToSet(c) /\ Distinct(c4)
  <2>1. ToSet(c3) \cap ToSet(c) = {}
    BY <1>1, <1>2, <1>3
  <2> QED BY <1>1, <1>2, <1>3, <2>1, ConcatDistinct
<1> HIDE DEF c4
<1>5. c5 \in Seq(S) /\ ToSet(c5) = ToSet(c4) \cup ToSet(w) /\ Distinct(c5)
  <2>1. ToSet(c4) \cap ToSet(w) = {}
    BY <1>1, <1>2, <1>3, <1>4
  <2> QED BY <1>1, <1>2, <1>3, <1>4, <2>1, ConcatDistinct
<1> HIDE DEF c5
<1>6. OutputChannels = c5
  BY DEF OutputChannels, c5, c4, c3, c2, r, g, b, c, w
<1> QED BY <1>1, <1>2, <1>3, <1>4, <1>5, <1>6 DEF OutputNames

-----------------------------------------------------------------------------
(* What a handler does to the values of a state, other than some attributes, *)
(* and to its color mode.                                                    *)
Follows(t, st, attributes) ==
    /\ t \in LightStates
    /\ SwitchesColorMode \/ t.mode = st.mode
    /\ \A a \in Twins \ attributes : t.v[a] = st.v[a]

LEMMA FollowsTrans ==
    ASSUME NEW st, NEW t, NEW u, NEW A, NEW B, Follows(t, st, A), Follows(u, t, B)
    PROVE  Follows(u, st, A \cup B)
BY DEF Follows

(* [st EXCEPT !.v[a] = x] *)
LEMMA SetAttribute ==
    ASSUME NEW st \in LightStates, NEW a \in Dimmed, NEW x \in Bytes
    PROVE  /\ [st EXCEPT !.v[a] = x] \in LightStates
           /\ SameBut([st EXCEPT !.v[a] = x], st)
           /\ [st EXCEPT !.v[a] = x].v = [st.v EXCEPT ![a] = x]
<1>1. [st.v EXCEPT ![a] = x] \in LightValues
  BY StateParts, Values
<1> QED BY <1>1, StateParts DEF LightStates, SameBut

(* [st EXCEPT !.on = x] *)
LEMMA SetOn ==
    ASSUME NEW st \in LightStates, NEW x \in BOOLEAN
    PROVE  /\ [st EXCEPT !.on = x] \in LightStates
           /\ [st EXCEPT !.on = x].v = st.v
           /\ [st EXCEPT !.on = x].mode = st.mode
           /\ [st EXCEPT !.on = x].on = x
BY StateParts DEF LightStates

LEMMA BrightnessFollows ==
    ASSUME NEW st \in LightStates, NEW x \in Bytes
    PROVE  Follows(UpdateBrightness(st, x), st, {"brightness"}) /\ UpdateBrightness(st, x).mode = st.mode
<1>1. /\ UpdateBrightness(st, x) \in LightStates
      /\ UpdateBrightness(st, x).mode = st.mode
      /\ UpdateBrightness(st, x).v = [st.v EXCEPT !["brightness"] = x]
  BY UpdateBrightnessState DEF SameBut
<1> QED BY <1>1, StateParts, Values DEF Follows

LEMMA KelvinFollows ==
    ASSUME NEW st \in LightStates, NEW k \in Nat
    PROVE  /\ Follows(UpdateColorTempKelvin(st, k), st, {"kelvin", "temp"})
           /\ UpdateColorTempKelvin(st, k).mode = st.mode
<1>1. /\ UpdateColorTempKelvin(st, k) \in LightStates
      /\ UpdateColorTempKelvin(st, k).mode = st.mode
      /\ UpdateColorTempKelvin(st, k).v = [st.v EXCEPT !["kelvin"] = k, !["temp"] = KelvinToDmx(k)]
  BY UpdateKelvinState DEF SameBut
<1> QED BY <1>1, StateParts, Values DEF Follows

LEMMA FromChannelsState ==
    ASSUME NEW st \in LightStates
    PROVE  /\ Follows(UpdateBrightnessFromChannels(st), st, {"brightness"})
           /\ UpdateBrightnessFromChannels(st).mode = st.mode
<1> DEFINE x == Highest({st.v[c] : c \in ToSet(OutputChannels)})
           new == UpdateBrightness(st, x)
           on == IF new.v.brightness > 0 THEN TRUE ELSE IF st.v.brightness > 0 THEN FALSE ELSE new.on
<1>1. {st.v[c] : c \in ToSet(OutputChannels)} \in SUBSET Bytes
  BY StateParts, Values, OutputsOfLight DEF OutputNames, Dimmed, Twins
<1>2. x \in Bytes
  BY <1>1, HighestByte
<1> HIDE DEF x
<1>3. new \in LightStates /\ SameBut(new, st) /\ new.v = [st.v EXCEPT !["brightness"] = x]
  BY <1>2, UpdateBrightnessState
<1> HIDE DEF new
<1>4. on \in BOOLEAN
  BY <1>3, StateParts
<1>5. UpdateBrightnessFromChannels(st) = [new EXCEPT !.on = on]
  BY DEF UpdateBrightnessFromChannels, new, x
<1> HIDE DEF on
<1>6. [new EXCEPT !.on = on] \in LightStates /\ [new EXCEPT !.on = on].v = new.v
      /\ [new EXCEPT !.on = on].mode = new.mode
  BY <1>3, <1>4, SetOn
<1> QED BY <1>3, <1>5, <1>6, StateParts, Values DEF Follows, SameBut

(* Of a light with channels of both white colors and of their temperature,   *)
(* but without a dimmer and colors, the code overwrites the temperature that *)
(* its channel shows with the one its whites show.                           *)
OneTemperatureIn(kind) ==
    {"cold", "warm", "temp"} \subseteq ToSet(kind) =>
        "dimmer" \in ToSet(kind) \/ {"red", "green", "blue"} \subseteq ToSet(kind)

(* The channels whose values the state has. *)
Readable == {c \in ToSet(channels) : c = "temp" => OneTemperatureIn(channels)}

(* The color mode of a light that does not switch it is its first one; of    *)
(* one that does it says whether a color is shown.                           *)
ModeOK(st) ==
    IF SwitchesColorMode THEN st.mode = IF AnyOf(st, Rgb) THEN ModeForRgb ELSE "color_temp"
    ELSE st.mode = FirstMode

LEMMA ReadableChannels ==
    /\ Readable \subseteq ToSet(channels)
    /\ channels' = channels => Readable' = Readable
BY DEF Readable

LEMMA ModeKept ==
    ASSUME NEW st, NEW t, t.mode = st.mode, \A a \in Rgb : t.v[a] = st.v[a]
    PROVE  ModeOK(t) <=> ModeOK(st)
BY DEF ModeOK, AnyOf

LEMMA SyncState ==
    ASSUME NEW st \in LightStates
    PROVE  /\ Follows(SyncColorMode(st), st, {})
           /\ SwitchesColorMode => ModeOK(SyncColorMode(st))
<1>1. CASE ~SwitchesColorMode
  BY <1>1 DEF SyncColorMode, Follows
<1>2. CASE SwitchesColorMode /\ AnyOf(st, Rgb)
  <2>1. ModeForRgb \in Modes
    BY DEF ModeForRgb, Modes
  <2>2. [st EXCEPT !.mode = ModeForRgb] \in LightStates /\ [st EXCEPT !.mode = ModeForRgb].v = st.v
    BY <2>1, StateParts DEF LightStates
  <2> DEFINE t == [st EXCEPT !.mode = ModeForRgb]
  <2>3. t.mode = ModeForRgb /\ AnyOf(t, Rgb)
    BY <1>2, <2>2, StateParts DEF LightStates, AnyOf
  <2>4. SyncColorMode(st) = t
    BY <1>2 DEF SyncColorMode
  <2> HIDE DEF t
  <2> QED BY <1>2, <2>2, <2>3, <2>4 DEF t, Follows, ModeOK
<1>3. CASE SwitchesColorMode /\ ~AnyOf(st, Rgb)
  <2> DEFINE white == [st EXCEPT !.mode = "color_temp"]
  <2>1. white \in LightStates /\ white.v = st.v /\ white.mode = "color_temp"
    BY StateParts DEF LightStates, Modes
  <2> HIDE DEF white
  <2>2. SyncColorMode(st) = Remembered(white, Rgb)
    BY <1>3 DEF SyncColorMode, white
  <2> DEFINE t == SyncColorMode(st)
  <2>3. t \in LightStates /\ t.v = st.v /\ t.mode = "color_temp"
    BY <2>1, <2>2, RememberedState DEF SameValues, SameBut
  <2> HIDE DEF t
  <2>4. ModeOK(t) /\ Follows(t, st, {})
    BY <1>3, <2>3 DEF ModeOK, AnyOf, Follows
  <2> QED BY <2>4 DEF t
<1> QED BY <1>1, <1>2, <1>3

LEMMA WithOnState ==
    ASSUME NEW st \in LightStates
    PROVE  WithOn(st) \in LightStates /\ WithOn(st).v = st.v /\ WithOn(st).mode = st.mode
<1> DEFINE dimmed == AnyOf(st, {"brightness"})
           undimmed == AnyOf(st, Rgb \cup {"cold", "warm"}) /\ OnWithoutDimmer(st)
<1>1. dimmed \in BOOLEAN /\ undimmed \in BOOLEAN
  BY DEF AnyOf
<1>2. \/ WithOn(st) = [st EXCEPT !.on = dimmed]
      \/ WithOn(st) = [st EXCEPT !.on = undimmed]
      \/ WithOn(st) = st
  BY DEF WithOn
<1> HIDE DEF dimmed, undimmed
<1>3. ASSUME NEW x \in BOOLEAN
      PROVE  /\ [st EXCEPT !.on = x] \in LightStates /\ [st EXCEPT !.on = x].v = st.v
             /\ [st EXCEPT !.on = x].mode = st.mode
  BY SetOn
<1> DEFINE t == WithOn(st)
<1>4. t = [st EXCEPT !.on = dimmed] \/ t = [st EXCEPT !.on = undimmed] \/ t = st
  BY <1>2
<1> HIDE DEF t
<1>5. t \in LightStates /\ t.v = st.v /\ t.mode = st.mode
  BY <1>1, <1>3, <1>4
<1> QED BY <1>5 DEF t

(* The value of a channel after its update; without a dimmer it is the       *)
(* brightness that follows.                                                  *)
Dim == IF HasDimmer THEN {} ELSE {"brightness"}

LEMMA HandleRgbState ==
    ASSUME NEW st \in LightStates, NEW c \in Rgb, NEW x \in Bytes
    PROVE  /\ Follows(HandleRgb(st, c, x), st, {c} \cup Dim) /\ HandleRgb(st, c, x).v[c] = x
           /\ SwitchesColorMode => ModeOK(HandleRgb(st, c, x))
<1> DEFINE set == [st EXCEPT !.v[c] = x]
           remembered == IF SwitchesColorMode THEN RememberedIfAny(set, Rgb)
                         ELSE RememberedIfAny(set, Together(st.mode))
           new == IF SwitchesColorMode THEN SyncColorMode(remembered) ELSE remembered
<1>1. c \in Dimmed /\ c # "brightness"
  BY DEF Rgb, Dimmed, Twins
<1>2. set \in LightStates /\ SameBut(set, st) /\ set.v = [st.v EXCEPT ![c] = x]
  BY <1>1, SetAttribute
<1>3. Follows(set, st, {c}) /\ set.v[c] = x
  BY <1>1, <1>2, StateParts, Values DEF Follows, SameBut, Dimmed
<1> HIDE DEF set
<1>4. remembered \in LightStates /\ SameValues(remembered, set)
  BY <1>2, RememberedIfAnyState
<1>5. Follows(remembered, set, {})
  BY <1>4 DEF Follows, SameValues, SameBut
<1>6. HandleRgb(st, c, x) = IF HasDimmer THEN new ELSE UpdateBrightnessFromChannels(new)
  BY DEF HandleRgb, set
<1> HIDE DEF remembered
<1>7. Follows(new, remembered, {}) /\ (SwitchesColorMode => ModeOK(new))
  BY <1>4, SyncState DEF Follows
<1> HIDE DEF new
<1>8. Follows(new, st, {c}) /\ new.v[c] = x
  BY <1>1, <1>3, <1>5, <1>7 DEF Follows, Dimmed
<1>9. CASE HasDimmer
  BY <1>6, <1>7, <1>8, <1>9 DEF Follows
<1>10. CASE ~HasDimmer
  <2> DEFINE u == UpdateBrightnessFromChannels(new)
  <2>1. Follows(u, new, {"brightness"}) /\ u.mode = new.mode
    BY <1>8, FromChannelsState DEF Follows
  <2>2. HandleRgb(st, c, x) = u
    BY <1>6, <1>10
  <2> HIDE DEF u
  <2>3. \A a \in Rgb : u.v[a] = new.v[a]
    BY <2>1 DEF Follows, Rgb, Twins
  <2>4. SwitchesColorMode => ModeOK(u)
    BY <1>7, <2>1, <2>3, ModeKept
  <2> QED BY <1>1, <1>8, <1>10, <2>1, <2>2, <2>4 DEF Follows, Dim, Dimmed
<1> QED BY <1>9, <1>10

(* The color temperature that the white channels of a light without a dimmer *)
(* show is kept as its temperature.                                          *)
ShowsTemperature(st) == ~HasDimmer /\ st.mode = "color_temp" /\ HasCwWw

LEMMA HandleWhiteState ==
    ASSUME NEW st \in LightStates, NEW c \in {"cold", "warm"}, NEW x \in Bytes
    PROVE  /\ Follows(HandleWhite(st, c, x), st, {c, "kelvin", "temp"} \cup Dim)
           /\ HandleWhite(st, c, x).v[c] = x
           /\ ShowsTemperature(st) \/ HandleWhite(st, c, x).v["temp"] = st.v["temp"]
           /\ HandleWhite(st, c, x).mode = st.mode
<1> DEFINE set0 == [st EXCEPT !.v[c] = x]
           set == RememberedIfAny(set0, {c})
           new == RememberedIfAny(set, Together(st.mode))
           brighter == UpdateBrightness(new, Brighter(new.v.cold, new.v.warm))
           off == IF brighter.v.brightness = 0 /\ st.v.brightness > 0
                  THEN [brighter EXCEPT !.on = FALSE] ELSE brighter
           k == CwWwToTemp(off.v.cold, off.v.warm)
           t == HandleWhite(st, c, x)
<1>1. c \in Dimmed /\ c # "brightness" /\ c # "temp" /\ c # "kelvin"
  BY DEF Dimmed, Twins
<1>2. set0 \in LightStates /\ SameBut(set0, st) /\ set0.v = [st.v EXCEPT ![c] = x]
  BY <1>1, SetAttribute
<1>3. Follows(set0, st, {c}) /\ set0.v[c] = x
  BY <1>1, <1>2, StateParts, Values DEF Follows, SameBut, Dimmed
<1>4. t = IF HasDimmer THEN new
          ELSE IF ShowsTemperature(st) THEN UpdateColorTempKelvin(off, k)
          ELSE UpdateBrightnessFromChannels(new)
  BY DEF HandleWhite, ShowsTemperature
<1> HIDE DEF set0, t
<1>5. set \in LightStates /\ SameValues(set, set0)
  BY <1>2, RememberedIfAnyState
<1> HIDE DEF set
<1>6. new \in LightStates /\ SameValues(new, set)
  BY <1>5, RememberedIfAnyState
<1> HIDE DEF new
<1>7. Follows(new, st, {c}) /\ new.v[c] = x /\ new.mode = st.mode
  BY <1>2, <1>3, <1>5, <1>6 DEF Follows, SameValues, SameBut
<1>8. CASE HasDimmer
  BY <1>1, <1>4, <1>7, <1>8 DEF Follows, Twins, Dim, t
<1>9. CASE ~HasDimmer /\ ShowsTemperature(st)
  <2>1. new.v["cold"] \in Bytes /\ new.v["warm"] \in Bytes
    BY <1>6, StateParts, Values DEF Dimmed, Twins
  <2>2. Brighter(new.v.cold, new.v.warm) \in Bytes
    BY <2>1 DEF Brighter
  <2>3. Follows(brighter, new, {"brightness"}) /\ brighter.mode = new.mode
    BY <1>6, <2>2, BrightnessFollows
  <2> HIDE DEF brighter
  <2>4. off \in LightStates /\ off.v = brighter.v /\ off.mode = brighter.mode
    BY <2>3, SetOn DEF Follows
  <2> HIDE DEF off
  <2>5. off.v["cold"] \in Nat /\ off.v["warm"] \in Nat
    BY <2>4, StateParts, Values DEF Twins
  <2>6. k \in Nat
    <3>1. k \in MinKelvin..MaxKelvin
      BY <2>5, TemperatureInBounds
    <3> HIDE DEF k
    <3> QED BY <3>1, Bounds
  <2> HIDE DEF k
  <2>7. /\ Follows(UpdateColorTempKelvin(off, k), off, {"kelvin", "temp"})
        /\ UpdateColorTempKelvin(off, k).mode = off.mode
    BY <2>4, <2>6, KelvinFollows
  <2>8. Follows(t, off, {"kelvin", "temp"}) /\ t.mode = off.mode
    BY <1>4, <1>9, <2>7
  <2> QED BY <1>1, <1>7, <1>9, <2>3, <2>4, <2>8 DEF Follows, Dim, Dimmed, t
<1>10. CASE ~HasDimmer /\ ~ShowsTemperature(st)
  <2>1. Follows(t, new, {"brightness"}) /\ t.mode = new.mode
    BY <1>4, <1>6, <1>10, FromChannelsState
  <2> QED BY <1>1, <1>7, <1>10, <2>1 DEF Follows, Dim, Dimmed, Twins, t
<1> QED BY <1>8, <1>9, <1>10

LEMMA NoTemperatureFromWhites ==
    ASSUME NEW st, ModeOK(st), OneTemperatureIn(channels), Has("temp")
    PROVE  ~ShowsTemperature(st)
<1> SUFFICES ASSUME ShowsTemperature(st) PROVE FALSE
  OBVIOUS
<1>1. Has("cold") /\ Has("warm") /\ ~HasDimmer /\ HasCwWw
  BY DEF ShowsTemperature, HasCwWw
<1>2. HasRgb
  BY <1>1 DEF OneTemperatureIn, Has, HasDimmer, HasRgb
<1>3. FirstMode = "rgbww"
  BY <1>1, <1>2 DEF FirstMode
<1>4. ~SwitchesColorMode
  BY <1>1 DEF SwitchesColorMode
<1> QED BY <1>3, <1>4 DEF ShowsTemperature, ModeOK

(* A light is on if the state says so: the dimmer's value, or those of the   *)
(* outputs.                                                                  *)
LitState(st) ==
    IF HasDimmer THEN st.v["brightness"] > 0 ELSE \E c \in ToSet(OutputChannels) : st.v[c] > 0
OnOK(st) == HasDimmer \/ OutputChannels # <<>> => (st.on <=> LitState(st))

(* What the lights the integration builds have in common.                    *)
LEMMA BuiltKinds ==
    ASSUME channels \in Kinds
    PROVE  /\ Has("cold") => Has("warm")
           /\ (Has("red") <=> Has("green")) /\ (Has("red") <=> Has("blue"))
           /\ Has("red") /\ Has("temp") => Has("warm") \/ Has("dimmer")
           /\ HasRgb <=> Has("red")
BY KindsAssumption DEF Has, HasRgb

(* The color mode leaves none of the outputs out that say whether the light  *)
(* is on: in white, the colors are zero.                                     *)
LEMMA WithOnRight ==
    ASSUME channels \in Kinds, NEW st \in LightStates, ModeOK(st)
    PROVE  OnOK(WithOn(st))
<1> DEFINE w == WithOn(st)
           some == AnyOf(st, Rgb \cup {"cold", "warm"})
<1>1. w.v = st.v
  BY WithOnState
<1>2. CASE HasDimmer
  <2>1. w = [st EXCEPT !.on = AnyOf(st, {"brightness"})]
    BY <1>2 DEF WithOn
  <2>2. w.on = AnyOf(st, {"brightness"})
    BY <2>1, SetOn DEF AnyOf
  <2> HIDE DEF w
  <2> QED BY <1>1, <1>2, <2>2 DEF OnOK, LitState, AnyOf, w
<1>3. CASE ~HasDimmer /\ OutputChannels # <<>>
  <2>1. w = [st EXCEPT !.on = some /\ OnWithoutDimmer(st)]
    BY <1>3 DEF WithOn
  <2>2. (some /\ OnWithoutDimmer(st)) \in BOOLEAN
    BY DEF AnyOf
  <2>3. w.on = (some /\ OnWithoutDimmer(st))
    BY <2>1, <2>2, SetOn
  <2> DEFINE lit(S) == \E a \in S : st.v[a] > 0
  <2>4. ToSet(OutputChannels) = {c \in OutputNames : Has(c)}
    BY OutputsOfLight
  <2>5. some <=> lit(OutputNames)
    BY DEF AnyOf, OutputNames, Rgb
  <2>6. OnWithoutDimmer(st) <=> lit({c \in OutputNames : Has(c)})
    <3>1. CASE HasRgb /\ HasCwWw
      <4>1. FirstMode = "rgbww" /\ ~SwitchesColorMode
        BY <3>1 DEF FirstMode, SwitchesColorMode, HasCwWw
      <4>2. st.mode = "rgbww"
        BY <4>1 DEF ModeOK
      <4>3. OnWithoutDimmer(st) <=> lit(Rgb \cup {"cold", "warm"})
        BY <4>2 DEF OnWithoutDimmer, Together, AnyOf
      <4>4. {c \in OutputNames : Has(c)} = Rgb \cup {"cold", "warm"}
        BY <3>1 DEF OutputNames, HasRgb, HasCwWw, Rgb
      <4> QED BY <4>3, <4>4
    <3>2. CASE HasRgb /\ ~HasCwWw
      <4>1. ~Has("cold")
        BY <3>2, BuiltKinds DEF HasCwWw
      <4>2. SwitchesColorMode <=> Has("temp")
        BY <3>2, <4>1 DEF SwitchesColorMode
      <4>3. ~SwitchesColorMode => FirstMode = ModeForRgb
        BY <3>2, <4>2 DEF FirstMode
      <4>4. SwitchesColorMode => Has("warm")
        BY <1>3, <3>2, <4>2, BuiltKinds DEF HasDimmer
      <4>5. {c \in OutputNames : Has(c)} = Rgb \cup (IF Has("warm") THEN {"warm"} ELSE {})
        BY <3>2, <4>1 DEF OutputNames, HasRgb, Rgb
      <4>6. st.mode = ModeForRgb \/ (SwitchesColorMode /\ st.mode = "color_temp" /\ ~lit(Rgb))
        BY <4>3 DEF ModeOK, AnyOf
      <4>7. CASE st.mode = ModeForRgb
        <5>1. CASE Has("warm")
          <6>1. st.mode = "rgbw"
            BY <4>7, <5>1 DEF ModeForRgb
          <6>2. OnWithoutDimmer(st) <=> lit(Rgb \cup {"warm"})
            BY <6>1 DEF OnWithoutDimmer, Together, AnyOf
          <6> QED BY <4>5, <5>1, <6>2
        <5>2. CASE ~Has("warm")
          <6>1. st.mode = "rgb"
            BY <4>7, <5>2 DEF ModeForRgb
          <6>2. OnWithoutDimmer(st) <=> lit(Rgb)
            BY <6>1 DEF OnWithoutDimmer, Together, AnyOf
          <6> QED BY <4>5, <5>2, <6>2
        <5> QED BY <5>1, <5>2
      <4>8. CASE SwitchesColorMode /\ st.mode = "color_temp" /\ ~lit(Rgb)
        <5>1. OnWithoutDimmer(st) <=> lit({"warm"})
          BY <3>2, <4>4, <4>8 DEF OnWithoutDimmer, AnyOf
        <5> QED BY <4>4, <4>5, <4>8, <5>1
      <4> QED BY <4>6, <4>7, <4>8
    <3>3. CASE ~HasRgb /\ HasCwWw
      <4>1. ~SwitchesColorMode /\ FirstMode = "color_temp"
        BY <3>3 DEF FirstMode, SwitchesColorMode
      <4>2. OnWithoutDimmer(st) <=> lit({"cold", "warm"})
        BY <3>3, <4>1 DEF ModeOK, OnWithoutDimmer, AnyOf
      <4>3. {c \in OutputNames : Has(c)} = {"cold", "warm"}
        BY <3>3, BuiltKinds DEF OutputNames, HasCwWw
      <4> QED BY <4>2, <4>3
    <3>4. CASE ~HasRgb /\ ~HasCwWw
      <4>1. {c \in OutputNames : Has(c)} \subseteq {"warm"}
        BY <3>4, BuiltKinds DEF OutputNames, HasCwWw
      <4>2. Has("warm")
        <5>1. ToSet(OutputChannels) # {}
          BY <1>3, OutputsOfLight DEF ToSet
        <5> QED BY <2>4, <4>1, <5>1
      <4>3. {c \in OutputNames : Has(c)} = {"warm"}
        BY <4>1, <4>2 DEF OutputNames
      <4>4. ~SwitchesColorMode /\ FirstMode \in {"color_temp", "brightness"}
        BY <3>4 DEF FirstMode, SwitchesColorMode
      <4>5. OnWithoutDimmer(st) <=> lit({"warm"})
        BY <3>4, <4>2, <4>4 DEF ModeOK, OnWithoutDimmer, AnyOf
      <4> QED BY <4>3, <4>5
    <3> QED BY <3>1, <3>2, <3>3, <3>4
  <2>7. lit({c \in OutputNames : Has(c)}) => some
    BY <2>5
  <2>8. w.on <=> lit(ToSet(OutputChannels))
    BY <2>3, <2>4, <2>6, <2>7
  <2> HIDE DEF w
  <2> QED BY <1>1, <1>3, <2>8 DEF OnOK, LitState, w
<1> QED BY <1>2, <1>3 DEF OnOK

(* A channel update sets the value of its channel, and of no other one, and  *)
(* whether the light is on.                                                  *)
LEMMA ApplyState ==
    ASSUME channels \in Kinds, NEW st \in LightStates, ModeOK(st),
           NEW c \in ToSet(channels), NEW x \in ValuesOf(c)
    PROVE  /\ ApplyChannelUpdate(st, c, x) \in LightStates
           /\ ModeOK(ApplyChannelUpdate(st, c, x)) /\ OnOK(ApplyChannelUpdate(st, c, x))
           /\ Value(ApplyChannelUpdate(st, c, x).v, c) = x
           /\ \A d \in Readable \ {c} : Value(ApplyChannelUpdate(st, c, x).v, d) = Value(st.v, d)
<1> DEFINE t == CASE c = "dimmer" -> [UpdateBrightness(st, x) EXCEPT !.on = x > 0]
                  [] c \in Rgb -> HandleRgb(st, c, x)
                  [] c \in {"cold", "warm"} -> HandleWhite(st, c, x)
                  [] c = "temp" -> UpdateColorTempDmx(st, x)
           Right(u) == /\ u \in LightStates /\ ModeOK(u)
                       /\ Value(u.v, c) = x
                       /\ \A d \in Readable \ {c} : Value(u.v, d) = Value(st.v, d)
<1>1. ApplyChannelUpdate(st, c, x) = WithOn(t)
  BY DEF ApplyChannelUpdate
<1>2. ToSet(channels) \subseteq ChannelNames /\ \A d : Has(d) <=> d \in ToSet(channels)
  BY ChannelFacts
<1>3. /\ c \in ChannelNames
      /\ c = "dimmer" \/ c \in Rgb \/ c \in {"cold", "warm"} \/ c = "temp"
      /\ c # "temp" => x \in Bytes
      /\ c = "temp" => x \in Temps
  BY <1>2 DEF ChannelNames, Rgb, ValuesOf
<1>4. \A d \in ChannelNames \ {"dimmer"} : d \in Twins \ {"brightness"} /\ \A v : Value(v, d) = v[d]
  BY DEF ChannelNames, Twins, Value
<1>5. \A v : Value(v, "dimmer") = v["brightness"]
  BY DEF Value
<1>6. Readable \subseteq ToSet(channels)
  BY ReadableChannels
<1>7. Right(t)
  <2>1. CASE c = "dimmer"
    <3> DEFINE u == UpdateBrightness(st, x)
    <3>1. /\ Follows(u, st, {"brightness"}) /\ u.mode = st.mode
          /\ u.v = [st.v EXCEPT !["brightness"] = x] /\ st.v \in LightValues
      BY <1>3, <2>1, BrightnessFollows, UpdateBrightnessState, StateParts
    <3>2. (x > 0) \in BOOLEAN
      OBVIOUS
    <3> HIDE DEF u
    <3>3. [u EXCEPT !.on = x > 0] \in LightStates /\ [u EXCEPT !.on = x > 0].v = u.v
          /\ [u EXCEPT !.on = x > 0].mode = u.mode
      BY <3>1, <3>2, SetOn DEF Follows
    <3>4. t = [u EXCEPT !.on = x > 0]
      BY <2>1 DEF u, Rgb
    <3> HIDE DEF t
    <3>5. st.v \in [Twins -> Nat] /\ "brightness" \in Twins
      BY <3>1, Values DEF Twins
    <3>6. t.v["brightness"] = x /\ \A a \in Twins \ {"brightness"} : t.v[a] = st.v[a]
      BY <3>1, <3>3, <3>4, <3>5
    <3>7. t \in LightStates /\ t.mode = st.mode
      BY <3>1, <3>3, <3>4
    <3>8. ModeOK(t)
      BY <3>6, <3>7, ModeKept DEF Rgb, Twins
    <3>9. \A d \in Readable \ {c} : Value(t.v, d) = Value(st.v, d)
      BY <1>2, <1>4, <1>6, <2>1, <3>6
    <3> QED BY <1>5, <2>1, <3>6, <3>7, <3>8, <3>9
  <2>2. CASE c \in Rgb
    <3>1. t = HandleRgb(st, c, x) /\ c # "dimmer" /\ c # "temp"
      BY <2>2 DEF Rgb
    <3> HIDE DEF t
    <3>2. /\ Follows(t, st, {c} \cup Dim) /\ t.v[c] = x
          /\ SwitchesColorMode => ModeOK(t)
      BY <1>3, <2>2, <3>1, HandleRgbState
    <3>3. \A d \in ToSet(channels) \ {c} : Value(t.v, d) = Value(st.v, d)
      <4> SUFFICES ASSUME NEW d \in ToSet(channels) \ {c} PROVE Value(t.v, d) = Value(st.v, d)
        OBVIOUS
      <4>1. CASE d = "dimmer"
        <5>1. Dim = {} /\ "brightness" # c /\ "brightness" \in Twins
          BY <1>2, <2>2, <4>1 DEF Dim, HasDimmer, Rgb, Twins
        <5> QED BY <1>5, <3>2, <4>1, <5>1 DEF Follows
      <4>2. CASE d # "dimmer"
        <5>1. d \in Twins \ ({c} \cup Dim)
          BY <1>2, <1>4, <4>2 DEF Dim
        <5> QED BY <1>2, <1>4, <3>2, <4>2, <5>1 DEF Follows
      <4> QED BY <4>1, <4>2
    <3>4. ModeOK(t)
      BY <3>2 DEF ModeOK, Follows
    <3> QED BY <1>3, <1>4, <1>6, <3>1, <3>2, <3>3, <3>4 DEF Follows
  <2>3. CASE c \in {"cold", "warm"}
    <3>1. t = HandleWhite(st, c, x) /\ c # "dimmer" /\ c # "temp"
      BY <2>3 DEF Rgb
    <3> HIDE DEF t
    <3>2. /\ Follows(t, st, {c, "kelvin", "temp"} \cup Dim) /\ t.v[c] = x
          /\ ShowsTemperature(st) \/ t.v["temp"] = st.v["temp"]
          /\ t.mode = st.mode
      BY <1>3, <2>3, <3>1, HandleWhiteState
    <3>3. \A d \in Readable \ {c} : Value(t.v, d) = Value(st.v, d)
      <4> SUFFICES ASSUME NEW d \in Readable \ {c}
                   PROVE  Value(t.v, d) = Value(st.v, d)
        OBVIOUS
      <4> d \in ToSet(channels) /\ d # c /\ (d = "temp" => OneTemperatureIn(channels))
        BY DEF Readable
      <4>1. CASE d = "dimmer"
        <5>1. Dim = {} /\ "brightness" \in Twins \ {c, "kelvin", "temp"}
          BY <1>2, <2>3, <4>1 DEF Dim, HasDimmer, Rgb, Twins
        <5> QED BY <1>5, <3>2, <4>1, <5>1 DEF Follows
      <4>2. CASE d = "temp"
        <5>1. ~ShowsTemperature(st)
          BY <1>2, <4>2, NoTemperatureFromWhites
        <5> QED BY <3>2, <4>2, <5>1 DEF Value
      <4>3. CASE d # "dimmer" /\ d # "temp"
        <5>1. d \in Twins \ ({c, "kelvin", "temp"} \cup Dim)
          BY <1>2, <1>4, <4>3 DEF Dim, ChannelNames
        <5> QED BY <1>2, <1>4, <3>2, <4>3, <5>1 DEF Follows
      <4> QED BY <4>1, <4>2, <4>3
    <3>4. \A a \in Rgb : t.v[a] = st.v[a]
      BY <2>3, <3>2 DEF Follows, Rgb, Dim, Twins
    <3>5. ModeOK(t)
      BY <3>2, <3>4, ModeKept
    <3> QED BY <1>3, <1>4, <3>1, <3>2, <3>3, <3>5 DEF Follows
  <2>4. CASE c = "temp"
    <3>1. t = UpdateColorTempDmx(st, x)
      BY <2>4 DEF Rgb
    <3> HIDE DEF t
    <3>2. t \in LightStates /\ t.mode = st.mode
          /\ t.v = [st.v EXCEPT !["temp"] = x, !["kelvin"] = DmxToKelvin(x)]
      BY <1>3, <2>4, <3>1, UpdateTempState DEF SameBut
    <3>3. st.v \in [Twins -> Nat] /\ "temp" \in Twins /\ "kelvin" \in Twins
      BY StateParts, Values DEF Twins
    <3>4. t.v["temp"] = x /\ \A a \in Twins \ {"temp", "kelvin"} : t.v[a] = st.v[a]
      BY <3>2, <3>3
    <3>5. \A d \in ToSet(channels) \ {c} : Value(t.v, d) = Value(st.v, d)
      <4> SUFFICES ASSUME NEW d \in ToSet(channels) \ {c} PROVE Value(t.v, d) = Value(st.v, d)
        OBVIOUS
      <4>1. CASE d = "dimmer"
        BY <1>5, <3>4, <4>1 DEF Twins
      <4>2. CASE d # "dimmer"
        <5>1. d \in Twins \ {"temp", "kelvin"}
          BY <1>2, <1>4, <2>4, <4>2 DEF ChannelNames
        <5> QED BY <1>2, <1>4, <3>4, <4>2, <5>1
      <4> QED BY <4>1, <4>2
    <3>6. ModeOK(t)
      BY <3>2, <3>4, ModeKept DEF Rgb, Twins
    <3>7. Value(t.v, c) = x
      BY <2>4, <3>4 DEF Value
    <3> QED BY <1>6, <3>2, <3>5, <3>6, <3>7
  <2> QED BY <1>3, <2>1, <2>2, <2>3, <2>4
<1> HIDE DEF t
<1> DEFINE w == WithOn(t)
<1>8. w \in LightStates /\ w.v = t.v /\ w.mode = t.mode
  BY <1>7, WithOnState
<1> HIDE DEF w
<1>9. ModeOK(w)
  BY <1>7, <1>8, ModeKept
<1>10. OnOK(w)
  BY <1>7, WithOnRight DEF w
<1> QED BY <1>1, <1>7, <1>8, <1>9, <1>10 DEF w

-----------------------------------------------------------------------------
(* Updates: their values are those their channels can have.                  *)
Updates == {p \in ChannelNames \X Nat : p[2] \in ValuesOf(p[1])}

LEMMA UpdateParts ==
    /\ \A p \in Updates : p = <<p[1], p[2]>> /\ p[1] \in ChannelNames /\ p[2] \in ValuesOf(p[1])
    /\ \A c \in ChannelNames : \A x \in ValuesOf(c) : <<c, x>> \in Updates
<1>1. \A c : ValuesOf(c) \subseteq Nat
  BY Bounds DEF ValuesOf, Temps, Bytes
<1> QED BY <1>1 DEF Updates

LEMMA KeyedValue ==
    ASSUME NEW q, Keyed(q), NEW i \in DOMAIN q
    PROVE  q[i][1] \in Names(q) /\ ValueOf(q, q[i][1]) = q[i][2]
<1>1. q[i] \in ToSet(q) /\ q[i][1] \in Names(q)
  BY DEF ToSet, Names
<1>2. \A p \in ToSet(q) : p[1] = q[i][1] => p = q[i]
  BY DEF ToSet, Keyed
<1>3. (CHOOSE p \in ToSet(q) : p[1] = q[i][1]) = q[i]
  BY <1>1, <1>2
<1> QED BY <1>1, <1>3 DEF ValueOf

(* The states a sequence of updates goes through. *)
AppliedRun(g, n, st, q) == g = [i \in 0..n |-> IF i = 0 THEN st ELSE Applied(g[i - 1], q[i])]

LEMMA AppliedRunExists ==
    ASSUME NEW st, NEW q
    PROVE  \A n \in Nat : \E g : AppliedRun(g, n, st, q)
<1> DEFINE T == {n \in Nat : \E g : AppliedRun(g, n, st, q)}
<1>1. 0 \in T
  <2> DEFINE g == [i \in 0..0 |-> st]
  <2>1. AppliedRun(g, 0, st, q)
    BY DEF AppliedRun
  <2> QED BY <2>1
<1>2. ASSUME NEW n \in T PROVE n + 1 \in T
  <2>1. PICK g : AppliedRun(g, n, st, q)
    OBVIOUS
  <2> DEFINE h == [i \in 0..(n + 1) |-> IF i <= n THEN g[i] ELSE Applied(g[n], q[n + 1])]
  <2>2. ASSUME NEW i \in 0..(n + 1) PROVE h[i] = IF i = 0 THEN st ELSE Applied(h[i - 1], q[i])
    <3>1. CASE i = n + 1
      BY <3>1
    <3>2. CASE i \in 0..n
      BY <2>1, <3>2 DEF AppliedRun
    <3> QED BY <3>1, <3>2
  <2>3. AppliedRun(h, n + 1, st, q)
    BY <2>2 DEF AppliedRun
  <2> QED BY <2>3
<1> HIDE DEF T
<1>3. T = Nat
  BY <1>1, <1>2, NatSetInduction DEF T
<1> QED BY <1>3 DEF T

LEMMA ApplyAllSteps ==
    ASSUME NEW st, NEW q, Len(q) \in Nat
    PROVE  \E g : /\ g[0] = st
                  /\ \A i \in 1..Len(q) : g[i] = Applied(g[i - 1], q[i])
                  /\ ApplyAll(st, q) = g[Len(q)]
<1>1. \E g : AppliedRun(g, Len(q), st, q)
  BY AppliedRunExists
<1> DEFINE c == CHOOSE g : AppliedRun(g, Len(q), st, q)
<1>2. AppliedRun(c, Len(q), st, q)
  BY <1>1
<1>3. ApplyAll(st, q) = c[Len(q)]
  BY DEF ApplyAll, AppliedRun
<1> HIDE DEF c
<1>4. c[0] = st /\ \A i \in 1..Len(q) : c[i] = Applied(c[i - 1], q[i])
  BY <1>2 DEF AppliedRun
<1> QED BY <1>3, <1>4

(* After updates of different channels each of them has its value, and all   *)
(* the others have what they had.                                            *)
LEMMA ApplyAllState ==
    ASSUME channels \in Kinds, NEW st \in LightStates, ModeOK(st), NEW q \in Seq(Updates), Keyed(q)
    PROVE  /\ ApplyAll(st, q) \in LightStates
           /\ ModeOK(ApplyAll(st, q))
           /\ OnOK(st) \/ Names(q) \cap ToSet(channels) # {} => OnOK(ApplyAll(st, q))
           /\ \A d \in Readable :
                 /\ d \in Names(q) => Value(ApplyAll(st, q).v, d) = ValueOf(q, d)
                 /\ d \notin Names(q) => Value(ApplyAll(st, q).v, d) = Value(st.v, d)
<1> DEFINE n == Len(q)
<1>1. n \in Nat /\ DOMAIN q = 1..n
  OBVIOUS
<1>2. PICK g : /\ g[0] = st
               /\ \A i \in 1..n : g[i] = Applied(g[i - 1], q[i])
               /\ ApplyAll(st, q) = g[n]
  BY <1>1, ApplyAllSteps
<1> DEFINE Set(k, d) == \A i \in 1..k : q[i][1] = d => Value(g[k].v, d) = q[i][2]
           Kept(k, d) == (\A i \in 1..k : q[i][1] # d) => Value(g[k].v, d) = Value(st.v, d)
           On(k) == OnOK(st) \/ (\E i \in 1..k : Has(q[i][1])) => OnOK(g[k])
           P(k) == /\ g[k] \in LightStates /\ ModeOK(g[k]) /\ On(k)
                   /\ \A d \in Readable : Set(k, d) /\ Kept(k, d)
           T == {k \in Nat : k <= n => P(k)}
<1>3. 0 \in T
  BY <1>2
<1>4. ASSUME NEW k \in T PROVE k + 1 \in T
  <2> SUFFICES ASSUME k + 1 <= n PROVE P(k + 1)
    OBVIOUS
  <2> DEFINE c == q[k + 1][1]
             x == q[k + 1][2]
  <2>1. k + 1 \in 1..n /\ P(k) /\ q[k + 1] \in Updates
    BY <1>1
  <2>2. g[k + 1] = Applied(g[k], q[k + 1])
    BY <1>2, <2>1
  <2>3. c \in ChannelNames /\ x \in ValuesOf(c)
    BY <2>1, UpdateParts
  <2>4. \A i \in 1..k : q[i][1] # c
    BY <1>1, <2>1 DEF Keyed
  <2>5. CASE ~Has(c)
    <3>1. g[k + 1] = g[k] /\ c \notin ToSet(channels)
      BY <2>2, <2>5, ChannelFacts DEF Applied
    <3>2. \A i \in 1..(k + 1) : i \in 1..k \/ i = k + 1
      OBVIOUS
    <3>3. \A d \in Readable : Set(k + 1, d) /\ Kept(k + 1, d)
      <4> SUFFICES ASSUME NEW d \in Readable PROVE Set(k + 1, d) /\ Kept(k + 1, d)
        OBVIOUS
      <4>1. Set(k, d) /\ Kept(k, d) /\ d # c
        BY <2>1, <3>1, ReadableChannels
      <4> QED BY <3>1, <3>2, <4>1
    <3>4. On(k + 1)
      BY <2>1, <2>5, <3>1, <3>2
    <3> QED BY <2>1, <3>1, <3>3, <3>4
  <2>6. CASE Has(c)
    <3>1. g[k + 1] = ApplyChannelUpdate(g[k], c, x) /\ c \in ToSet(channels)
      BY <2>2, <2>6, ChannelFacts DEF Applied
    <3>2. /\ g[k + 1] \in LightStates /\ ModeOK(g[k + 1]) /\ OnOK(g[k + 1])
          /\ Value(g[k + 1].v, c) = x
          /\ \A d \in Readable \ {c} : Value(g[k + 1].v, d) = Value(g[k].v, d)
      BY <2>1, <2>3, <3>1, ApplyState
    <3>3. ASSUME NEW d \in Readable PROVE Set(k + 1, d) /\ Kept(k + 1, d)
      <4>1. CASE d = c
        <5>1. \A i \in 1..(k + 1) : q[i][1] = d => i = k + 1
          BY <2>4, <4>1
        <5> QED BY <3>2, <4>1, <5>1
      <4>2. CASE d # c
        <5>1. Value(g[k + 1].v, d) = Value(g[k].v, d)
          BY <3>2, <3>3, <4>2
        <5>2. \A i \in 1..(k + 1) : q[i][1] = d => i \in 1..k
          BY <4>2
        <5>3. Set(k, d) /\ Kept(k, d)
          BY <2>1, <3>3
        <5> QED BY <5>1, <5>2, <5>3
      <4> QED BY <4>1, <4>2
    <3> QED BY <3>2, <3>3
  <2> QED BY <2>5, <2>6
<1>5. P(n)
  <2> HIDE DEF P
  <2>1. T \in SUBSET Nat
    OBVIOUS
  <2> HIDE DEF T
  <2>2. T = Nat
    BY <1>3, <1>4, <2>1, NatSetInduction
  <2> QED BY <1>1, <2>2 DEF T
<1>6. ASSUME NEW d \in Readable, d \in Names(q)
      PROVE  Value(ApplyAll(st, q).v, d) = ValueOf(q, d)
  <2>1. PICK i \in DOMAIN q : q[i][1] = d
    BY <1>6 DEF Names, ToSet
  <2>2. ValueOf(q, d) = q[i][2]
    BY <2>1, KeyedValue
  <2> QED BY <1>1, <1>2, <1>5, <1>6, <2>1, <2>2
<1>7. ASSUME NEW d \in Readable, d \notin Names(q)
      PROVE  Value(ApplyAll(st, q).v, d) = Value(st.v, d)
  <2>1. \A i \in 1..n : q[i][1] # d
    BY <1>1, <1>7 DEF Names, ToSet
  <2> QED BY <1>2, <1>5, <1>7, <2>1
<1>8. ASSUME Names(q) \cap ToSet(channels) # {} PROVE OnOK(ApplyAll(st, q))
  <2>1. PICK i \in 1..n : q[i][1] \in ToSet(channels)
    BY <1>1, <1>8 DEF Names, ToSet
  <2> QED BY <1>2, <1>5, <2>1 DEF Has
<1> QED BY <1>2, <1>5, <1>6, <1>7, <1>8

-----------------------------------------------------------------------------
(* What the universe tells the light.                                        *)
LEMMA RoundProduct ==
    ASSUME NEW d \in Nat \ {0}, NEW n \in Nat
    PROVE  Round(d * n, d) = n
<1> DEFINE m == d * n
           q == m \div d
           r == m % d
<1>1. m \in Nat
  BY SMT
<1>2. q \in Nat /\ r \in 0..(d - 1) /\ m = (d * q) + r
  <2> HIDE DEF m
  <2> QED BY <1>1, Division
<1>3. q = n /\ r = 0
  <2> HIDE DEF q, r
  <2>1. r = d * (n - q)
    BY <1>2, SMT
  <2>2. n - q \in Int
    BY <1>2
  <2> DEFINE e == n - q
  <2>3. e = 0
    <3>1. ASSUME e >= 1 PROVE d * e >= d
      <4> HIDE DEF e
      <4> QED BY <2>2, <3>1, SMT DEF e
    <3>2. ASSUME e <= -1 PROVE d * e < 0
      <4> HIDE DEF e
      <4> QED BY <2>2, <3>2, SMT DEF e
    <3> QED BY <1>2, <2>1, <2>2, <3>1, <3>2
  <2> QED BY <1>2, <2>1, <2>3
<1> QED BY <1>3 DEF Round

LEMMA RoundWhole ==
    ASSUME NEW n \in Bytes
    PROVE  Round(n * Range_, Range_) = n /\ n * Range_ \in Temps
<1>1. n \in Nat /\ n <= 255 /\ Range_ \in Nat \ {0}
  BY Bounds DEF Bytes
<1>2. n * Range_ \in Nat /\ n * Range_ <= 255 * Range_ /\ n * Range_ = Range_ * n
  BY <1>1, SMT
<1>3. Round(Range_ * n, Range_) = n
  BY <1>1, RoundProduct
<1> QED BY <1>2, <1>3 DEF Temps

LEMMA EntityValues ==
    ASSUME NEW st \in LightStates, NEW c \in ChannelNames
    PROVE  /\ Value(st.v, c) \in ValuesOf(c)
           /\ EntityValue(st, c) \in Bytes
           /\ EntityValue(st, c) = IF c = "temp" THEN Round(Value(st.v, c), Range_) ELSE Value(st.v, c)
<1>1. st.v["temp"] \in Temps /\ \A a \in Dimmed : st.v[a] \in Bytes
  BY StateParts, Values
<1>2. \A x \in Temps : Round(x, Range_) \in Bytes
  BY TempByte
<1>3. c # "temp" => c \in Dimmed \/ c = "dimmer"
  BY DEF ChannelNames, Dimmed, Twins
<1>4. "brightness" \in Dimmed
  BY DEF Dimmed, Twins
<1> QED BY <1>1, <1>2, <1>3, <1>4 DEF Value, EntityValue, ValuesOf

LEMMA FiniteChannels ==
    ASSUME channels \in Kinds, NEW D \in SUBSET ToSet(channels)
    PROVE  IsFiniteSet(D)
<1>1. channels \in Seq(ChannelNames)
  BY ChannelFacts
<1>2. Len(channels) \in Nat /\ DOMAIN channels = 1..Len(channels)
  BY <1>1
<1>3. channels \in Surjection(1..Len(channels), ToSet(channels))
  BY <1>1, <1>2 DEF Surjection, ToSet
<1>4. IsFiniteSet(1..Len(channels))
  BY <1>2, FS_Interval
<1>5. IsFiniteSet(ToSet(channels))
  BY <1>3, <1>4, FS_Surjection
<1> QED BY <1>5, FS_Subset

(* The orders in which a set of callbacks may run. *)
LEMMA Orders ==
    ASSUME NEW S, IsFiniteSet(S), NEW order \in SetToSeqs(S)
    PROVE  /\ order \in Seq(S) /\ Distinct(order) /\ ToSet(order) = S
<1> DEFINE n == Cardinality(S)
<1>1. n \in Nat
  BY FS_CardinalityType
<1>2. order \in [1..n -> S] /\ \A i, j \in 1..n : i # j => order[i] # order[j]
  BY DEF SetToSeqs
<1>3. IsFiniteSet(1..n) /\ Cardinality(1..n) = n
  BY <1>1, FS_Interval
<1>4. order \in Injection(1..n, S)
  BY <1>2 DEF Injection, IsInjective
<1>5. order \in Surjection(1..n, S)
  BY <1>3, <1>4, FS_Injection
<1> HIDE DEF n
<1>6. order \in Seq(S) /\ DOMAIN order = 1..n
  BY <1>1, <1>2
<1>7. ToSet(order) = S
  BY <1>5, <1>6 DEF Surjection, ToSet
<1> QED BY <1>2, <1>6, <1>7 DEF Distinct

(* In whatever order the changes are heard: each channel that has changed    *)
(* shows its new value, and the others what they showed.                     *)
LEMMA HeardState ==
    ASSUME channels \in Kinds, NEW st \in LightStates, ModeOK(st),
           dmx \in [ToSet(channels) -> Bytes \cup {Unset}],
           NEW D \in SUBSET ToSet(channels), NEW values \in [D -> Bytes], NEW t \in Heard(st, values)
    PROVE  /\ t \in LightStates
           /\ ModeOK(t)
           /\ OnOK(st) \/ Changed(values) # {} => OnOK(t)
           /\ \A c \in Readable :
                 EntityValue(t, c) = IF c \in D /\ values[c] # dmx[c] THEN values[c] ELSE EntityValue(st, c)
<1> DEFINE heard(c) == <<c, IF c = "temp" THEN values[c] * Range_ ELSE values[c]>>
<1>1. PICK order \in SetToSeqs(Changed(values)) : t = ApplyAll(st, [i \in DOMAIN order |-> heard(order[i])])
  BY DEF Heard
<1> DEFINE q == [i \in DOMAIN order |-> heard(order[i])]
<1>2. Changed(values) \subseteq D /\ \A c \in D : c \in Changed(values) <=> values[c] # dmx[c]
  BY DEF Changed
<1>3. IsFiniteSet(Changed(values))
  BY <1>2, FiniteChannels
<1>4. order \in Seq(D) /\ Distinct(order) /\ ToSet(order) = Changed(values)
  <2>1. order \in Seq(Changed(values)) /\ Distinct(order) /\ ToSet(order) = Changed(values)
    BY <1>3, Orders
  <2> QED BY <1>2, <2>1
<1>5. \A c \in D : c \in ChannelNames /\ values[c] \in Bytes /\ heard(c) \in Updates /\ heard(c)[1] = c
  <2> SUFFICES ASSUME NEW c \in D PROVE c \in ChannelNames /\ values[c] \in Bytes /\ heard(c) \in Updates
    OBVIOUS
  <2>1. c \in ChannelNames /\ values[c] \in Bytes
    BY ChannelFacts
  <2>2. (IF c = "temp" THEN values[c] * Range_ ELSE values[c]) \in ValuesOf(c)
    BY <2>1, RoundWhole DEF ValuesOf
  <2> QED BY <2>1, <2>2, UpdateParts
<1> HIDE DEF heard
<1>6. /\ q \in Seq(Updates) /\ DOMAIN q = DOMAIN order
      /\ \A i \in DOMAIN q : order[i] \in D /\ q[i] = heard(order[i])
  BY <1>4, <1>5
<1> HIDE DEF q
<1>7. Keyed(q)
  BY <1>4, <1>5, <1>6 DEF Keyed, Distinct
<1>8. Names(q) = Changed(values)
  <2>1. Names(q) = {q[i][1] : i \in DOMAIN q}
    BY DEF Names, ToSet
  <2>2. Changed(values) = {order[i] : i \in DOMAIN order}
    BY <1>4 DEF ToSet
  <2> QED BY <1>5, <1>6, <2>1, <2>2
<1>9. t = ApplyAll(st, q)
  BY <1>1 DEF q
<1>10. /\ t \in LightStates
       /\ ModeOK(t)
       /\ OnOK(st) \/ Names(q) \cap ToSet(channels) # {} => OnOK(t)
       /\ \A d \in Readable :
             /\ d \in Names(q) => Value(t.v, d) = ValueOf(q, d)
             /\ d \notin Names(q) => Value(t.v, d) = Value(st.v, d)
  BY <1>6, <1>7, <1>9, ApplyAllState
<1>11. ASSUME NEW c \in Readable
       PROVE  EntityValue(t, c) = IF c \in D /\ values[c] # dmx[c] THEN values[c] ELSE EntityValue(st, c)
  <2>1. c \in ChannelNames
    BY ChannelFacts, ReadableChannels
  <2>2. CASE c \in Changed(values)
    <3>1. PICK i \in DOMAIN q : q[i][1] = c
      BY <1>8, <2>2 DEF Names, ToSet
    <3>2. ValueOf(q, c) = heard(c)[2] /\ c \in D
      BY <1>2, <1>5, <1>6, <1>7, <2>2, <3>1, KeyedValue
    <3>3. Value(t.v, c) = IF c = "temp" THEN values[c] * Range_ ELSE values[c]
      BY <1>8, <1>10, <1>11, <2>2, <3>2 DEF heard
    <3>4. values[c] \in Bytes /\ values[c] # dmx[c]
      BY <1>2, <1>5, <2>2, <3>2
    <3> QED BY <1>10, <2>1, <3>2, <3>3, <3>4, EntityValues, RoundWhole
  <2>3. CASE c \notin Changed(values)
    <3>1. Value(t.v, c) = Value(st.v, c)
      BY <1>8, <1>10, <1>11, <2>3
    <3>2. EntityValue(t, c) = EntityValue(st, c)
      BY <1>10, <2>1, <3>1, EntityValues
    <3> QED BY <1>2, <2>3, <3>2
  <2> QED BY <2>2, <2>3
<1>12. Names(q) \cap ToSet(channels) = Changed(values)
  BY <1>2, <1>8
<1> QED BY <1>10, <1>11, <1>12

-----------------------------------------------------------------------------
(* The updates of a command.                                                 *)
LEMMA LeastNumber ==
    ASSUME NEW S \in SUBSET Nat, S # {}
    PROVE  \E x \in S : \A y \in S : x <= y
<1> DEFINE R == OpToRel(<, Nat)
<1>1. PICK x \in S : \A y \in S : ~(<<y, x>> \in R)
  <2>1. IsWellFoundedOn(R, Nat)
    BY NatLessThanWellFounded
  <2> HIDE DEF R
  <2> QED BY <2>1, WFMin
<1>2. \A y \in S : ~(y < x)
  BY <1>1 DEF OpToRel
<1> QED BY <1>2

LEMMA FirstPositiveByte ==
    ASSUME NEW q \in Seq(Bytes)
    PROVE  FirstPositive(q) \in Bytes /\ FirstPositive(q) > 0
<1> DEFINE positive == {i \in DOMAIN q : q[i] > 0}
<1>1. CASE positive = {}
  BY <1>1 DEF FirstPositive, Bytes
<1>2. CASE positive # {}
  <2>1. positive \in SUBSET Nat
    OBVIOUS
  <2>2. \E x \in positive : \A y \in positive : x <= y
    <3> HIDE DEF positive
    <3> QED BY <1>2, <2>1, LeastNumber
  <2> DEFINE i == CHOOSE i \in positive : \A j \in positive : i <= j
  <2>3. i \in positive
    <3> HIDE DEF positive
    <3> QED BY <2>2
  <2>4. FirstPositive(q) = q[i]
    BY <1>2 DEF FirstPositive
  <2> QED BY <2>3, <2>4
<1> QED BY <1>1, <1>2

(* Put, and PutAll: dict updates. *)
Right(q) == q \in Seq(Updates) /\ Keyed(q)

LEMMA PutRight ==
    ASSUME NEW q, Right(q), NEW p \in Updates
    PROVE  Right(Put(q, p[1], p[2])) /\ Names(Put(q, p[1], p[2])) = Names(q) \cup {p[1]}
<1> DEFINE r == Put(q, p[1], p[2])
<1>1. p = <<p[1], p[2]>> /\ <<p[1], p[2]>>[1] = p[1]
  BY UpdateParts
<1>2. q \in Seq(Updates) /\ DOMAIN q = 1..Len(q) /\ Len(q) \in Nat
  BY DEF Right
<1>3. Names(r) = {r[i][1] : i \in DOMAIN r} /\ Names(q) = {q[i][1] : i \in DOMAIN q}
  BY DEF Names, ToSet
<1>4. CASE \E i \in DOMAIN q : q[i][1] = p[1]
  <2>1. r = [i \in DOMAIN q |-> IF q[i][1] = p[1] THEN p ELSE q[i]]
    BY <1>1, <1>4 DEF Put
  <2> HIDE DEF r
  <2>2. r \in Seq(Updates) /\ DOMAIN r = DOMAIN q /\ \A i \in DOMAIN q : r[i][1] = q[i][1]
    BY <1>1, <1>2, <2>1
  <2>3. Keyed(r)
    BY <2>2 DEF Right, Keyed
  <2> QED BY <1>3, <1>4, <2>2, <2>3 DEF Right, r
<1>5. CASE ~\E i \in DOMAIN q : q[i][1] = p[1]
  <2>1. r = Append(q, p)
    BY <1>1, <1>5 DEF Put
  <2> HIDE DEF r
  <2>2. /\ r \in Seq(Updates) /\ DOMAIN r = 1..(Len(q) + 1)
        /\ \A i \in DOMAIN q : r[i] = q[i]
        /\ r[Len(q) + 1] = p
    BY <1>2, <2>1
  <2>3. DOMAIN r = DOMAIN q \cup {Len(q) + 1}
    BY <1>2, <2>2
  <2>4. Keyed(r)
    BY <1>5, <2>2, <2>3 DEF Right, Keyed
  <2>5. Names(r) = Names(q) \cup {p[1]}
    <3>1. \A i \in DOMAIN q : r[i][1] = q[i][1]
      BY <2>2
    <3>2. r[Len(q) + 1][1] = p[1]
      BY <2>2
    <3>3. ASSUME NEW x PROVE x \in Names(r) <=> x \in Names(q) \/ x = p[1]
      BY <1>3, <2>3, <3>1, <3>2
    <3> QED BY <3>3
  <2> QED BY <2>2, <2>4, <2>5 DEF Right, r
<1> QED BY <1>4, <1>5

PutRun(g, n, updates, more) ==
    g = [i \in 0..n |-> IF i = 0 THEN updates ELSE Put(g[i - 1], more[i][1], more[i][2])]

LEMMA PutRunExists ==
    ASSUME NEW updates, NEW more
    PROVE  \A n \in Nat : \E g : PutRun(g, n, updates, more)
<1> DEFINE T == {n \in Nat : \E g : PutRun(g, n, updates, more)}
<1>1. 0 \in T
  <2> DEFINE g == [i \in 0..0 |-> updates]
  <2>1. PutRun(g, 0, updates, more)
    BY DEF PutRun
  <2> QED BY <2>1
<1>2. ASSUME NEW n \in T PROVE n + 1 \in T
  <2>1. PICK g : PutRun(g, n, updates, more)
    OBVIOUS
  <2> DEFINE h == [i \in 0..(n + 1) |-> IF i <= n THEN g[i] ELSE Put(g[n], more[n + 1][1], more[n + 1][2])]
  <2>2. ASSUME NEW i \in 0..(n + 1)
        PROVE  h[i] = IF i = 0 THEN updates ELSE Put(h[i - 1], more[i][1], more[i][2])
    <3>1. CASE i = n + 1
      BY <3>1
    <3>2. CASE i \in 0..n
      BY <2>1, <3>2 DEF PutRun
    <3> QED BY <3>1, <3>2
  <2>3. PutRun(h, n + 1, updates, more)
    BY <2>2 DEF PutRun
  <2> QED BY <2>3
<1> HIDE DEF T
<1>3. T = Nat
  BY <1>1, <1>2, NatSetInduction DEF T
<1> QED BY <1>3 DEF T

LEMMA PutAllRight ==
    ASSUME NEW q, Right(q), NEW more \in Seq(Updates)
    PROVE  Right(PutAll(q, more)) /\ Names(PutAll(q, more)) = Names(q) \cup Names(more)
<1> DEFINE n == Len(more)
           g == CHOOSE g : PutRun(g, n, q, more)
<1>1. n \in Nat /\ DOMAIN more = 1..n
  OBVIOUS
<1>2. \E h : PutRun(h, n, q, more)
  BY <1>1, PutRunExists
<1>3. PutRun(g, n, q, more)
  BY <1>2
<1>4. PutAll(q, more) = g[n]
  BY DEF PutAll, PutRun
<1> HIDE DEF g
<1>5. g[0] = q /\ \A i \in 1..n : g[i] = Put(g[i - 1], more[i][1], more[i][2])
  BY <1>1, <1>3 DEF PutRun
<1> DEFINE T == {k \in Nat : k <= n => Right(g[k]) /\ Names(g[k]) = Names(q) \cup {more[i][1] : i \in 1..k}}
<1>6. 0 \in T
  BY <1>5
<1>7. ASSUME NEW k \in T PROVE k + 1 \in T
  <2> SUFFICES ASSUME k + 1 <= n
               PROVE  Right(g[k + 1]) /\ Names(g[k + 1]) = Names(q) \cup {more[i][1] : i \in 1..(k + 1)}
    OBVIOUS
  <2>1. k + 1 \in 1..n /\ more[k + 1] \in Updates
    BY <1>1
  <2>2. Right(g[k]) /\ Names(g[k]) = Names(q) \cup {more[i][1] : i \in 1..k}
    BY <2>1
  <2>3. g[k + 1] = Put(g[k], more[k + 1][1], more[k + 1][2])
    BY <1>5, <2>1
  <2>4. {more[i][1] : i \in 1..(k + 1)} = {more[i][1] : i \in 1..k} \cup {more[k + 1][1]}
    <3>1. 1..(k + 1) = (1..k) \cup {k + 1}
      OBVIOUS
    <3> QED BY <3>1
  <2>5. Right(g[k + 1]) /\ Names(g[k + 1]) = Names(g[k]) \cup {more[k + 1][1]}
    BY <2>1, <2>2, <2>3, PutRight
  <2> QED BY <2>2, <2>4, <2>5
<1>8. Right(g[n]) /\ Names(g[n]) = Names(q) \cup {more[i][1] : i \in 1..n}
  <2>1. T \in SUBSET Nat
    OBVIOUS
  <2> HIDE DEF T
  <2>2. T = Nat
    BY <1>6, <1>7, <2>1, NatSetInduction
  <2> QED BY <1>1, <2>2 DEF T
<1>9. Names(more) = {more[i][1] : i \in 1..n}
  BY <1>1 DEF Names, ToSet
<1> QED BY <1>4, <1>8, <1>9

(* Updates of the first outputs, whatever bytes they have. *)
LEMMA OutputUpdates ==
    ASSUME channels \in Kinds, NEW n \in Nat, n <= Len(OutputChannels), NEW f \in [1..n -> Bytes],
           NEW q, q = [i \in 1..n |-> <<OutputChannels[i], f[i]>>]
    PROVE  /\ Right(q) /\ \A i \in 1..n : q[i][2] \in Bytes
           /\ Names(q) \subseteq ToSet(OutputChannels)
           /\ n = Len(OutputChannels) => Names(q) = ToSet(OutputChannels)
<1>1. OutputChannels \in Seq(OutputNames) /\ Distinct(OutputChannels)
  BY OutputsOfLight
<1>2. Len(OutputChannels) \in Nat /\ DOMAIN OutputChannels = 1..Len(OutputChannels)
  BY <1>1
<1>3. ASSUME NEW i \in 1..n
      PROVE  i \in DOMAIN OutputChannels /\ q[i] \in Updates /\ q[i] = <<OutputChannels[i], f[i]>>
  <2>1. i \in DOMAIN OutputChannels /\ OutputChannels[i] \in OutputNames
    BY <1>1, <1>2
  <2>2. OutputChannels[i] \in ChannelNames /\ f[i] \in ValuesOf(OutputChannels[i])
    BY <2>1 DEF OutputNames, ChannelNames, ValuesOf
  <2> QED BY <2>1, <2>2, UpdateParts
<1>4. q \in Seq(Updates) /\ DOMAIN q = 1..n
  BY <1>3
<1>5. \A i \in 1..n : q[i][1] = OutputChannels[i] /\ q[i][2] = f[i]
  BY <1>3
<1>6. Keyed(q)
  BY <1>1, <1>3, <1>4, <1>5 DEF Keyed, Distinct
<1>7. Names(q) = {OutputChannels[i] : i \in 1..n}
  <2>1. Names(q) = {q[i][1] : i \in 1..n}
    BY <1>4 DEF Names, ToSet
  <2> QED BY <1>5, <2>1
<1> QED BY <1>2, <1>3, <1>4, <1>5, <1>6, <1>7 DEF Right, ToSet

LEMMA OutputsRight ==
    ASSUME channels \in Kinds, NEW v \in LightValues
    PROVE  /\ Right(Outputs(v)) /\ Names(Outputs(v)) = ToSet(OutputChannels)
           /\ \A i \in DOMAIN Outputs(v) : Outputs(v)[i][2] \in Bytes
<1> DEFINE n == Len(OutputChannels)
           f == [i \in 1..n |-> v[OutputChannels[i]]]
<1>1. OutputChannels \in Seq(OutputNames)
  BY OutputsOfLight
<1>2. n \in Nat /\ DOMAIN OutputChannels = 1..n /\ \A i \in 1..n : OutputChannels[i] \in OutputNames
  BY <1>1
<1>3. \A c \in OutputNames : v[c] \in Bytes
  BY Values DEF OutputNames, Dimmed, Twins
<1>4. f \in [1..n -> Bytes]
  BY <1>2, <1>3
<1>5. Outputs(v) = [i \in 1..n |-> <<OutputChannels[i], f[i]>>]
  BY <1>2 DEF Outputs
<1>6. DOMAIN Outputs(v) = 1..n
  BY <1>5
<1> DEFINE q == Outputs(v)
<1>7. n \in Nat /\ n <= Len(OutputChannels) /\ n = Len(OutputChannels)
  BY <1>2
<1> HIDE DEF f, n, q
<1>8. q = [i \in 1..n |-> <<OutputChannels[i], f[i]>>]
  BY <1>5 DEF q
<1>9. /\ Right(q) /\ \A i \in 1..n : q[i][2] \in Bytes
      /\ n = Len(OutputChannels) => Names(q) = ToSet(OutputChannels)
  BY <1>4, <1>7, <1>8, OutputUpdates
<1> QED BY <1>6, <1>7, <1>9 DEF q

(* Outputs that are scaled are still bytes. *)
LEMMA ScaleRight ==
    ASSUME NEW q, Right(q), \A i \in DOMAIN q : q[i][2] \in Bytes, NEW b \in Bytes
    PROVE  Right(ScaleToBrightness(q, b)) /\ Names(ScaleToBrightness(q, b)) = Names(q)
<1> DEFINE max == Highest({q[i][2] : i \in DOMAIN q})
           scaled(x) == IF max = 0 THEN 0 ELSE Round(x * b, max)
           r == ScaleToBrightness(q, b)
<1>1. {q[i][2] : i \in DOMAIN q} \in SUBSET Bytes
  OBVIOUS
<1>2. max \in Bytes /\ \A y \in {q[i][2] : i \in DOMAIN q} : y <= max
  BY <1>1, HighestByte
<1>3. r = [i \in DOMAIN q |-> <<q[i][1], scaled(q[i][2])>>]
  BY DEF ScaleToBrightness
<1>4. \A i \in DOMAIN q : q[i][2] <= max
  BY <1>2
<1> HIDE DEF max, r
<1>5. \A i \in DOMAIN q : scaled(q[i][2]) \in Bytes
  <2> SUFFICES ASSUME NEW i \in DOMAIN q PROVE scaled(q[i][2]) \in Bytes
    OBVIOUS
  <2> DEFINE x == q[i][2]
  <2>1. x \in Bytes /\ x <= max
    BY <1>4
  <2> HIDE DEF x
  <2>2. CASE max = 0
    BY <2>2 DEF Bytes
  <2>3. CASE max # 0
    <3>1. max \in Nat \ {0} /\ x \in Nat /\ b \in Nat /\ b <= 255
      BY <1>2, <2>1, <2>3 DEF Bytes
    <3>2. x * b \in Nat /\ x * b <= max * b
      BY <2>1, <3>1, SMT
    <3>3. Round(x * b, max) \in 0..b
      BY <3>1, <3>2, RoundBound
    <3> QED BY <2>3, <3>1, <3>3 DEF Bytes, x
  <2> QED BY <2>2, <2>3
<1> HIDE DEF scaled
<1>6. q \in Seq(Updates)
  BY DEF Right
<1>7. \A i \in DOMAIN q : r[i] \in Updates /\ r[i][1] = q[i][1]
  <2> SUFFICES ASSUME NEW i \in DOMAIN q PROVE r[i] \in Updates /\ r[i][1] = q[i][1]
    OBVIOUS
  <2>1. q[i] \in Updates
    BY <1>6
  <2>2. q[i][1] \in ChannelNames /\ scaled(q[i][2]) \in ValuesOf(q[i][1])
    <3>1. \A x \in Bytes : x \in Temps
      BY Bounds, SMT DEF Bytes, Temps
    <3> QED BY <1>5, <2>1, <3>1, UpdateParts DEF ValuesOf
  <2>3. r[i] = <<q[i][1], scaled(q[i][2])>>
    BY <1>3
  <2> QED BY <2>2, <2>3, UpdateParts
<1>8. r \in Seq(Updates) /\ DOMAIN r = DOMAIN q
  <2>1. DOMAIN q = 1..Len(q) /\ Len(q) \in Nat
    BY <1>6
  <2>2. DOMAIN r = DOMAIN q
    BY <1>3
  <2> QED BY <1>3, <1>7, <2>1, <2>2
<1>9. Keyed(r)
  BY <1>7, <1>8 DEF Keyed, Right
<1>10. Names(r) = Names(q)
  <2>1. Names(r) = {r[i][1] : i \in DOMAIN q} /\ Names(q) = {q[i][1] : i \in DOMAIN q}
    BY <1>8 DEF Names, ToSet
  <2> QED BY <1>7, <2>1
<1> QED BY <1>8, <1>9, <1>10 DEF Right, r

LEMMA PairRight ==
    ASSUME NEW p \in Updates
    PROVE  Right(<<p>>) /\ Names(<<p>>) = {p[1]}
<1>1. <<p>> \in Seq(Updates) /\ DOMAIN <<p>> = {1} /\ <<p>>[1] = p
  OBVIOUS
<1> QED BY <1>1 DEF Right, Keyed, Names, ToSet

LEMMA EmptyRight == Right(<<>>) /\ Names(<<>>) = {}
<1>1. <<>> \in Seq(Updates) /\ DOMAIN <<>> = {}
  OBVIOUS
<1> QED BY <1>1 DEF Right, Keyed, Names, ToSet

LEMMA CwWwRight ==
    ASSUME NEW k \in Nat, NEW b \in Bytes
    PROVE  Right(CwWw(k, b)) /\ Names(CwWw(k, b)) = {"cold", "warm"}
<1> DEFINE x == TempToCwWw(k, b)[1]
           y == TempToCwWw(k, b)[2]
           q == <<<<"cold", x>>, <<"warm", y>>>>
<1>1. b \in Nat /\ b <= 255 /\ k \in Int
  BY DEF Bytes
<1>2. x \in 0..b /\ y \in 0..b
  BY <1>1, BrightnessSurvives
<1>3. x \in Bytes /\ y \in Bytes
  BY <1>1, <1>2 DEF Bytes
<1>4. CwWw(k, b) = q
  BY DEF CwWw
<1> HIDE DEF x, y
<1>5. <<"cold", x>> \in Updates /\ <<"warm", y>> \in Updates
  BY <1>3, UpdateParts DEF ChannelNames, ValuesOf
<1>6. q \in Seq(Updates) /\ DOMAIN q = {1, 2} /\ q[1][1] = "cold" /\ q[2][1] = "warm"
  BY <1>5
<1>7. Keyed(q) /\ Names(q) = {q[1][1], q[2][1]}
  <2> HIDE DEF q
  <2> QED BY <1>6 DEF Keyed, Names, ToSet
<1> QED BY <1>4, <1>6, <1>7 DEF Right

LEMMA BrightnessRight ==
    ASSUME channels \in Kinds, NEW st \in LightStates, NEW b \in Bytes
    PROVE  Right(BrightnessUpdates(st, b)) /\ Names(BrightnessUpdates(st, b)) \subseteq ToSet(channels)
<1>1. CASE HasDimmer
  <2>1. <<"dimmer", b>> \in Updates
    BY UpdateParts DEF ChannelNames, ValuesOf
  <2>2. "dimmer" \in ToSet(channels)
    BY <1>1 DEF HasDimmer, Has
  <2> DEFINE p == <<"dimmer", b>>
  <2>3. BrightnessUpdates(st, b) = <<p>> /\ p[1] = "dimmer"
    BY <1>1 DEF BrightnessUpdates
  <2> HIDE DEF p
  <2>4. Right(<<p>>) /\ Names(<<p>>) = {p[1]}
    BY <2>1, PairRight DEF p
  <2> QED BY <2>2, <2>3, <2>4
<1>2. CASE ~HasDimmer /\ HasCwWw /\ ~HasRgb
  <2>1. st.v.kelvin \in Nat
    BY StateParts, Values DEF Twins
  <2>2. {"cold", "warm"} \subseteq ToSet(channels)
    BY <1>2 DEF HasCwWw, Has
  <2> QED BY <1>2, <2>1, <2>2, CwWwRight DEF BrightnessUpdates
<1>3. CASE ~HasDimmer /\ ~(HasCwWw /\ ~HasRgb)
  <2> DEFINE v == IF AnyOf(st, ToSet(OutputChannels)) THEN st.v ELSE st.last
  <2>1. v \in LightValues
    BY StateParts
  <2>2. BrightnessUpdates(st, b) = ScaleToBrightness(Outputs(v), b)
    BY <1>3 DEF BrightnessUpdates
  <2> HIDE DEF v
  <2>3. ToSet(OutputChannels) \subseteq ToSet(channels)
    BY OutputsOfLight DEF Has
  <2> QED BY <2>1, <2>2, <2>3, OutputsRight, ScaleRight
<1> QED BY <1>1, <1>2, <1>3

LEMMA CommandParts ==
    ASSUME channels \in Kinds, NEW command \in Commands
    PROVE  /\ command.brightness \in Bytes /\ command.kelvin \in Nat
           /\ command.color \in Seq(Bytes) /\ Len(command.color) <= Len(OutputChannels)
           /\ command.color = <<>> \/ command.color \in Colors
           /\ command.kelvin # Zero => FirstMode = "color_temp"
<1>1. Brightnesses \cup {Zero} \subseteq Bytes /\ Kelvins \subseteq Nat /\ Colors \subseteq Seq(Bytes) /\ Zero = 0
  BY InputsAssumption DEF Bytes, Zero
<1>2. <<>> \in Seq(Bytes) /\ Len(<<>>) = 0
  OBVIOUS
<1>3. Len(OutputChannels) \in Nat
  BY OutputsOfLight
<1>4. PICK b \in Brightnesses \cup {Zero}, c \in {<<>>} \cup {c \in Colors : Len(c) = Len(OutputChannels)},
           k \in {Zero} \cup {k \in Kelvins : FirstMode = "color_temp"} :
              command = [brightness |-> b, color |-> c, kelvin |-> k]
  BY DEF Commands
<1>5. c \in Seq(Bytes) /\ Len(c) <= Len(OutputChannels)
  <2>1. CASE c = <<>>
    BY <1>2, <1>3, <2>1
  <2>2. CASE c # <<>>
    BY <1>1, <1>3, <1>4, <2>2
  <2> QED BY <2>1, <2>2
<1>6. command.brightness = b /\ command.color = c /\ command.kelvin = k
  BY <1>4
<1>7. b \in Bytes /\ k \in Nat /\ (k # Zero => FirstMode = "color_temp")
  BY <1>1
<1> QED BY <1>4, <1>5, <1>6, <1>7

LEMMA ColorRight ==
    ASSUME channels \in Kinds, NEW command \in Commands
    PROVE  /\ Right(ColorUpdates(command)) /\ Names(ColorUpdates(command)) \subseteq ToSet(OutputChannels)
           /\ \A i \in DOMAIN ColorUpdates(command) : ColorUpdates(command)[i][2] \in Bytes
<1> DEFINE n == Len(command.color)
           f == command.color
           q == ColorUpdates(command)
<1>1. f \in Seq(Bytes) /\ n <= Len(OutputChannels)
  BY CommandParts
<1>2. n \in Nat /\ DOMAIN f = 1..n /\ f \in [1..n -> Bytes]
  BY <1>1
<1>3. q = [i \in 1..n |-> <<OutputChannels[i], f[i]>>]
  BY <1>2 DEF ColorUpdates
<1>4. DOMAIN q = 1..n
  BY <1>3
<1> HIDE DEF f, n, q
<1>5. /\ Right(q) /\ \A i \in 1..n : q[i][2] \in Bytes
      /\ Names(q) \subseteq ToSet(OutputChannels)
  BY <1>1, <1>2, <1>3, OutputUpdates
<1> QED BY <1>4, <1>5 DEF q

(* What CollectUpdates puts together. *)
BrightPart(st, command) == IF command.brightness = Zero THEN <<>> ELSE BrightnessUpdates(st, command.brightness)
ColorPart(command) ==
    IF command.brightness = Zero \/ HasDimmer THEN ColorUpdates(command)
    ELSE ScaleToBrightness(ColorUpdates(command), command.brightness)
White(st, command) ==
    IF HasDimmer THEN 255 ELSE FirstPositive(<<command.brightness, st.v.brightness, st.last.brightness>>)
WhitesPart(st, command) ==
    IF HasCwWw THEN CwWw(command.kelvin, White(st, command))
    ELSE IF Has("warm") THEN <<<<"warm", White(st, command)>>>> ELSE <<>>
OtherPart(st, command) ==
    IF command.kelvin = Zero THEN <<>>
    ELSE (IF Has("temp") THEN <<<<"temp", KelvinToDmx(command.kelvin)>>>> ELSE <<>>)
         \o WhitesPart(st, command)
         \o (IF SwitchesColorMode THEN [i \in 1..3 |-> <<Colors3[i], 0>>] ELSE <<>>)

LEMMA CollectParts ==
    ASSUME channels \in Kinds, NEW st \in LightStates, NEW command \in Commands
    PROVE  /\ CollectUpdates(st, command)
                  = PutAll(PutAll(BrightPart(st, command), ColorPart(command)), OtherPart(st, command))
           /\ Right(BrightPart(st, command)) /\ Names(BrightPart(st, command)) \subseteq ToSet(channels)
           /\ Right(ColorPart(command)) /\ Names(ColorPart(command)) = Names(ColorUpdates(command))
           /\ Right(OtherPart(st, command))
           /\ Names(OtherPart(st, command)) \subseteq ToSet(channels) \ {"dimmer"}
           /\ command.kelvin # Zero =>
                 /\ Has("temp") => "temp" \in Names(OtherPart(st, command))
                 /\ ToSet(WhitesPart(st, command)) \subseteq ToSet(OtherPart(st, command))
           /\ White(st, command) \in Bytes
<1> DEFINE bright == BrightPart(st, command)
           color == ColorPart(command)
           white == White(st, command)
           temp == IF Has("temp") THEN <<<<"temp", KelvinToDmx(command.kelvin)>>>> ELSE <<>>
           whites == IF HasCwWw THEN CwWw(command.kelvin, white)
                     ELSE IF Has("warm") THEN <<<<"warm", white>>>> ELSE <<>>
           dark == IF SwitchesColorMode THEN [i \in 1..3 |-> <<Colors3[i], 0>>] ELSE <<>>
           other == IF command.kelvin = Zero THEN <<>> ELSE temp \o whites \o dark
<1>1. /\ command.brightness \in Bytes /\ command.kelvin \in Nat
  BY CommandParts
<1>2. Right(bright) /\ Names(bright) \subseteq ToSet(channels)
  BY <1>1, BrightnessRight, EmptyRight DEF BrightPart
<1>3. Right(color) /\ Names(color) = Names(ColorUpdates(command))
  <2>1. CASE command.brightness = Zero \/ HasDimmer
    BY <2>1, ColorRight DEF ColorPart
  <2>2. CASE ~(command.brightness = Zero \/ HasDimmer)
    <3>1. /\ Right(ScaleToBrightness(ColorUpdates(command), command.brightness))
          /\ Names(ScaleToBrightness(ColorUpdates(command), command.brightness)) = Names(ColorUpdates(command))
      BY <1>1, ColorRight, ScaleRight
    <3> QED BY <2>2, <3>1 DEF ColorPart
  <2> QED BY <2>1, <2>2
<1>4. white \in Bytes
  <2>1. st.v.brightness \in Bytes /\ st.last.brightness \in Bytes
    BY StateParts, Values DEF Dimmed, Twins
  <2>2. <<command.brightness, st.v.brightness, st.last.brightness>> \in Seq(Bytes)
    BY <1>1, <2>1
  <2>3. FirstPositive(<<command.brightness, st.v.brightness, st.last.brightness>>) \in Bytes
    BY <2>2, FirstPositiveByte
  <2> QED BY <2>3 DEF Bytes, White
<1>5. /\ Right(temp) /\ (Has("temp") => "temp" \in Names(temp))
      /\ Names(temp) \subseteq ToSet(channels) \cap {"temp"}
  <2>1. KelvinToDmx(command.kelvin) \in Temps
    BY <1>1, DmxInByte DEF Temps
  <2>2. <<"temp", KelvinToDmx(command.kelvin)>> \in Updates
    BY <2>1, UpdateParts DEF ChannelNames, ValuesOf
  <2> DEFINE p == <<"temp", KelvinToDmx(command.kelvin)>>
  <2>3. p[1] = "temp" /\ temp = IF Has("temp") THEN <<p>> ELSE <<>>
    OBVIOUS
  <2> HIDE DEF p, temp
  <2>4. Right(<<p>>) /\ Names(<<p>>) = {p[1]}
    BY <2>2, PairRight DEF p
  <2> QED BY <2>3, <2>4, EmptyRight DEF Right, Has
<1>6. Right(whites) /\ Names(whites) \subseteq ToSet(channels) \cap {"cold", "warm"}
  <2>1. <<"warm", white>> \in Updates
    <3> HIDE DEF white
    <3> QED BY <1>4, UpdateParts DEF ChannelNames, ValuesOf
  <2>2. Right(CwWw(command.kelvin, white)) /\ Names(CwWw(command.kelvin, white)) = {"cold", "warm"}
    <3> HIDE DEF white
    <3> QED BY <1>1, <1>4, CwWwRight
  <2> HIDE DEF white
  <2> DEFINE p == <<"warm", white>>
  <2>3. p[1] = "warm" /\ whites = IF HasCwWw THEN CwWw(command.kelvin, white)
                                  ELSE IF Has("warm") THEN <<p>> ELSE <<>>
    OBVIOUS
  <2> HIDE DEF p, whites
  <2>4. Right(<<p>>) /\ Names(<<p>>) = {p[1]}
    BY <2>1, PairRight DEF p
  <2> QED BY <2>2, <2>3, <2>4, EmptyRight DEF Right, Has, HasCwWw
<1>7. Right(dark) /\ Names(dark) \subseteq ToSet(channels) \cap Rgb
  <2>1. \A i \in 1..3 : <<Colors3[i], 0>> \in Updates
    <3>1. \A i \in 1..3 : Colors3[i] \in ChannelNames /\ 0 \in ValuesOf(Colors3[i])
      BY DEF Colors3, ChannelNames, ValuesOf, Bytes
    <3> QED BY <3>1, UpdateParts
  <2> DEFINE q == [i \in 1..3 |-> <<Colors3[i], 0>>]
  <2>2. Right(q)
    <3>1. q \in Seq(Updates)
      BY <2>1
    <3>2. DOMAIN q = 1..3 /\ \A i \in 1..3 : q[i][1] = Colors3[i]
      OBVIOUS
    <3>3. \A i, j \in 1..3 : Colors3[i] = Colors3[j] => i = j
      BY DEF Colors3
    <3> HIDE DEF q
    <3> QED BY <3>1, <3>2, <3>3 DEF Right, Keyed
  <2>3. Names(q) = {Colors3[i] : i \in 1..3}
    <3>1. DOMAIN q = 1..3 /\ \A i \in 1..3 : q[i][1] = Colors3[i]
      OBVIOUS
    <3> HIDE DEF q
    <3>2. Names(q) = {q[i][1] : i \in 1..3}
      BY <3>1 DEF Names, ToSet
    <3> QED BY <3>1, <3>2
  <2>4. SwitchesColorMode => {Colors3[i] : i \in 1..3} \subseteq ToSet(channels) \cap Rgb
    BY DEF Colors3, SwitchesColorMode, HasRgb, Has, Rgb
  <2>5. dark = IF SwitchesColorMode THEN q ELSE <<>>
    OBVIOUS
  <2> HIDE DEF q, dark
  <2> QED BY <2>2, <2>3, <2>4, <2>5, EmptyRight
<1>8. /\ CollectUpdates(st, command) = PutAll(PutAll(bright, color), other)
      /\ whites = WhitesPart(st, command) /\ other = OtherPart(st, command)
  BY DEF CollectUpdates, BrightPart, ColorPart, White, WhitesPart, OtherPart
<1> HIDE DEF temp, whites, dark
<1>9. /\ Right(other) /\ Names(other) \subseteq ToSet(channels) \ {"dimmer"}
      /\ command.kelvin # Zero => Names(temp) \subseteq Names(other) /\ ToSet(whites) \subseteq ToSet(other)
  <2> DEFINE tw == temp \o whites
  <2>1. /\ tw \in Seq(Updates) /\ Keyed(tw)
        /\ Names(tw) = Names(temp) \cup Names(whites) /\ ToSet(tw) = ToSet(temp) \cup ToSet(whites)
    <3>1. Names(temp) \cap Names(whites) = {}
      BY <1>5, <1>6
    <3> QED BY <1>5, <1>6, <3>1, Concatenation DEF Right
  <2> HIDE DEF tw
  <2>2. /\ tw \o dark \in Seq(Updates) /\ Keyed(tw \o dark)
        /\ Names(tw \o dark) = Names(tw) \cup Names(dark) /\ ToSet(tw \o dark) = ToSet(tw) \cup ToSet(dark)
    <3>1. Names(tw) \cap Names(dark) = {}
      BY <1>5, <1>6, <1>7, <2>1 DEF Rgb
    <3> QED BY <1>7, <2>1, <3>1, Concatenation DEF Right
  <2>3. other = IF command.kelvin = Zero THEN <<>> ELSE tw \o dark
    BY DEF tw
  <2>4. Names(tw \o dark) \subseteq ToSet(channels) \ {"dimmer"}
    BY <1>5, <1>6, <1>7, <2>1, <2>2 DEF Rgb
  <2> QED BY <2>1, <2>2, <2>3, <2>4, EmptyRight DEF Right
<1> HIDE DEF bright, color, other, white
<1>10. \A x : Has(x) <=> x \in ToSet(channels)
  BY DEF Has
<1> QED BY <1>2, <1>3, <1>4, <1>5, <1>8, <1>9, <1>10 DEF bright, color, white

LEMMA CollectRight ==
    ASSUME channels \in Kinds, NEW st \in LightStates, NEW command \in Commands
    PROVE  /\ Right(CollectUpdates(st, command))
           /\ Names(CollectUpdates(st, command)) \subseteq ToSet(channels)
           /\ command.kelvin # Zero /\ Has("temp") => "temp" \in Names(CollectUpdates(st, command))
<1> DEFINE bright == BrightPart(st, command)
           color == ColorPart(command)
           other == OtherPart(st, command)
<1>1. /\ CollectUpdates(st, command) = PutAll(PutAll(bright, color), other)
      /\ Right(bright) /\ Names(bright) \subseteq ToSet(channels)
      /\ Right(color) /\ Names(color) = Names(ColorUpdates(command))
      /\ Right(other) /\ Names(other) \subseteq ToSet(channels)
      /\ command.kelvin # Zero /\ Has("temp") => "temp" \in Names(other)
  BY CollectParts
<1>2. Names(color) \subseteq ToSet(channels)
  BY <1>1, ColorRight, OutputsOfLight DEF Has
<1> HIDE DEF bright, color, other
<1>3. color \in Seq(Updates) /\ other \in Seq(Updates)
  BY <1>1 DEF Right
<1>4. Right(PutAll(bright, color)) /\ Names(PutAll(bright, color)) = Names(bright) \cup Names(color)
  BY <1>1, <1>3, PutAllRight
<1>5. /\ Right(PutAll(PutAll(bright, color), other))
      /\ Names(PutAll(PutAll(bright, color), other)) = Names(PutAll(bright, color)) \cup Names(other)
  BY <1>3, <1>4, PutAllRight
<1> QED BY <1>1, <1>2, <1>4, <1>5

LEMMA RestoreRight ==
    ASSUME channels \in Kinds, NEW st \in LightStates
    PROVE  /\ Right(RestorePreviousState(st)) /\ Names(RestorePreviousState(st)) = ToSet(channels)
           /\ \A p \in ToSet(RestorePreviousState(st)) : p[2] = Value(st.last, p[1])
<1> DEFINE last(c) == Only(c, <<c, Value(st.last, c)>>)
<1>1. ASSUME NEW c \in ChannelNames
      PROVE  /\ Right(last(c)) /\ Names(last(c)) = {d \in {c} : Has(d)}
             /\ \A p \in ToSet(last(c)) : p[2] = Value(st.last, p[1])
  <2>1. st.last["temp"] \in Temps /\ \A a \in Dimmed : st.last[a] \in Bytes
    BY StateParts, Values
  <2>2. Value(st.last, c) \in ValuesOf(c)
    <3>1. c = "dimmer" \/ c = "temp" \/ c \in Dimmed
      BY DEF ChannelNames, Dimmed, Twins
    <3>2. "brightness" \in Dimmed /\ "temp" \notin Dimmed
      BY DEF Dimmed, Twins
    <3> QED BY <2>1, <3>1, <3>2 DEF Value, ValuesOf
  <2>3. <<c, Value(st.last, c)>> \in Updates
    BY <2>2, UpdateParts
  <2> DEFINE e == <<c, Value(st.last, c)>>
  <2>4. e[1] = c /\ e[2] = Value(st.last, c) /\ last(c) = Only(c, e)
    OBVIOUS
  <2> HIDE DEF e, last
  <2>5. /\ Only(c, e) \in Seq(Updates) /\ Keyed(Only(c, e))
        /\ ToSet(Only(c, e)) = (IF Has(c) THEN {e} ELSE {})
        /\ Names(Only(c, e)) = (IF Has(c) THEN {e[1]} ELSE {})
    BY <2>3, OnlyOne DEF e
  <2> QED BY <2>4, <2>5 DEF Right
<1> HIDE DEF last
<1> DEFINE Among(q, S) == /\ Right(q) /\ Names(q) = {d \in S : Has(d)}
                          /\ \A p \in ToSet(q) : p[2] = Value(st.last, p[1])
<1>2. ASSUME NEW q, NEW S, Among(q, S), NEW c \in ChannelNames, c \notin S
      PROVE  Among(q \o last(c), S \cup {c})
  <2> DEFINE l == last(c)
  <2>1. /\ Right(l) /\ Names(l) = {d \in {c} : Has(d)}
        /\ \A p \in ToSet(l) : p[2] = Value(st.last, p[1])
    BY <1>1
  <2> HIDE DEF l
  <2>2. Names(q) \cap Names(l) = {}
    BY <1>2, <2>1
  <2>3. /\ q \o l \in Seq(Updates) /\ Names(q \o l) = Names(q) \cup Names(l) /\ Keyed(q \o l)
        /\ ToSet(q \o l) = ToSet(q) \cup ToSet(l)
    BY <1>2, <2>1, <2>2, Concatenation DEF Right
  <2> QED BY <1>2, <2>1, <2>3 DEF Right, l
<1> HIDE DEF Among
<1> DEFINE q1 == last("dimmer")
           q2 == q1 \o last("red")
           q3 == q2 \o last("green")
           q4 == q3 \o last("blue")
           q5 == q4 \o last("cold")
           q6 == q5 \o last("warm")
           q7 == q6 \o last("temp")
<1>3. /\ "dimmer" \in ChannelNames /\ "red" \in ChannelNames /\ "green" \in ChannelNames /\ "blue" \in ChannelNames
      /\ "cold" \in ChannelNames /\ "warm" \in ChannelNames /\ "temp" \in ChannelNames
  BY DEF ChannelNames
<1>4. RestorePreviousState(st) = q7
  BY DEF RestorePreviousState, last
<1>5. Among(q1, {"dimmer"})
  BY <1>1, <1>3 DEF Among
<1> HIDE DEF q1
<1>6. Among(q2, {"dimmer"} \cup {"red"})
  BY <1>2, <1>3, <1>5
<1> HIDE DEF q2
<1>7. Among(q3, {"dimmer", "red"} \cup {"green"})
  <2>1. Among(q2, {"dimmer", "red"})
    BY <1>6 DEF Among
  <2> QED BY <1>2, <1>3, <2>1
<1> HIDE DEF q3
<1>8. Among(q4, {"dimmer", "red", "green"} \cup {"blue"})
  <2>1. Among(q3, {"dimmer", "red", "green"})
    BY <1>7 DEF Among
  <2> QED BY <1>2, <1>3, <2>1
<1> HIDE DEF q4
<1>9. Among(q5, {"dimmer", "red", "green", "blue"} \cup {"cold"})
  <2>1. Among(q4, {"dimmer", "red", "green", "blue"})
    BY <1>8 DEF Among
  <2> QED BY <1>2, <1>3, <2>1
<1> HIDE DEF q5
<1>10. Among(q6, {"dimmer", "red", "green", "blue", "cold"} \cup {"warm"})
  <2>1. Among(q5, {"dimmer", "red", "green", "blue", "cold"})
    BY <1>9 DEF Among
  <2> QED BY <1>2, <1>3, <2>1
<1> HIDE DEF q6
<1>11. Among(q7, {"dimmer", "red", "green", "blue", "cold", "warm"} \cup {"temp"})
  <2>1. Among(q6, {"dimmer", "red", "green", "blue", "cold", "warm"})
    BY <1>10 DEF Among
  <2> QED BY <1>2, <1>3, <2>1
<1>12. ToSet(channels) = {d \in {"dimmer", "red", "green", "blue", "cold", "warm"} \cup {"temp"} : Has(d)}
  BY ChannelFacts DEF ChannelNames
<1> QED BY <1>4, <1>11, <1>12 DEF Among

LEMMA BecomeVisibleRight ==
    ASSUME channels \in Kinds, NEW st \in LightStates, NEW q, Right(q)
    PROVE  Right(BecomeVisible(st, q)) /\ Names(q) \subseteq Names(BecomeVisible(st, q))
<1> DEFINE x == FirstPositive(<<st.last.brightness>>)
           dimmed == IF "dimmer" \notin Names(q) /\ Dark("dimmer") THEN Put(q, "dimmer", x) ELSE q
<1>1. x \in Bytes
  <2>1. st.last.brightness \in Bytes
    BY StateParts, Values DEF Dimmed, Twins
  <2>2. <<st.last.brightness>> \in Seq(Bytes)
    BY <2>1
  <2> QED BY <2>2, FirstPositiveByte
<1> HIDE DEF x
<1>2. Right(dimmed) /\ Names(q) \subseteq Names(dimmed)
  <2>1. <<"dimmer", x>> \in Updates
    BY <1>1, UpdateParts DEF ChannelNames, ValuesOf
  <2> DEFINE p == <<"dimmer", x>>
  <2>2. p[1] = "dimmer" /\ p[2] = x
    OBVIOUS
  <2> HIDE DEF p
  <2>3. Right(Put(q, p[1], p[2])) /\ Names(Put(q, p[1], p[2])) = Names(q) \cup {p[1]}
    BY <2>1, PutRight DEF p
  <2> QED BY <2>2, <2>3
<1>3. BecomeVisible(st, q) = IF ~HasDimmer THEN q
                             ELSE IF \A c \in ToSet(OutputChannels) : c \notin Names(dimmed) /\ Dark(c)
                                  THEN PutAll(dimmed, Outputs(st.last)) ELSE dimmed
  BY DEF BecomeVisible, x
<1> HIDE DEF dimmed
<1>4. Outputs(st.last) \in Seq(Updates)
  BY StateParts, OutputsRight DEF Right
<1>5. Right(PutAll(dimmed, Outputs(st.last))) /\ Names(dimmed) \subseteq Names(PutAll(dimmed, Outputs(st.last)))
  BY <1>2, <1>4, PutAllRight
<1> QED BY <1>2, <1>3, <1>5

LEMMA UpdatesOfRight ==
    ASSUME channels \in Kinds, s \in LightStates, NEW command \in Commands
    PROVE  /\ Right(UpdatesOf(command))
           /\ ToSet(channels) # {} => Names(UpdatesOf(command)) \cap ToSet(channels) # {}
           /\ command.kelvin # Zero /\ Has("temp") => "temp" \in Names(UpdatesOf(command))
<1> DEFINE q == CollectUpdates(s, command)
<1>1. /\ Right(q) /\ (command.kelvin # Zero /\ Has("temp") => "temp" \in Names(q))
      /\ Names(q) \subseteq ToSet(channels)
  BY CollectRight
<1>2. UpdatesOf(command) = IF q = <<>> THEN RestorePreviousState(s) ELSE BecomeVisible(s, q)
  BY DEF UpdatesOf
<1> HIDE DEF q
<1>3. q = <<>> <=> Names(q) = {}
  <2>1. q \in Seq(Updates)
    BY <1>1 DEF Right
  <2>2. q # <<>> => 1 \in DOMAIN q
    BY <2>1
  <2>3. q # <<>> => q[1][1] \in Names(q)
    BY <2>2 DEF Names, ToSet
  <2> QED BY <2>3, EmptyRight
<1>4. Right(BecomeVisible(s, q)) /\ Names(q) \subseteq Names(BecomeVisible(s, q))
  BY <1>1, BecomeVisibleRight
<1> QED BY <1>1, <1>2, <1>3, <1>4, RestoreRight

-----------------------------------------------------------------------------
(* The inductive invariant.  A value that a channel does not show yet is the *)
(* one the running animation will give it; those a cancelled animation has   *)
(* left are excepted until they are written again.                           *)
Animations ==
    {a \in [from : UNION {[D -> Bytes] : D \in SUBSET ToSet(channels)},
            to : UNION {[D -> Bytes] : D \in SUBSET ToSet(channels)}] : DOMAIN a.from = DOMAIN a.to}

AllShown(st, values, running, halfway) ==
    \A c \in Readable \ halfway :
        \/ values[c] = Unset
        \/ EntityValue(st, c) = values[c]
        \/ \E a \in running : c \in DOMAIN a.to /\ EntityValue(st, c) = a.to[c]

(* A light of which a channel was written is on if its state is lit.         *)
OnShown(st, values) == (\E c \in ToSet(channels) : values[c] # Unset) => OnOK(st)

LightInv ==
    /\ channels \in Kinds /\ steps \in 0..MaxSteps
    /\ s \in LightStates /\ ModeOK(s)
    /\ dmx \in [ToSet(channels) -> Bytes \cup {Unset}]
    /\ left \subseteq ToSet(channels)
    /\ animation \subseteq Animations /\ \A a, b \in animation : a = b
    /\ AllShown(s, dmx, animation, left)
    /\ OnShown(s, dmx)

LEMMA AnimationParts ==
    ASSUME NEW a \in Animations
    PROVE  /\ DOMAIN a.to \subseteq ToSet(channels) /\ DOMAIN a.from = DOMAIN a.to
           /\ a.from \in [DOMAIN a.to -> Bytes] /\ a.to \in [DOMAIN a.to -> Bytes]
<1>1. PICK D \in SUBSET ToSet(channels) : a.to \in [D -> Bytes]
  BY DEF Animations
<1>2. PICK E \in SUBSET ToSet(channels) : a.from \in [E -> Bytes]
  BY DEF Animations
<1>3. DOMAIN a.from = DOMAIN a.to
  BY DEF Animations
<1>4. DOMAIN a.to = D /\ DOMAIN a.from = E
  BY <1>1, <1>2
<1> QED BY <1>1, <1>2, <1>3, <1>4

LEMMA WrittenValues ==
    ASSUME dmx \in [ToSet(channels) -> Bytes \cup {Unset}],
           NEW D \in SUBSET ToSet(channels), NEW values \in [D -> Bytes]
    PROVE  /\ Written(values) \in [ToSet(channels) -> Bytes \cup {Unset}]
           /\ \A c \in D : Written(values)[c] = values[c]
           /\ \A c \in ToSet(channels) \ D : Written(values)[c] = dmx[c]
BY DEF Written

(* Only the flag, or only what is remembered. *)
LEMMA FlagState ==
    ASSUME NEW st \in LightStates
    PROVE  /\ Preserving(st) \in LightStates /\ Preserving(st).v = st.v /\ Preserving(st).mode = st.mode
           /\ Preserving(st).on = st.on
           /\ Cleared(st) \in LightStates /\ Cleared(st).v = st.v /\ Cleared(st).mode = st.mode
           /\ Cleared(st).on = st.on
BY StateParts DEF LightStates, Preserving, Cleared

LEMMA SavedState ==
    ASSUME NEW st \in LightStates, NEW preserved \in SUBSET LightValues
    PROVE  /\ SaveLastState(st, preserved) \in LightStates
           /\ SaveLastState(st, preserved).v = st.v
           /\ SaveLastState(st, preserved).mode = st.mode
           /\ SaveLastState(st, preserved).on = st.on
<1>1. preserved # {} => (CHOOSE v \in preserved : TRUE) \in LightValues
  OBVIOUS
<1> DEFINE w == CHOOSE v \in preserved : TRUE
<1>2. SaveLastState(st, preserved) = IF preserved = {} THEN st ELSE [st EXCEPT !.last = w]
  BY DEF SaveLastState
<1> HIDE DEF w
<1>3. preserved # {} => w \in LightValues
  BY <1>1 DEF w
<1> QED BY <1>2, <1>3, StateParts DEF LightStates

LEMMA OnKept ==
    ASSUME NEW st, NEW t, t.on = st.on, t.v = st.v
    PROVE  OnOK(t) <=> OnOK(st)
BY DEF OnOK, LitState

LEMMA SameEntityValue ==
    ASSUME NEW st, NEW t, st.v = t.v, NEW c
    PROVE  EntityValue(st, c) = EntityValue(t, c)
BY DEF EntityValue

(* What is written of updates, and where an animation of them starts.        *)
LEMMA RenderedValues ==
    ASSUME channels \in Kinds, NEW q, Right(q)
    PROVE  /\ Rendered(q) \in [Names(q) \cap ToSet(channels) -> Bytes]
           /\ \A c \in Names(q) \cap ToSet(channels) :
                 Rendered(q)[c] = IF c = "temp" THEN Round(ValueOf(q, c), Range_) ELSE ValueOf(q, c)
<1>1. ASSUME NEW c \in Names(q) \cap ToSet(channels)
      PROVE  (IF c = "temp" THEN Round(ValueOf(q, c), Range_) ELSE ValueOf(q, c)) \in Bytes
  <2>1. PICK i \in DOMAIN q : q[i][1] = c
    BY DEF Names, ToSet
  <2>2. ValueOf(q, c) = q[i][2] /\ q[i] \in Updates
    BY <2>1, KeyedValue DEF Right
  <2>3. ValueOf(q, c) \in ValuesOf(c)
    BY <2>1, <2>2, UpdateParts
  <2> QED BY <2>3, TempByte DEF ValuesOf
<1> QED BY <1>1 DEF Rendered

LEMMA ApplyUpdatesInv ==
    ASSUME LightInv, NEW st \in LightStates, ModeOK(st), NEW q, Right(q),
           NEW transition \in BOOLEAN, NEW preserved \in SUBSET LightValues,
           \A c \in ToSet(channels) \ Names(q) : Value(st.v, c) = Value(s.v, c),
           HasDimmer \/ OutputChannels # <<>> => Names(q) \cap ToSet(channels) # {},
           ApplyUpdates(st, q, transition, preserved)
    PROVE  /\ s' \in LightStates /\ ModeOK(s') /\ OnOK(s')
           /\ dmx' \in [ToSet(channels) -> Bytes \cup {Unset}]
           /\ left' \subseteq ToSet(channels)
           /\ animation' \subseteq Animations /\ \A a, b \in animation' : a = b
           /\ AllShown(s', dmx', animation', left')
<1> DEFINE target == Rendered(q)
           D == Names(q) \cap ToSet(channels)
           start == [c \in DOMAIN target |-> IF dmx[c] = Unset THEN EntityValue(st, c) ELSE dmx[c]]
           animated == transition /\ DOMAIN target # {}
           now == IF animated THEN start ELSE target
           clear == Cleared(st)
<1>1. channels \in Kinds /\ dmx \in [ToSet(channels) -> Bytes \cup {Unset}] /\ s \in LightStates
  BY DEF LightInv
<1>2. /\ left' = (left \cup UNION {DOMAIN a.to : a \in animation}) \ DOMAIN target
      /\ animation' = IF animated THEN {[from |-> start, to |-> target]} ELSE {}
      /\ dmx' = Written(now)
      /\ s' \in IF animated THEN {SaveLastState(Preserving(ApplyAll(t, q)), preserved) : t \in Heard(clear, now)}
                ELSE {SaveLastState(t, preserved) : t \in Heard(ApplyAll(clear, q), now)}
  BY DEF ApplyUpdates
<1>3. /\ target \in [D -> Bytes]
      /\ \A c \in D : target[c] = IF c = "temp" THEN Round(ValueOf(q, c), Range_) ELSE ValueOf(q, c)
  BY <1>1, RenderedValues
<1>4. \A c \in ToSet(channels) : c \in ChannelNames
  BY <1>1, ChannelFacts
<1>5. DOMAIN target = D
  BY <1>3
<1> HIDE DEF target
<1>6. start \in [D -> Bytes]
  <2>1. ASSUME NEW c \in D PROVE (IF dmx[c] = Unset THEN EntityValue(st, c) ELSE dmx[c]) \in Bytes
    BY <1>1, <1>4, EntityValues
  <2> QED BY <1>5, <2>1
<1> HIDE DEF start
<1>7. now \in [D -> Bytes] /\ D \in SUBSET ToSet(channels)
  BY <1>3, <1>6
<1>8. clear \in LightStates /\ ModeOK(clear) /\ clear.v = st.v
  BY FlagState, ModeKept
<1> HIDE DEF clear
<1>9. q \in Seq(Updates) /\ Keyed(q)
  BY DEF Right
<1> DEFINE Good(u) == /\ u \in LightStates /\ ModeOK(u) /\ OnOK(u)
                      /\ \A c \in Readable \cap D : EntityValue(u, c) = target[c]
                      /\ \A c \in Readable \ D : EntityValue(u, c) = EntityValue(st, c)
<1>10. ASSUME NEW t \in LightStates, ModeOK(t),
              \A c \in Readable \ D : EntityValue(t, c) = EntityValue(st, c)
       PROVE  Good(ApplyAll(t, q))
  <2> DEFINE u == ApplyAll(t, q)
  <2>1. /\ u \in LightStates
        /\ ModeOK(u)
        /\ OnOK(t) \/ Names(q) \cap ToSet(channels) # {} => OnOK(u)
        /\ \A d \in Readable :
              /\ d \in Names(q) => Value(u.v, d) = ValueOf(q, d)
              /\ d \notin Names(q) => Value(u.v, d) = Value(t.v, d)
    BY <1>1, <1>9, <1>10, ApplyAllState
  <2> HIDE DEF u
  <2>2. ASSUME NEW c \in Readable \cap D PROVE EntityValue(u, c) = target[c]
    <3>1. Value(u.v, c) = ValueOf(q, c)
      BY <2>1, <2>2
    <3> QED BY <1>3, <1>4, <2>1, <2>2, <3>1, ReadableChannels, EntityValues
  <2>3. ASSUME NEW c \in Readable \ D
        PROVE  EntityValue(u, c) = EntityValue(st, c)
    <3>1. Value(u.v, c) = Value(t.v, c)
      BY <2>1, <2>3, ReadableChannels
    <3>2. EntityValue(u, c) = EntityValue(t, c)
      BY <1>4, <1>10, <2>1, <2>3, <3>1, ReadableChannels, EntityValues
    <3> QED BY <1>10, <2>3, <3>2
  <2>4. OnOK(u)
    BY <2>1 DEF OnOK
  <2> QED BY <2>1, <2>2, <2>3, <2>4 DEF u
<1>11. Good(s')
  <2>1. CASE animated
    <3>1. PICK t \in Heard(clear, now) : s' = SaveLastState(Preserving(ApplyAll(t, q)), preserved)
      BY <1>2, <2>1
    <3>2. /\ t \in LightStates
          /\ ModeOK(t)
          /\ \A c \in Readable :
                EntityValue(t, c) = IF c \in D /\ now[c] # dmx[c] THEN now[c] ELSE EntityValue(clear, c)
      <4> HIDE DEF now, D
      <4> QED BY <1>1, <1>7, <1>8, HeardState
    <3>3. \A c : EntityValue(clear, c) = EntityValue(st, c)
      BY <1>8, SameEntityValue
    <3>4. Good(ApplyAll(t, q))
      BY <1>10, <3>2, <3>3
    <3> DEFINE u == ApplyAll(t, q)
               w == Preserving(u)
    <3>5. w \in LightStates /\ w.v = u.v /\ w.mode = u.mode /\ w.on = u.on
      BY <3>4, FlagState
    <3> HIDE DEF w
    <3>6. s' \in LightStates /\ s'.v = w.v /\ s'.mode = w.mode /\ s'.on = w.on
      BY <3>1, <3>5, SavedState DEF w
    <3>7. \A c : EntityValue(s', c) = EntityValue(u, c)
      BY <3>5, <3>6, SameEntityValue
    <3> HIDE DEF u
    <3>8. ModeOK(s') /\ OnOK(s')
      BY <3>4, <3>5, <3>6, ModeKept, OnKept DEF u
    <3> USE DEF u
    <3> QED BY <3>4, <3>6, <3>7, <3>8
  <2>2. CASE ~animated
    <3> DEFINE u == ApplyAll(clear, q)
    <3>1. PICK t \in Heard(u, now) : s' = SaveLastState(t, preserved)
      BY <1>2, <2>2
    <3>2. \A c : EntityValue(clear, c) = EntityValue(st, c)
      BY <1>8, SameEntityValue
    <3>3. Good(u)
      BY <1>8, <1>10, <3>2
    <3> HIDE DEF u
    <3>4. /\ t \in LightStates
          /\ ModeOK(t) /\ OnOK(t)
          /\ \A c \in Readable :
                EntityValue(t, c) = IF c \in D /\ now[c] # dmx[c] THEN now[c] ELSE EntityValue(u, c)
      <4>1. u \in LightStates /\ ModeOK(u) /\ OnOK(u)
        BY <3>3
      <4> HIDE DEF now, D
      <4> QED BY <1>1, <1>7, <4>1, HeardState
    <3>5. now = target
      BY <2>2
    <3>6. Good(t)
      BY <3>3, <3>4, <3>5
    <3>7. s' \in LightStates /\ s'.v = t.v /\ s'.mode = t.mode /\ s'.on = t.on
      BY <3>1, <3>4, SavedState
    <3>8. \A c : EntityValue(s', c) = EntityValue(t, c)
      BY <3>7, SameEntityValue
    <3>9. ModeOK(s') /\ OnOK(s')
      BY <3>4, <3>7, ModeKept, OnKept
    <3> QED BY <3>6, <3>7, <3>8, <3>9
  <2> QED BY <2>1, <2>2
<1>12. /\ dmx' \in [ToSet(channels) -> Bytes \cup {Unset}]
       /\ \A c \in D : dmx'[c] = now[c]
       /\ \A c \in ToSet(channels) \ D : dmx'[c] = dmx[c]
  <2> HIDE DEF now, D
  <2> QED BY <1>1, <1>2, <1>7, WrittenValues
<1>13. animation \subseteq Animations /\ left \subseteq ToSet(channels)
  BY DEF LightInv
<1>14. left' \subseteq ToSet(channels) /\ left' = (left \cup UNION {DOMAIN a.to : a \in animation}) \ D
  BY <1>2, <1>5, <1>13, AnimationParts
<1>15. animation' \subseteq Animations /\ \A a, b \in animation' : a = b
  <2> DEFINE a == [from |-> start, to |-> target]
  <2>1. a.from = start /\ a.to = target /\ DOMAIN start = D
    BY <1>6
  <2>2. a \in Animations
    BY <1>3, <1>5, <1>6, <1>7, <2>1 DEF Animations
  <2> QED BY <1>2, <2>2
<1>16. ASSUME NEW c \in Readable \ left'
       PROVE  \/ dmx'[c] = Unset
              \/ EntityValue(s', c) = dmx'[c]
              \/ \E a \in animation' : c \in DOMAIN a.to /\ EntityValue(s', c) = a.to[c]
  <2>0. c \in Readable /\ c \in ToSet(channels)
    BY <1>16, ReadableChannels
  <2>1. CASE c \in D
    <3>1. EntityValue(s', c) = target[c]
      BY <1>11, <1>16, <2>1
    <3>2. CASE animated
      <4>1. [from |-> start, to |-> target] \in animation'
        BY <1>2, <3>2
      <4> QED BY <1>5, <2>1, <3>1, <4>1
    <3>3. CASE ~animated
      BY <1>12, <2>1, <3>1, <3>3
    <3> QED BY <3>2, <3>3
  <2>2. CASE c \notin D
    <3>1. c \in Readable \ left /\ \A a \in animation : c \notin DOMAIN a.to
      BY <1>14, <1>16, <2>2
    <3>2. AllShown(s, dmx, animation, left)
      BY <1>16 DEF LightInv
    <3>3. dmx[c] = Unset \/ EntityValue(s, c) = dmx[c]
      BY <3>1, <3>2 DEF AllShown
    <3>4. EntityValue(s', c) = EntityValue(st, c)
      BY <1>11, <1>16, <2>2
    <3>5. Value(st.v, c) = Value(s.v, c)
      BY <2>0, <2>2
    <3>6. EntityValue(st, c) = EntityValue(s, c)
      BY <1>1, <1>4, <2>0, <3>5, EntityValues
    <3>7. dmx'[c] = dmx[c]
      BY <1>12, <2>0, <2>2
    <3> QED BY <3>3, <3>4, <3>6, <3>7
  <2> QED BY <2>1, <2>2
<1>17. AllShown(s', dmx', animation', left')
  BY <1>16 DEF AllShown
<1> QED BY <1>11, <1>12, <1>14, <1>15, <1>17

(* Writes of others and frames. *)
LEMMA HeardShown ==
    ASSUME LightInv, NEW D \in SUBSET ToSet(channels), NEW values \in [D -> Bytes], NEW t \in Heard(s, values)
    PROVE  /\ t \in LightStates /\ ModeOK(t)
           /\ Written(values) \in [ToSet(channels) -> Bytes \cup {Unset}]
           /\ AllShown(t, Written(values), animation, left \ Changed(values))
           /\ OnShown(t, Written(values))
<1>1. channels \in Kinds /\ dmx \in [ToSet(channels) -> Bytes \cup {Unset}] /\ s \in LightStates /\ ModeOK(s)
  BY DEF LightInv
<1>2. /\ t \in LightStates
      /\ ModeOK(t)
      /\ OnOK(s) \/ Changed(values) # {} => OnOK(t)
      /\ \A c \in Readable :
            EntityValue(t, c) = IF c \in D /\ values[c] # dmx[c] THEN values[c] ELSE EntityValue(s, c)
  BY <1>1, HeardState
<1>3. /\ Written(values) \in [ToSet(channels) -> Bytes \cup {Unset}]
      /\ \A c \in D : Written(values)[c] = values[c]
      /\ \A c \in ToSet(channels) \ D : Written(values)[c] = dmx[c]
  BY <1>1, WrittenValues
<1>4. \A c : c \in Changed(values) <=> c \in D /\ values[c] # dmx[c]
  BY DEF Changed
<1>5. ASSUME NEW c \in Readable \ (left \ Changed(values))
      PROVE  \/ Written(values)[c] = Unset
             \/ EntityValue(t, c) = Written(values)[c]
             \/ \E a \in animation : c \in DOMAIN a.to /\ EntityValue(t, c) = a.to[c]
  <2>1. CASE c \in Changed(values)
    BY <1>2, <1>3, <1>4, <1>5, <2>1
  <2>2. CASE c \notin Changed(values)
    <3>1. EntityValue(t, c) = EntityValue(s, c) /\ Written(values)[c] = dmx[c]
      BY <1>2, <1>3, <1>4, <1>5, <2>2, ReadableChannels
    <3>2. AllShown(s, dmx, animation, left) /\ c \in Readable \ left
      BY <1>5, <2>2 DEF LightInv
    <3> QED BY <3>1, <3>2 DEF AllShown
  <2> QED BY <2>1, <2>2
<1>6. OnShown(t, Written(values))
  <2>1. CASE Changed(values) = {}
    <3>1. \A c \in ToSet(channels) : Written(values)[c] = dmx[c]
      BY <1>3, <1>4, <2>1
    <3>2. OnShown(s, dmx)
      BY DEF LightInv
    <3> QED BY <1>2, <3>1, <3>2 DEF OnShown
  <2>2. CASE Changed(values) # {}
    BY <1>2, <2>2 DEF OnShown
  <2> QED BY <2>1, <2>2
<1>7. AllShown(t, Written(values), animation, left \ Changed(values))
  BY <1>5 DEF AllShown
<1> QED BY <1>2, <1>3, <1>6, <1>7

LEMMA FrameInv ==
    ASSUME LightInv, NEW a \in animation,
           s' \in Heard(s, [c \in DOMAIN a.to |-> (a.from[c] + a.to[c]) \div 2]),
           dmx' = Written([c \in DOMAIN a.to |-> (a.from[c] + a.to[c]) \div 2])
    PROVE  /\ s' \in LightStates /\ ModeOK(s')
           /\ dmx' \in [ToSet(channels) -> Bytes \cup {Unset}]
           /\ AllShown(s', dmx', animation, left) /\ OnShown(s', dmx')
<1> DEFINE D == DOMAIN a.to
           half == [c \in D |-> (a.from[c] + a.to[c]) \div 2]
<1>1. D \in SUBSET ToSet(channels) /\ a.from \in [D -> Bytes] /\ a.to \in [D -> Bytes]
  BY AnimationParts DEF LightInv
<1>2. half \in [D -> Bytes]
  <2>1. \A x, y \in Bytes : (x + y) \div 2 \in Bytes
    BY SMT DEF Bytes
  <2> HIDE DEF D
  <2> QED BY <1>1, <2>1
<1>3. s' \in Heard(s, half) /\ dmx' = Written(half)
  OBVIOUS
<1> HIDE DEF D, half
<1>4. /\ s' \in LightStates /\ ModeOK(s')
      /\ dmx' \in [ToSet(channels) -> Bytes \cup {Unset}]
      /\ AllShown(s', dmx', animation, left \ Changed(half)) /\ OnShown(s', dmx')
  BY <1>1, <1>2, <1>3, HeardShown
<1> QED BY <1>4 DEF AllShown

LEMMA LastFrameInv ==
    ASSUME LightInv, NEW a \in animation, NEW t \in Heard(s, a.to), s' = Cleared(t), dmx' = Written(a.to)
    PROVE  /\ s' \in LightStates /\ ModeOK(s')
           /\ dmx' \in [ToSet(channels) -> Bytes \cup {Unset}]
           /\ AllShown(s', dmx', {}, left) /\ OnShown(s', dmx')
<1> DEFINE D == DOMAIN a.to
           to == a.to
<1>1. D \in SUBSET ToSet(channels) /\ to \in [D -> Bytes] /\ \A b \in animation : b = a
  BY AnimationParts DEF LightInv
<1>2. t \in Heard(s, to) /\ dmx' = Written(to)
  OBVIOUS
<1> HIDE DEF D, to
<1>3. /\ t \in LightStates /\ ModeOK(t)
      /\ dmx' \in [ToSet(channels) -> Bytes \cup {Unset}]
      /\ AllShown(t, dmx', animation, left \ Changed(to)) /\ OnShown(t, dmx')
  BY <1>1, <1>2, HeardShown
<1>4. s' \in LightStates /\ s'.v = t.v /\ s'.mode = t.mode /\ s'.on = t.on
  BY <1>3, FlagState
<1>5. \A c : EntityValue(s', c) = EntityValue(t, c)
  BY <1>4, SameEntityValue
<1>6. ModeOK(s') /\ OnShown(s', dmx')
  BY <1>3, <1>4, ModeKept, OnKept DEF OnShown
<1>7. \A c \in D : dmx'[c] = to[c]
  <2>1. dmx \in [ToSet(channels) -> Bytes \cup {Unset}]
    BY DEF LightInv
  <2> QED BY <1>1, <1>2, <2>1, WrittenValues
<1>8. ASSUME NEW c \in Readable \ left
      PROVE  dmx'[c] = Unset \/ EntityValue(t, c) = dmx'[c]
  <2>1. \/ dmx'[c] = Unset
        \/ EntityValue(t, c) = dmx'[c]
        \/ \E b \in animation : c \in DOMAIN b.to /\ EntityValue(t, c) = b.to[c]
    BY <1>3, <1>8 DEF AllShown
  <2>2. ASSUME NEW b \in animation, c \in DOMAIN b.to, EntityValue(t, c) = b.to[c]
        PROVE  EntityValue(t, c) = dmx'[c]
    <3>1. c \in D /\ EntityValue(t, c) = to[c]
      BY <1>1, <2>2 DEF D, to
    <3> QED BY <1>7, <3>1
  <2> QED BY <2>1, <2>2
<1>9. AllShown(s', dmx', {}, left)
  BY <1>5, <1>8 DEF AllShown
<1> QED BY <1>3, <1>4, <1>6, <1>9

-----------------------------------------------------------------------------
(* A restart.                                                                *)
LEMMA FirstStateOK == FirstState \in LightStates /\ ModeOK(FirstState)
<1>1. FirstValues \in LightValues
  <2>1. 255 * Range_ \in Temps /\ 255 * Range_ \in Nat
    BY Bounds DEF Temps
  <2>2. \A a \in Dimmed : FirstValues[a] \in Bytes
    BY DEF FirstValues, Dimmed, Twins, Bytes
  <2>3. FirstValues["temp"] = 255 * Range_ /\ FirstValues["kelvin"] = 3000
    BY DEF FirstValues, Twins, Colors3, ToSet
  <2>4. DOMAIN FirstValues = Twins /\ FirstValues = [a \in Twins |-> FirstValues[a]]
    BY DEF FirstValues
  <2>5. \A a \in Twins : FirstValues[a] \in Nat
    <3>1. \A a \in Twins : a \in Dimmed \/ a = "temp" \/ a = "kelvin"
      BY DEF Dimmed
    <3> QED BY <2>1, <2>2, <2>3, <3>1 DEF Bytes
  <2>6. FirstValues \in [Twins -> Nat]
    BY <2>4, <2>5
  <2> QED BY <2>1, <2>2, <2>3, <2>6 DEF LightValues
<1>2. FirstMode \in Modes
  <2>1. ModeForRgb \in Modes
    BY DEF ModeForRgb, Modes
  <2> QED BY <2>1 DEF FirstMode, Modes
<1>3. SwitchesColorMode => FirstMode = "color_temp" /\ \A a \in Rgb : FirstValues[a] = 0
  <2>1. SwitchesColorMode => FirstMode = "color_temp"
    BY DEF FirstMode, SwitchesColorMode, HasCwWw
  <2>2. ToSet(Colors3) = Rgb
    BY DEF ToSet, Colors3, Rgb
  <2> QED BY <2>1, <2>2 DEF FirstValues, Rgb, Twins
<1> HIDE DEF FirstValues, FirstMode
<1>4. FirstState.v = FirstValues /\ FirstState.mode = FirstMode /\ FirstState \in LightStates
  BY <1>1, <1>2 DEF FirstState, LightStates
<1> HIDE DEF FirstState
<1> QED BY <1>3, <1>4 DEF ModeOK, AnyOf

LEMMA MixedValues ==
    ASSUME NEW v \in LightValues, NEW w \in LightValues, NEW kept
    PROVE  [a \in Twins |-> IF a \in kept THEN v[a] ELSE w[a]] \in LightValues
BY DEF LightValues, Dimmed, Twins

LEMMA RestoredOK ==
    ASSUME channels \in Kinds, s \in LightStates
    PROVE  Restored \in LightStates /\ ModeOK(Restored)
<1> DEFINE bright == [FirstState EXCEPT !.on = s.on, !.v.brightness = IF s.on THEN s.v.brightness ELSE @,
                                        !.last.brightness = IF s.on THEN s.v.brightness ELSE @]
           color == RestoredColor(bright)
           white == s.on /\ s.mode = "color_temp"
           temp == IF white THEN UpdateColorTempKelvin(color, s.v.kelvin) ELSE color
           pair == TempToCwWw(IF white THEN s.v.kelvin ELSE (MinKelvin + MaxKelvin) \div 2,
                              IF s.on /\ s.v.brightness > 0 THEN s.v.brightness ELSE 100)
           OK(t) == t \in LightStates /\ ModeOK(t)
<1>1. /\ s.v.brightness \in Bytes /\ s.v.warm \in Bytes /\ s.v.kelvin \in Nat
      /\ s.v \in LightValues /\ s.on \in BOOLEAN
  BY StateParts, Values DEF Dimmed, Twins
<1>2. OK(bright)
  <2> DEFINE f == FirstState
             b == IF s.on THEN s.v.brightness ELSE f.v.brightness
             l == IF s.on THEN s.v.brightness ELSE f.last.brightness
  <2>1. f \in LightStates /\ f.mode = FirstMode /\ f.v \in LightValues /\ f.last \in LightValues
    BY FirstStateOK, StateParts DEF FirstState
  <2>2. bright = [f EXCEPT !.on = s.on, !.v = [f.v EXCEPT !["brightness"] = b], !.last = [f.last EXCEPT !["brightness"] = l]]
    BY <2>1, StateParts DEF LightStates
  <2> HIDE DEF f, bright
  <2>3. b \in Bytes /\ l \in Bytes
    BY <1>1, <2>1, Values DEF Dimmed, Twins
  <2> HIDE DEF b, l
  <2>4. [f.v EXCEPT !["brightness"] = b] \in LightValues /\ [f.last EXCEPT !["brightness"] = l] \in LightValues
    BY <2>1, <2>3, Values DEF Dimmed, Twins
  <2>5. bright \in LightStates /\ bright.mode = f.mode /\ bright.v = [f.v EXCEPT !["brightness"] = b]
    BY <1>1, <2>1, <2>2, <2>4, StateParts DEF LightStates
  <2>6. \A a \in Rgb : bright.v[a] = f.v[a]
    BY <2>1, <2>5, Values DEF Rgb, Twins
  <2>7. ModeOK(f)
    BY FirstStateOK DEF f
  <2> QED BY <2>5, <2>6, <2>7, ModeKept
<1> HIDE DEF bright
<1>3. OK(color)
  <2> DEFINE kept == IF s.on /\ s.mode \in {"rgb", "rgbw", "rgbww"} THEN Together(s.mode) ELSE {}
             v == [a \in Twins |-> IF a \in kept THEN s.v[a] ELSE bright.v[a]]
             l == [a \in Twins |-> IF a \in kept THEN s.v[a] ELSE bright.last[a]]
             t == [bright EXCEPT !.v = v, !.last = l]
  <2>1. v \in LightValues /\ l \in LightValues
    <3> HIDE DEF kept
    <3>1. bright.v \in LightValues /\ bright.last \in LightValues
      BY <1>2, StateParts
    <3>2. v \in LightValues
      BY <1>1, <3>1, MixedValues
    <3>3. l \in LightValues
      BY <1>1, <3>1, MixedValues
    <3> QED BY <3>2, <3>3
  <2>2. color = SyncColorMode(t)
    BY DEF RestoredColor
  <2> HIDE DEF v, l
  <2>3. t \in LightStates /\ t.mode = bright.mode
    BY <1>2, <2>1, StateParts DEF LightStates
  <2> HIDE DEF t
  <2>4. Follows(color, t, {}) /\ (SwitchesColorMode => ModeOK(color))
    BY <2>2, <2>3, SyncState
  <2> QED BY <1>2, <2>3, <2>4 DEF Follows, ModeOK
<1> HIDE DEF color
<1>4. OK(temp)
  <2> DEFINE u == UpdateColorTempKelvin(color, s.v.kelvin)
  <2>1. Follows(u, color, {"kelvin", "temp"}) /\ u.mode = color.mode
    BY <1>1, <1>3, KelvinFollows
  <2> HIDE DEF u
  <2>2. \A a \in Rgb : u.v[a] = color.v[a]
    BY <2>1 DEF Follows, Rgb, Twins
  <2>3. OK(u)
    BY <1>3, <2>1, <2>2, ModeKept DEF Follows
  <2> QED BY <1>3, <2>3 DEF u
<1>5. pair[1] \in Bytes /\ pair[2] \in Bytes
  <2> DEFINE k == IF white THEN s.v.kelvin ELSE (MinKelvin + MaxKelvin) \div 2
             b == IF s.on /\ s.v.brightness > 0 THEN s.v.brightness ELSE 100
  <2>1. k \in Int /\ b \in Nat /\ b <= 255
    <3>1. (MinKelvin + MaxKelvin) \div 2 \in Int
      BY Bounds
    <3> QED BY <1>1, <3>1 DEF Bytes
  <2>2. pair = TempToCwWw(k, b)
    OBVIOUS
  <2> HIDE DEF k, b, pair
  <2>3. pair[1] \in 0..b /\ pair[2] \in 0..b
    BY <2>1, <2>2, BrightnessSurvives
  <2> QED BY <2>1, <2>3 DEF Bytes
<1> HIDE DEF temp, pair
<1>6. ASSUME NEW values, \A a \in DOMAIN values : a \in Dimmed \ Rgb /\ values[a] \in Bytes
      PROVE  OK(Both(temp, values))
  <2> DEFINE v == [a \in Twins |-> IF a \in DOMAIN values THEN values[a] ELSE temp.v[a]]
             l == [a \in Twins |-> IF a \in DOMAIN values THEN values[a] ELSE temp.last[a]]
             mixed(w) == [a \in Twins |-> IF a \in DOMAIN values THEN values[a] ELSE w[a]]
  <2>1. temp.v \in LightValues /\ temp.last \in LightValues
    BY <1>4, StateParts
  <2>2. ASSUME NEW w \in LightValues PROVE mixed(w) \in LightValues
    <3>1. w \in [Twins -> Nat] /\ w["temp"] \in Temps /\ \A a \in Dimmed : w[a] \in Bytes
      BY <2>2, Values
    <3>2. "temp" \in Twins /\ "temp" \notin Dimmed /\ Dimmed \subseteq Twins /\ Bytes \subseteq Nat
      BY DEF Dimmed, Twins, Bytes
    <3> QED BY <1>6, <3>1, <3>2 DEF LightValues
  <2>3. v \in LightValues /\ l \in LightValues
    <3>1. v = mixed(temp.v) /\ l = mixed(temp.last)
      OBVIOUS
    <3> HIDE DEF v, l, mixed
    <3> QED BY <2>1, <2>2, <3>1
  <2>4. Both(temp, values) = [temp EXCEPT !.v = v, !.last = l]
    BY DEF Both
  <2>5. \A a \in Rgb : v[a] = temp.v[a]
    BY <1>6 DEF Rgb, Twins
  <2> HIDE DEF v, l
  <2> DEFINE u == Both(temp, values)
  <2>6. u \in LightStates /\ u.v = v /\ u.mode = temp.mode
    BY <1>4, <2>3, <2>4, StateParts DEF LightStates
  <2> HIDE DEF u
  <2>7. OK(u)
    BY <1>4, <2>5, <2>6, ModeKept
  <2> QED BY <2>7 DEF u
<1>7. OK(Both(temp, [cold |-> pair[1], warm |-> pair[2]]))
  <2> DEFINE r == [cold |-> pair[1], warm |-> pair[2]]
  <2>1. DOMAIN r = {"cold", "warm"} /\ r["cold"] = pair[1] /\ r["warm"] = pair[2]
    OBVIOUS
  <2> HIDE DEF r
  <2>2. \A a \in DOMAIN r : a \in Dimmed \ Rgb /\ r[a] \in Bytes
    BY <1>5, <2>1 DEF Dimmed, Twins, Rgb
  <2>3. OK(Both(temp, r))
    BY <1>6, <2>2
  <2> QED BY <2>3 DEF r
<1>8. OK(Both(temp, [warm |-> s.v.brightness]))
  <2> DEFINE r == [warm |-> s.v.brightness]
  <2>1. DOMAIN r = {"warm"} /\ r["warm"] = s.v.brightness
    OBVIOUS
  <2> HIDE DEF r
  <2>2. \A a \in DOMAIN r : a \in Dimmed \ Rgb /\ r[a] \in Bytes
    BY <1>1, <2>1 DEF Dimmed, Twins, Rgb
  <2>3. OK(Both(temp, r))
    BY <1>6, <2>2
  <2> QED BY <2>3 DEF r
<1>9. \/ Restored = Both(temp, [cold |-> pair[1], warm |-> pair[2]])
      \/ Restored = Both(temp, [warm |-> s.v.brightness])
      \/ Restored = temp
  BY DEF Restored, temp, pair, color, bright
<1> QED BY <1>4, <1>7, <1>8, <1>9

LEMMA OutputsThere ==
    /\ OutputChannels # <<>> => ToSet(OutputChannels) # {}
    /\ ToSet(OutputChannels) \subseteq ToSet(channels)
    /\ HasDimmer => "dimmer" \in ToSet(channels)
<1>1. OutputChannels \in Seq(OutputNames)
  BY OutputsOfLight
<1>2. OutputChannels # <<>> => 1 \in DOMAIN OutputChannels
  BY <1>1
<1>3. OutputChannels # <<>> => ToSet(OutputChannels) # {}
  BY <1>2 DEF ToSet
<1>4. ToSet(OutputChannels) \subseteq ToSet(channels)
  BY OutputsOfLight DEF Has
<1> QED BY <1>3, <1>4 DEF HasDimmer, Has

(* The commands leave what they do not write as it was.                      *)
LEMMA DarkenedState ==
    ASSUME channels \in Kinds, NEW st \in LightStates
    PROVE  Follows(Darkened(st), st, {"brightness", "cold", "warm"}) /\ Darkened(st).mode = st.mode
<1> DEFINE b == IF OutputChannels = <<>> THEN st.v.brightness ELSE 0
           v == [[[st.v EXCEPT !["brightness"] = b] EXCEPT !["cold"] = 0] EXCEPT !["warm"] = 0]
<1>1. 0 \in Bytes /\ b \in Bytes
  <2>1. 0 \in Bytes
    BY DEF Bytes
  <2>2. st.v.brightness \in Bytes
    BY StateParts, Values DEF Dimmed, Twins
  <2> QED BY <2>1, <2>2
<1>2. CASE HasDimmer
  BY <1>1, <1>2, BrightnessFollows DEF Darkened, Follows
<1>3. CASE ~HasDimmer
  <2>1. Darkened(st) = [st EXCEPT !.v = v]
    BY <1>3, StateParts DEF Darkened, LightStates
  <2> HIDE DEF b
  <2>2. v \in LightValues
    <3>1. "brightness" \in Dimmed /\ "cold" \in Dimmed /\ "warm" \in Dimmed /\ st.v \in LightValues
      BY StateParts DEF Dimmed, Twins
    <3>2. [st.v EXCEPT !["brightness"] = b] \in LightValues
      BY <1>1, <3>1, Values
    <3>3. [[st.v EXCEPT !["brightness"] = b] EXCEPT !["cold"] = 0] \in LightValues
      BY <1>1, <3>1, <3>2, Values
    <3> QED BY <1>1, <3>1, <3>3, Values
  <2>3. st.v \in [Twins -> Nat]
    BY StateParts, Values
  <2>4. \A a \in Twins \ {"brightness", "cold", "warm"} : v[a] = st.v[a]
    BY <2>3
  <2> HIDE DEF v
  <2> QED BY <2>1, <2>2, <2>4, StateParts DEF LightStates, Follows
<1> QED BY <1>2, <1>3

LEMMA TurnOnInv ==
    ASSUME LightInv, NEW command \in Commands, NEW transition \in BOOLEAN, TurnOn(command, transition)
    PROVE  /\ s' \in LightStates /\ ModeOK(s') /\ OnOK(s')
           /\ dmx' \in [ToSet(channels) -> Bytes \cup {Unset}]
           /\ left' \subseteq ToSet(channels)
           /\ animation' \subseteq Animations /\ \A a, b \in animation' : a = b
           /\ AllShown(s', dmx', animation', left')
<1> DEFINE on == [s EXCEPT !.on = TRUE]
           st == IF command.kelvin = Zero THEN on ELSE UpdateColorTempKelvin(on, command.kelvin)
           q == UpdatesOf(command)
<1>1. channels \in Kinds /\ s \in LightStates /\ ModeOK(s)
  BY DEF LightInv
<1>2. on \in LightStates /\ on.v = s.v /\ on.mode = s.mode
  BY <1>1, SetOn
<1>3. /\ Right(q) /\ (command.kelvin # Zero /\ Has("temp") => "temp" \in Names(q))
      /\ ToSet(channels) # {} => Names(q) \cap ToSet(channels) # {}
  BY <1>1, UpdatesOfRight
<1>4. ApplyUpdates(st, q, transition, {})
  BY DEF TurnOn
<1> HIDE DEF on
<1>5. /\ Follows(st, on, {"kelvin", "temp"}) /\ st.mode = on.mode
      /\ command.kelvin = Zero => st = on
  <2>1. Follows(on, on, {"kelvin", "temp"})
    BY <1>2 DEF Follows
  <2>2. /\ Follows(UpdateColorTempKelvin(on, command.kelvin), on, {"kelvin", "temp"})
        /\ UpdateColorTempKelvin(on, command.kelvin).mode = on.mode
    BY <1>1, <1>2, CommandParts, KelvinFollows
  <2> QED BY <2>1, <2>2
<1> HIDE DEF st, q
<1>6. st \in LightStates /\ ModeOK(st)
  <2>1. \A a \in Rgb : st.v[a] = s.v[a]
    BY <1>2, <1>5 DEF Follows, Rgb, Twins
  <2> QED BY <1>1, <1>2, <1>5, <2>1, ModeKept DEF Follows
<1>7. ASSUME NEW c \in ToSet(channels) \ Names(q) PROVE Value(st.v, c) = Value(s.v, c)
  <2>1. c \in ChannelNames /\ Has(c)
    BY <1>1, ChannelFacts
  <2>2. CASE c = "temp"
    BY <1>2, <1>3, <1>5, <1>7, <2>1, <2>2
  <2>3. CASE c # "temp"
    <3>1. c = "dimmer" \/ c \in Twins \ {"kelvin", "temp"}
      BY <2>1, <2>3 DEF ChannelNames, Twins
    <3>2. "brightness" \in Twins \ {"kelvin", "temp"}
      BY DEF Twins
    <3> QED BY <1>2, <1>5, <3>1, <3>2 DEF Follows, Value
  <2> QED BY <2>2, <2>3
<1>8. HasDimmer \/ OutputChannels # <<>> => Names(q) \cap ToSet(channels) # {}
  BY <1>3, OutputsThere
<1> QED BY <1>3, <1>4, <1>6, <1>7, <1>8, ApplyUpdatesInv

LEMMA TurnOffInv ==
    ASSUME LightInv, NEW transition \in BOOLEAN, TurnOff(transition)
    PROVE  /\ s' \in LightStates /\ ModeOK(s') /\ OnOK(s')
           /\ dmx' \in [ToSet(channels) -> Bytes \cup {Unset}]
           /\ left' \subseteq ToSet(channels)
           /\ animation' \subseteq Animations /\ \A a, b \in animation' : a = b
           /\ AllShown(s', dmx', animation', left')
<1> DEFINE off == [s EXCEPT !.on = FALSE]
           st == Darkened(off)
           q == IF HasDimmer THEN <<<<"dimmer", 0>>>>
                ELSE [i \in DOMAIN OutputChannels |-> <<OutputChannels[i], 0>>]
<1>1. channels \in Kinds /\ s \in LightStates /\ ModeOK(s) /\ {s.v} \in SUBSET LightValues
  BY StateParts DEF LightInv
<1>2. off \in LightStates /\ off.v = s.v /\ off.mode = s.mode
  BY <1>1, SetOn
<1>3. ApplyUpdates(st, q, transition, {s.v})
  BY DEF TurnOff
<1> HIDE DEF off
<1>4. Follows(st, off, {"brightness", "cold", "warm"}) /\ st.mode = off.mode
  BY <1>1, <1>2, DarkenedState
<1>5. Right(q) /\ (HasDimmer => Names(q) = {"dimmer"}) /\ (~HasDimmer => Names(q) = ToSet(OutputChannels))
  <2>1. CASE HasDimmer
    <3>1. <<"dimmer", 0>> \in Updates
      <4>1. "dimmer" \in ChannelNames /\ 0 \in ValuesOf("dimmer")
        BY DEF ChannelNames, ValuesOf, Bytes
      <4> QED BY <4>1, UpdateParts
    <3> QED BY <2>1, <3>1, PairRight
  <2>2. CASE ~HasDimmer
    <3> DEFINE n == Len(OutputChannels)
               f == [i \in 1..n |-> 0]
    <3>1. n \in Nat /\ DOMAIN OutputChannels = 1..n
      BY OutputsOfLight
    <3>2. f \in [1..n -> Bytes]
      BY DEF Bytes
    <3>3. q = [i \in 1..n |-> <<OutputChannels[i], f[i]>>]
      BY <2>2, <3>1
    <3>4. n <= Len(OutputChannels) /\ n = Len(OutputChannels)
      BY <3>1
    <3> HIDE DEF n, f, q
    <3>5. Right(q) /\ Names(q) = ToSet(OutputChannels)
      BY <1>1, <3>1, <3>2, <3>3, <3>4, OutputUpdates
    <3> QED BY <2>2, <3>5
  <2> QED BY <2>1, <2>2
<1>6. HasDimmer => \A a \in Twins \ {"brightness"} : st.v[a] = off.v[a]
  <2>1. 0 \in Bytes
    BY DEF Bytes
  <2> QED BY <1>2, <2>1, BrightnessFollows DEF Darkened, Follows
<1> HIDE DEF st, q
<1>7. st \in LightStates /\ ModeOK(st)
  <2>1. \A a \in Rgb : st.v[a] = s.v[a]
    BY <1>2, <1>4 DEF Follows, Rgb, Twins
  <2> QED BY <1>1, <1>2, <1>4, <2>1, ModeKept DEF Follows
<1>8. ASSUME NEW c \in ToSet(channels) \ Names(q) PROVE Value(st.v, c) = Value(s.v, c)
  <2>1. c \in ChannelNames /\ Has(c)
    BY <1>1, ChannelFacts
  <2>2. CASE HasDimmer
    <3>1. c # "dimmer" /\ c \in Twins \ {"brightness"}
      BY <1>5, <2>1, <2>2 DEF ChannelNames, Twins
    <3> QED BY <1>2, <1>6, <2>2, <3>1 DEF Value
  <2>3. CASE ~HasDimmer
    <3>1. c # "dimmer" /\ c \notin OutputNames
      BY <1>5, <2>1, <2>3, OutputsOfLight DEF HasDimmer
    <3>2. c \in Twins \ {"brightness", "cold", "warm"}
      BY <2>1, <3>1 DEF ChannelNames, Twins, OutputNames
    <3> QED BY <1>2, <1>4, <3>1, <3>2 DEF Follows, Value
  <2> QED BY <2>2, <2>3
<1>9. HasDimmer \/ OutputChannels # <<>> => Names(q) \cap ToSet(channels) # {}
  BY <1>5, OutputsThere
<1> QED BY <1>1, <1>3, <1>5, <1>7, <1>8, <1>9, ApplyUpdatesInv

LEMMA OthersWriteInv ==
    ASSUME LightInv, NEW D \in SUBSET ToSet(channels), NEW values \in [D -> Bytes], OthersWrite(values)
    PROVE  /\ s' \in LightStates /\ ModeOK(s')
           /\ dmx' \in [ToSet(channels) -> Bytes \cup {Unset}]
           /\ left' \subseteq ToSet(channels)
           /\ animation' \subseteq Animations /\ \A a, b \in animation' : a = b
           /\ AllShown(s', dmx', animation', left') /\ OnShown(s', dmx')
<1>1. /\ s' \in Heard(s, values) /\ dmx' = Written(values)
      /\ left' = left \ Changed(values) /\ animation' = animation
  BY DEF OthersWrite
<1>2. /\ s' \in LightStates /\ ModeOK(s')
      /\ dmx' \in [ToSet(channels) -> Bytes \cup {Unset}]
      /\ AllShown(s', dmx', animation, left \ Changed(values)) /\ OnShown(s', dmx')
  BY <1>1, HeardShown
<1> QED BY <1>1, <1>2 DEF LightInv

-----------------------------------------------------------------------------
LEMMA LightInitInv == Init => LightInv
<1> SUFFICES ASSUME Init PROVE LightInv
  OBVIOUS
<1>1. channels \in Kinds /\ steps \in 0..MaxSteps /\ left \subseteq ToSet(channels) /\ animation = {}
  BY InputsAssumption DEF Init
<1>2. dmx = [c \in ToSet(channels) |-> Unset]
  BY DEF Init
<1>3. s \in LightStates /\ ModeOK(s)
  BY FirstStateOK DEF Init
<1>4. AllShown(s, dmx, animation, left) /\ OnShown(s, dmx)
  BY <1>2, ReadableChannels DEF AllShown, OnShown
<1> QED BY <1>1, <1>2, <1>3, <1>4 DEF LightInv

(* What the actions preserve, for a light whose channels stay what they are. *)
LEMMA LightInvPrimed ==
    ASSUME LightInv, channels' = channels, steps' \in 0..MaxSteps,
           s' \in LightStates, ModeOK(s'), dmx' \in [ToSet(channels) -> Bytes \cup {Unset}],
           left' \subseteq ToSet(channels),
           animation' \subseteq Animations, \A a, b \in animation' : a = b,
           AllShown(s', dmx', animation', left'), OnShown(s', dmx')
    PROVE  LightInv'
<1>1. channels' \in Kinds
  BY DEF LightInv
<1>2. ModeOK(s)'
  <2>1. /\ SwitchesColorMode' <=> SwitchesColorMode
        /\ FirstMode' = FirstMode /\ ModeForRgb' = ModeForRgb
    BY DEF SwitchesColorMode, FirstMode, HasRgb, HasCwWw, ModeForRgb, Has
  <2> QED BY <2>1 DEF ModeOK, AnyOf
<1>3. animation' \subseteq Animations'
  BY DEF Animations
<1>4. AllShown(s, dmx, animation, left)'
  BY ReadableChannels DEF AllShown, EntityValue, Value
<1>5. OnShown(s, dmx)'
  <2>1. (HasDimmer' <=> HasDimmer) /\ OutputChannels' = OutputChannels
    BY DEF HasDimmer, OutputChannels, Only, Has
  <2> QED BY <2>1 DEF OnShown, OnOK, LitState
<1> QED BY <1>1, <1>2, <1>3, <1>4, <1>5 DEF LightInv

LEMMA LightStepInv == LightInv /\ [Next]_vars => LightInv'
<1> SUFFICES ASSUME LightInv, [Next]_vars PROVE LightInv'
  OBVIOUS
<1>1. steps \in 0..MaxSteps /\ MaxSteps \in Nat
  BY InputsAssumption DEF LightInv
<1>2. ASSUME NEW command \in Commands, NEW transition \in BOOLEAN, TurnOn(command, transition),
             steps' \in 0..MaxSteps
      PROVE  LightInv'
  <2>1. channels' = channels
    BY <1>2 DEF TurnOn
  <2> QED BY <1>2, <2>1, TurnOnInv, LightInvPrimed DEF OnShown
<1>3. ASSUME NEW transition \in BOOLEAN, TurnOff(transition), steps' \in 0..MaxSteps PROVE LightInv'
  <2>1. channels' = channels
    BY <1>3 DEF TurnOff
  <2> QED BY <1>3, <2>1, TurnOffInv, LightInvPrimed DEF OnShown
<1>4. ASSUME NEW D \in SUBSET ToSet(channels), NEW values \in [D -> Bytes], OthersWrite(values),
             steps' \in 0..MaxSteps
      PROVE  LightInv'
  <2>1. channels' = channels
    BY <1>4 DEF OthersWrite
  <2> QED BY <1>4, <2>1, OthersWriteInv, LightInvPrimed
<1>5. ASSUME Restart, steps' \in 0..MaxSteps PROVE LightInv'
  <2>1. /\ s' = Restored /\ dmx' = [c \in DOMAIN dmx |-> Unset] /\ animation' = {} /\ left' = {}
        /\ channels' = channels
    BY <1>5 DEF Restart
  <2>2. s' \in LightStates /\ ModeOK(s') /\ DOMAIN dmx = ToSet(channels)
    BY <2>1, RestoredOK DEF LightInv
  <2>3. /\ dmx' \in [ToSet(channels) -> Bytes \cup {Unset}]
        /\ AllShown(s', dmx', animation', left') /\ OnShown(s', dmx')
    BY <2>1, <2>2, ReadableChannels DEF AllShown, OnShown
  <2> QED BY <1>5, <2>1, <2>2, <2>3, LightInvPrimed
<1>6. CASE Step
  <2>1. steps' \in 0..MaxSteps
    BY <1>1, <1>6 DEF Step
  <2>2. ASSUME NEW c \in ToSet(channels), NEW value \in Levels
        PROVE  {c} \in SUBSET ToSet(channels) /\ [x \in {c} |-> value] \in [{c} -> Bytes]
    BY InputsAssumption
  <2>3. ToSet(channels) \in SUBSET ToSet(channels) /\ [c \in ToSet(channels) |-> 0] \in [ToSet(channels) -> Bytes]
    BY DEF Bytes
  <2>4. CASE \E c \in ToSet(channels), value \in Levels : OthersWrite([x \in {c} |-> value])
    BY <1>4, <2>1, <2>2, <2>4
  <2>5. CASE OthersWrite([c \in ToSet(channels) |-> 0])
    BY <1>4, <2>1, <2>3, <2>5
  <2> QED BY <1>2, <1>3, <1>5, <1>6, <2>1, <2>4, <2>5 DEF Step
<1>7. CASE Frame
  <2>1. PICK a \in animation :
           /\ s' \in Heard(s, [c \in DOMAIN a.to |-> (a.from[c] + a.to[c]) \div 2])
           /\ dmx' = Written([c \in DOMAIN a.to |-> (a.from[c] + a.to[c]) \div 2])
    BY <1>7 DEF Frame
  <2>2. channels' = channels /\ animation' = animation /\ steps' = steps /\ left' = left
    BY <1>7 DEF Frame
  <2>3. /\ s' \in LightStates /\ ModeOK(s')
        /\ dmx' \in [ToSet(channels) -> Bytes \cup {Unset}]
        /\ AllShown(s', dmx', animation, left) /\ OnShown(s', dmx')
    BY <2>1, FrameInv
  <2>4. /\ left' \subseteq ToSet(channels) /\ steps' \in 0..MaxSteps
        /\ animation' \subseteq Animations /\ \A a1, a2 \in animation' : a1 = a2
        /\ AllShown(s', dmx', animation', left')
    BY <1>1, <2>2, <2>3 DEF LightInv
  <2> QED BY <2>2, <2>3, <2>4, LightInvPrimed
<1>8. CASE LastFrame
  <2>1. PICK a \in animation : dmx' = Written(a.to) /\ s' \in {Cleared(t) : t \in Heard(s, a.to)}
    BY <1>8 DEF LastFrame
  <2>2. PICK t \in Heard(s, a.to) : s' = Cleared(t)
    BY <2>1
  <2>3. channels' = channels /\ animation' = {} /\ steps' = steps /\ left' = left
    BY <1>8 DEF LastFrame
  <2>4. /\ s' \in LightStates /\ ModeOK(s')
        /\ dmx' \in [ToSet(channels) -> Bytes \cup {Unset}]
        /\ AllShown(s', dmx', {}, left) /\ OnShown(s', dmx')
    BY <2>1, <2>2, LastFrameInv
  <2>5. /\ left' \subseteq ToSet(channels) /\ steps' \in 0..MaxSteps
        /\ animation' \subseteq Animations /\ \A a1, a2 \in animation' : a1 = a2
        /\ AllShown(s', dmx', animation', left')
    BY <1>1, <2>3, <2>4 DEF LightInv
  <2> QED BY <2>3, <2>4, <2>5, LightInvPrimed
<1>9. CASE UNCHANGED vars
  <2>1. /\ channels' = channels /\ s' = s /\ dmx' = dmx /\ animation' = animation /\ steps' = steps
        /\ left' = left
    BY <1>9 DEF vars
  <2>2. /\ s' \in LightStates /\ ModeOK(s') /\ dmx' \in [ToSet(channels) -> Bytes \cup {Unset}]
        /\ left' \subseteq ToSet(channels) /\ steps' \in 0..MaxSteps
        /\ animation' \subseteq Animations /\ \A a1, a2 \in animation' : a1 = a2
        /\ AllShown(s', dmx', animation', left') /\ OnShown(s', dmx')
    BY <2>1 DEF LightInv
  <2> QED BY <2>1, <2>2, LightInvPrimed
<1> QED BY <1>6, <1>7, <1>8, <1>9 DEF Next

LEMMA LightInvariance == Spec => []LightInv
<1>1. Init => LightInv
  BY LightInitInv
<1>2. LightInv /\ [Next]_vars => LightInv'
  BY LightStepInv
<1> QED BY <1>1, <1>2, PTL DEF Spec

(* The state of a light, its channels and what is left of its animations     *)
(* have their types: every value is a byte, the temperature one of the       *)
(* fixture, whatever is commanded, faded, written by others or restored.     *)
THEOREM TypeCorrect == Spec => []TypeOK
<1>1. LightInv => TypeOK
  <2> SUFFICES ASSUME LightInv PROVE TypeOK
    OBVIOUS
  <2>1. s \in LightStates
    BY DEF LightInv
  <2>2. /\ s.on \in BOOLEAN /\ s.preserve \in BOOLEAN
        /\ s.mode \in {"rgb", "rgbw", "rgbww", "color_temp", "brightness"}
        /\ s.v \in LightValues /\ s.last \in LightValues
    BY <2>1, StateParts DEF Modes
  <2>3. \A a \in Twins \ {"kelvin", "temp"} : s.v[a] \in Bytes /\ s.last[a] \in Bytes
    BY <2>2, Values DEF Dimmed
  <2>4. \A v \in {s.v, s.last} : v.kelvin \in Nat /\ v.temp \in 0..(255 * Range_)
    BY <2>2, Values DEF Twins, Temps
  <2> QED BY <2>2, <2>3, <2>4 DEF TypeOK, LightInv
<1> QED BY <1>1, LightInvariance, PTL

(* The light's state shows what is on its channels once its animation has    *)
(* ended, but for the channels that a cancelled animation has left half way: *)
(* whatever commands, fades, writes of others and restarts came before, and  *)
(* in whatever order the changes were heard.  This holds for every kind of   *)
(* light but the one that shows its temperature twice (OneTemperatureIn).    *)
THEOREM StateFollowsChannels ==
    ASSUME \A kind \in Kinds : OneTemperatureIn(kind)
    PROVE  Spec => []StateShowsChannels
<1>1. LightInv => StateShowsChannels
  <2> SUFFICES ASSUME LightInv, animation = {}, NEW c \in DOMAIN dmx \ left, dmx[c] # Unset
               PROVE  EntityValue(s, c) = dmx[c]
    BY DEF StateShowsChannels
  <2>1. AllShown(s, dmx, animation, left) /\ DOMAIN dmx = ToSet(channels) /\ channels \in Kinds
    BY DEF LightInv
  <2>2. c \in Readable
    BY <2>1 DEF Readable
  <2> QED BY <2>1, <2>2 DEF AllShown
<1> QED BY <1>1, LightInvariance, PTL

(* Once its animation has ended, a light of which every channel was written  *)
(* and none was left half way is on if, and only if, its channels show it:   *)
(* its dimmer, or any of its colors and whites.  This holds for every kind   *)
(* of light that is built, in whatever order the changes were heard.         *)
THEOREM OnIsLit == Spec => []OnIfLit
<1>1. LightInv => OnIfLit
  <2> SUFFICES ASSUME LightInv, Settled, HasDimmer \/ OutputChannels # <<>>
               PROVE  s.on <=> Lit(dmx)
    BY DEF OnIfLit
  <2>1. /\ AllShown(s, dmx, {}, {}) /\ OnShown(s, dmx) /\ s \in LightStates
        /\ \A c \in ToSet(channels) : dmx[c] # Unset
    BY DEF LightInv, Settled
  <2>2. s.on <=> LitState(s)
    BY <2>1, OutputsThere DEF OnShown, OnOK
  <2>3. HasDimmer => s.v["brightness"] = dmx["dimmer"]
    BY <2>1, OutputsThere DEF AllShown, Readable, EntityValue, Value
  <2>4. \A c \in ToSet(OutputChannels) : s.v[c] = dmx[c]
    BY <2>1, OutputsThere, OutputsOfLight DEF AllShown, Readable, EntityValue, Value, OutputNames
  <2> QED BY <2>2, <2>3, <2>4 DEF LitState, Lit
<1> QED BY <1>1, LightInvariance, PTL

-----------------------------------------------------------------------------
(* What commands write.  What is put stays in the updates, and so does what  *)
(* has another name.                                                         *)
LEMMA PutKeeps ==
    ASSUME NEW q, Right(q), NEW p \in Updates
    PROVE  /\ p \in ToSet(Put(q, p[1], p[2]))
           /\ \A r \in ToSet(q) : r[1] # p[1] => r \in ToSet(Put(q, p[1], p[2]))
<1> DEFINE new == Put(q, p[1], p[2])
<1>1. p = <<p[1], p[2]>>
  BY UpdateParts
<1>2. q \in Seq(Updates) /\ DOMAIN q = 1..Len(q) /\ Len(q) \in Nat
  BY DEF Right
<1>3. ASSUME NEW i \in DOMAIN q, q[i][1] = p[1]
      PROVE  /\ new[i] = p /\ DOMAIN new = DOMAIN q
             /\ \A k \in DOMAIN q : q[k][1] # p[1] => new[k] = q[k]
  <2>1. new = [k \in DOMAIN q |-> IF q[k][1] = p[1] THEN p ELSE q[k]]
    BY <1>1, <1>3 DEF Put
  <2> QED BY <1>3, <2>1
<1>4. ASSUME ~\E i \in DOMAIN q : q[i][1] = p[1]
      PROVE  /\ new[Len(q) + 1] = p /\ DOMAIN new = DOMAIN q \cup {Len(q) + 1}
             /\ \A k \in DOMAIN q : new[k] = q[k]
  <2>1. new = Append(q, p)
    BY <1>1, <1>4 DEF Put
  <2> QED BY <1>2, <2>1
<1> HIDE DEF new
<1>5. p \in ToSet(new)
  BY <1>3, <1>4 DEF ToSet
<1>6. ASSUME NEW r \in ToSet(q), r[1] # p[1] PROVE r \in ToSet(new)
  <2>1. PICK k \in DOMAIN q : r = q[k]
    BY DEF ToSet
  <2>2. new[k] = r /\ k \in DOMAIN new
    BY <1>3, <1>4, <1>6, <2>1
  <2> QED BY <2>2 DEF ToSet
<1> QED BY <1>5, <1>6 DEF new

LEMMA PutAllKeeps ==
    ASSUME NEW q, Right(q), NEW more, Right(more)
    PROVE  /\ ToSet(more) \subseteq ToSet(PutAll(q, more))
           /\ \A r \in ToSet(q) : r[1] \notin Names(more) => r \in ToSet(PutAll(q, more))
<1> DEFINE n == Len(more)
           g == CHOOSE g : PutRun(g, n, q, more)
<1>1. n \in Nat /\ DOMAIN more = 1..n /\ Keyed(more) /\ \A i \in 1..n : more[i] \in Updates
  BY DEF Right
<1>2. PutRun(g, n, q, more)
  BY <1>1, PutRunExists
<1>3. PutAll(q, more) = g[n]
  BY DEF PutAll, PutRun
<1> HIDE DEF g
<1>4. g[0] = q /\ \A i \in 1..n : g[i] = Put(g[i - 1], more[i][1], more[i][2])
  BY <1>1, <1>2 DEF PutRun
<1> DEFINE Kept(k) == /\ Right(g[k])
                      /\ \A i \in 1..k : more[i] \in ToSet(g[k])
                      /\ \A r \in ToSet(q) : (\A i \in 1..k : r[1] # more[i][1]) => r \in ToSet(g[k])
           T == {k \in Nat : k <= n => Kept(k)}
<1>5. 0 \in T
  BY <1>4
<1>6. ASSUME NEW k \in T PROVE k + 1 \in T
  <2> SUFFICES ASSUME k + 1 <= n PROVE Kept(k + 1)
    OBVIOUS
  <2>1. k + 1 \in 1..n /\ more[k + 1] \in Updates /\ Kept(k)
    BY <1>1
  <2> DEFINE p == more[k + 1]
             new == g[k + 1]
  <2>2. new = Put(g[k], p[1], p[2])
    <3>1. (k + 1) - 1 = k
      OBVIOUS
    <3> QED BY <1>4, <2>1, <3>1
  <2> HIDE DEF new
  <2>3. /\ Right(new) /\ p \in ToSet(new)
        /\ \A r \in ToSet(g[k]) : r[1] # p[1] => r \in ToSet(new)
    BY <2>1, <2>2, PutRight, PutKeeps
  <2>4. ASSUME NEW i \in 1..(k + 1) PROVE more[i] \in ToSet(new)
    <3>1. CASE i = k + 1
      BY <2>3, <3>1
    <3>2. CASE i # k + 1
      <4>1. i \in 1..k /\ i \in DOMAIN more /\ k + 1 \in DOMAIN more
        BY <1>1, <2>1, <3>2
      <4>2. more[i][1] # p[1]
        BY <1>1, <3>2, <4>1 DEF Keyed
      <4> QED BY <2>1, <2>3, <4>1, <4>2
    <3> QED BY <3>1, <3>2
  <2>5. ASSUME NEW r \in ToSet(q), \A i \in 1..(k + 1) : r[1] # more[i][1] PROVE r \in ToSet(new)
    <3>1. \A i \in 1..k : r[1] # more[i][1]
      BY <2>5
    <3>2. r[1] # p[1]
      BY <2>5
    <3> QED BY <2>1, <2>3, <3>1, <3>2
  <2> QED BY <2>3, <2>4, <2>5 DEF new
<1>7. Kept(n)
  <2>1. T \in SUBSET Nat
    OBVIOUS
  <2> HIDE DEF T
  <2>2. T = Nat
    BY <1>5, <1>6, <2>1, NatSetInduction
  <2> QED BY <1>1, <2>2 DEF T
<1> QED BY <1>1, <1>3, <1>7 DEF ToSet, Names

(* The channels after the updates have been written.                         *)
LEMMA WrittenUpdates ==
    ASSUME channels \in Kinds, dmx \in [ToSet(channels) -> Bytes \cup {Unset}], NEW q, Right(q),
           NEW c \in ToSet(channels)
    PROVE  /\ c # "temp" => \A p \in ToSet(q) : p[1] = c => Written(Rendered(q))[c] = p[2]
           /\ c \in Names(q) => Written(Rendered(q))[c] = Rendered(q)[c]
           /\ c \notin Names(q) => Written(Rendered(q))[c] = dmx[c]
<1> DEFINE D == Names(q) \cap ToSet(channels)
           target == Rendered(q)
<1>1. /\ target \in [D -> Bytes] /\ D \in SUBSET ToSet(channels)
      /\ \A d \in D : target[d] = IF d = "temp" THEN Round(ValueOf(q, d), Range_) ELSE ValueOf(q, d)
  BY RenderedValues
<1> HIDE DEF target, D
<1>2. /\ \A d \in D : Written(target)[d] = target[d]
      /\ \A d \in ToSet(channels) \ D : Written(target)[d] = dmx[d]
  BY <1>1, WrittenValues
<1>3. ASSUME NEW p \in ToSet(q), p[1] = c PROVE ValueOf(q, c) = p[2] /\ c \in Names(q)
  <2>1. PICK i \in DOMAIN q : p = q[i]
    BY DEF ToSet
  <2> QED BY <1>3, <2>1, KeyedValue DEF Right
<1> QED BY <1>1, <1>2, <1>3 DEF D, target

(* Updates that light an output.                                             *)
Shines(q) == \E p \in ToSet(q) : p[1] \in ToSet(OutputChannels) /\ p[2] > 0

(* The brightest output gets the brightness that the outputs are scaled to.  *)
LEMMA ScaleShines ==
    ASSUME NEW q, Right(q), \A i \in DOMAIN q : q[i][2] \in Bytes, Names(q) \subseteq ToSet(OutputChannels),
           Shines(q), NEW b \in Bytes, b > 0
    PROVE  Shines(ScaleToBrightness(q, b))
<1> DEFINE values == {q[i][2] : i \in DOMAIN q}
           max == Highest(values)
           scaled(x) == IF max = 0 THEN 0 ELSE Round(x * b, max)
           r == ScaleToBrightness(q, b)
<1>1. values \in SUBSET Bytes
  OBVIOUS
<1>2. max \in Bytes /\ max \in values \cup {0} /\ \A y \in values : y <= max
  <2> HIDE DEF values
  <2> QED BY <1>1, HighestByte
<1>3. r = [i \in DOMAIN q |-> <<q[i][1], scaled(q[i][2])>>]
  BY DEF ScaleToBrightness
<1>4. PICK j \in DOMAIN q : q[j][2] > 0
  BY DEF Shines, ToSet
<1>5. max > 0 /\ max \in values
  <2>1. q[j][2] \in values /\ q[j][2] \in Nat
    BY DEF Bytes
  <2> HIDE DEF max, values
  <2> QED BY <1>2, <1>4, <2>1 DEF Bytes
<1>6. PICK k \in DOMAIN q : q[k][2] = max
  <2> HIDE DEF max
  <2> QED BY <1>5
<1> HIDE DEF max, values
<1>7. Round(max * b, max) = b
  BY <1>2, <1>5, RoundProduct DEF Bytes
<1>8. r[k] = <<q[k][1], b>> /\ k \in DOMAIN r
  BY <1>3, <1>5, <1>6, <1>7
<1> HIDE DEF r
<1>9. r[k] \in ToSet(r) /\ r[k][1] = q[k][1] /\ r[k][2] = b
  BY <1>8 DEF ToSet
<1>10. q[k][1] \in ToSet(OutputChannels)
  BY DEF Names, ToSet
<1>11. Shines(r)
  BY <1>9, <1>10 DEF Shines
<1> QED BY <1>11 DEF r

LEMMA CwWwShines ==
    ASSUME HasCwWw, NEW k \in Nat, NEW b \in Bytes, b > 0
    PROVE  Shines(CwWw(k, b))
<1> DEFINE x == TempToCwWw(k, b)[1]
           y == TempToCwWw(k, b)[2]
           q == <<<<"cold", x>>, <<"warm", y>>>>
<1>1. x \in 0..b /\ y \in 0..b /\ Brighter(x, y) = b
  BY BrightnessSurvives DEF Bytes
<1>2. x > 0 \/ y > 0
  BY <1>1 DEF Brighter
<1>3. CwWw(k, b) = q
  BY DEF CwWw
<1> HIDE DEF x, y
<1>4. <<"cold", x>> \in ToSet(q) /\ <<"warm", y>> \in ToSet(q)
  <2>1. DOMAIN q = {1, 2} /\ q[1] = <<"cold", x>> /\ q[2] = <<"warm", y>>
    OBVIOUS
  <2> HIDE DEF q
  <2> QED BY <2>1 DEF ToSet
<1>5. "cold" \in ToSet(OutputChannels) /\ "warm" \in ToSet(OutputChannels)
  BY OutputsOfLight DEF HasCwWw, OutputNames
<1>6. <<"cold", x>>[1] = "cold" /\ <<"cold", x>>[2] = x /\ <<"warm", y>>[1] = "warm" /\ <<"warm", y>>[2] = y
  OBVIOUS
<1> HIDE DEF q
<1> QED BY <1>2, <1>3, <1>4, <1>5, <1>6 DEF Shines

LEMMA OutputsShine ==
    ASSUME channels \in Kinds, NEW v \in LightValues, \E c \in ToSet(OutputChannels) : v[c] > 0
    PROVE  Shines(Outputs(v))
<1>1. PICK i \in DOMAIN OutputChannels : v[OutputChannels[i]] > 0
  BY DEF ToSet
<1> DEFINE q == Outputs(v)
<1>2. i \in DOMAIN q /\ q[i] = <<OutputChannels[i], v[OutputChannels[i]]>>
  BY DEF Outputs
<1> HIDE DEF q
<1>3. q[i] \in ToSet(q) /\ q[i][1] = OutputChannels[i] /\ q[i][2] = v[OutputChannels[i]]
  BY <1>2 DEF ToSet
<1>4. OutputChannels[i] \in ToSet(OutputChannels)
  BY DEF ToSet
<1>5. Shines(q)
  BY <1>1, <1>3, <1>4 DEF Shines
<1> QED BY <1>5 DEF q

(* The lights whose outputs have to be lit for them to be seen.              *)
NeedsOutput == ~(OutputChannels = <<>> \/ (SwitchesColorMode /\ ~Has("warm")))

LEMMA AskedIsPositive == \A b \in Bytes : b # Zero => b > 0
BY DEF Bytes, Zero

(* A command for white or a color lights an output; one for a brightness     *)
(* does without a dimmer.                                                    *)
LEMMA CollectShines ==
    ASSUME channels \in Kinds, NEW st \in LightStates, NEW command \in Commands,
           \A color \in Colors : \E i \in DOMAIN color : color[i] > 0,
           NeedsOutput, CollectUpdates(st, command) # <<>>,
           IF HasDimmer THEN Names(CollectUpdates(st, command)) \cap ToSet(OutputChannels) # {}
           ELSE \E c \in ToSet(OutputChannels) : st.last[c] > 0
    PROVE  Shines(CollectUpdates(st, command))
<1> DEFINE bright == BrightPart(st, command)
           color == ColorPart(command)
           other == OtherPart(st, command)
           both == PutAll(bright, color)
           q == CollectUpdates(st, command)
           b == command.brightness
<1>1. /\ q = PutAll(both, other)
      /\ Right(bright) /\ Right(color) /\ Right(other)
      /\ Names(color) = Names(ColorUpdates(command))
      /\ command.kelvin # Zero => ToSet(WhitesPart(st, command)) \subseteq ToSet(other)
      /\ White(st, command) \in Bytes
  BY CollectParts
<1>2. /\ b \in Bytes /\ command.kelvin \in Nat /\ command.color \in Seq(Bytes)
      /\ command.color = <<>> \/ command.color \in Colors
      /\ Len(command.color) <= Len(OutputChannels)
      /\ command.kelvin # Zero => FirstMode = "color_temp"
  BY CommandParts
<1>3. /\ Right(both) /\ Names(both) = Names(bright) \cup Names(color)
      /\ ToSet(color) \subseteq ToSet(both)
      /\ \A r \in ToSet(bright) : r[1] \notin Names(color) => r \in ToSet(both)
  <2>1. color \in Seq(Updates)
    BY <1>1 DEF Right
  <2> HIDE DEF bright, color
  <2> QED BY <1>1, <2>1, PutAllRight, PutAllKeeps
<1> HIDE DEF both
<1>4. /\ ToSet(other) \subseteq ToSet(q) /\ Names(q) = Names(both) \cup Names(other)
      /\ \A r \in ToSet(both) : r[1] \notin Names(other) => r \in ToSet(q)
  <2>1. other \in Seq(Updates)
    BY <1>1 DEF Right
  <2> HIDE DEF other, q
  <2> QED BY <1>1, <1>3, <2>1, PutAllRight, PutAllKeeps
<1>5. CASE command.kelvin # Zero
  <2> DEFINE white == White(st, command)
             whites == WhitesPart(st, command)
  <2>1. white > 0
    <3>1. st.v.brightness \in Bytes /\ st.last.brightness \in Bytes
      BY StateParts, Values DEF Dimmed, Twins
    <3>2. <<b, st.v.brightness, st.last.brightness>> \in Seq(Bytes)
      BY <1>2, <3>1
    <3>3. FirstPositive(<<b, st.v.brightness, st.last.brightness>>) > 0
      BY <3>2, FirstPositiveByte
    <3> QED BY <3>3 DEF White
  <2>2. Has("warm")
    <3>1. FirstMode = "color_temp"
      BY <1>2, <1>5
    <3>2. OutputChannels # <<>> /\ ToSet(OutputChannels) = {c \in OutputNames : Has(c)}
      BY OutputsOfLight DEF NeedsOutput
    <3>3. ToSet(OutputChannels) # {}
      BY <3>2, OutputsThere
    <3>4. Has("warm") \/ Has("red")
      BY <3>2, <3>3, BuiltKinds DEF OutputNames
    <3>5. ASSUME Has("red"), ~Has("warm") PROVE FALSE
      <4>1. HasRgb /\ ~HasCwWw /\ ~SwitchesColorMode
        BY <3>5, BuiltKinds DEF NeedsOutput, HasCwWw
      <4>2. FirstMode # "color_temp"
        BY <4>1 DEF FirstMode, ModeForRgb
      <4> QED BY <3>1, <4>2
    <3> QED BY <3>4, <3>5
  <2>3. Shines(whites)
    <3>1. CASE HasCwWw
      BY <1>1, <1>2, <2>1, <3>1, CwWwShines DEF WhitesPart
    <3>2. CASE ~HasCwWw
      <4> DEFINE p == <<"warm", white>>
      <4>1. whites = <<p>> /\ p[1] = "warm" /\ p[2] = white
        BY <2>2, <3>2 DEF WhitesPart
      <4> HIDE DEF p, whites, white
      <4>2. p \in ToSet(whites)
        <5>1. DOMAIN whites = {1} /\ whites[1] = p
          BY <4>1
        <5> QED BY <5>1 DEF ToSet
      <4>3. "warm" \in ToSet(OutputChannels)
        BY <2>2, OutputsOfLight DEF OutputNames
      <4> QED BY <2>1, <4>1, <4>2, <4>3 DEF Shines
    <3> QED BY <3>1, <3>2
  <2>4. ToSet(whites) \subseteq ToSet(q)
    BY <1>1, <1>4, <1>5
  <2> HIDE DEF whites, q
  <2>5. Shines(q)
    BY <2>3, <2>4 DEF Shines
  <2> QED BY <2>5 DEF q
<1>6. ASSUME command.kelvin = Zero PROVE /\ Names(other) = {} /\ ToSet(both) \subseteq ToSet(q)
  <2>1. other = <<>>
    BY <1>6 DEF OtherPart
  <2>2. Names(other) = {}
    BY <2>1, EmptyRight
  <2> HIDE DEF q, other
  <2> QED BY <1>4, <2>2
<1>7. CASE command.kelvin = Zero /\ command.color # <<>>
  <2> DEFINE plain == ColorUpdates(command)
  <2>1. /\ Right(plain) /\ Names(plain) \subseteq ToSet(OutputChannels)
        /\ \A i \in DOMAIN plain : plain[i][2] \in Bytes
    BY ColorRight
  <2>2. PICK i \in DOMAIN command.color : command.color[i] > 0
    BY <1>2, <1>7
  <2>3. i \in DOMAIN plain /\ plain[i] = <<OutputChannels[i], command.color[i]>>
    BY DEF ColorUpdates
  <2> HIDE DEF plain
  <2>4. plain[i] \in ToSet(plain) /\ plain[i][2] > 0 /\ plain[i][1] \in Names(plain)
    BY <2>2, <2>3 DEF ToSet, Names
  <2>5. Shines(plain)
    BY <2>1, <2>4 DEF Shines
  <2>6. Shines(color)
    <3>1. CASE b = Zero \/ HasDimmer
      BY <2>5, <3>1 DEF ColorPart, plain
    <3>2. CASE ~(b = Zero \/ HasDimmer)
      <4>1. b > 0
        BY <1>2, <3>2, AskedIsPositive
      <4>2. Shines(ScaleToBrightness(plain, b))
        BY <1>2, <2>1, <2>5, <4>1, ScaleShines
      <4> QED BY <3>2, <4>2 DEF ColorPart, plain
    <3> QED BY <3>1, <3>2
  <2> HIDE DEF color, q
  <2>7. Shines(q)
    BY <1>3, <1>6, <1>7, <2>6 DEF Shines
  <2> QED BY <2>7 DEF q
<1>8. CASE command.kelvin = Zero /\ command.color = <<>>
  <2>1. Names(color) = {}
    <3> DEFINE plain == ColorUpdates(command)
    <3>1. DOMAIN plain = {}
      BY <1>8 DEF ColorUpdates
    <3> HIDE DEF plain
    <3>2. Names(plain) = {}
      BY <3>1 DEF Names, ToSet
    <3> QED BY <1>1, <3>2 DEF plain
  <2>2. Names(q) = Names(bright) /\ ToSet(bright) \subseteq ToSet(q)
    <3> HIDE DEF bright, color, other, q
    <3> QED BY <1>3, <1>4, <1>6, <1>8, <2>1
  <2>3. Names(q) # {}
    <3>1. q \in Seq(Updates) /\ q # <<>>
      BY CollectRight DEF Right
    <3> HIDE DEF q
    <3>2. 1 \in DOMAIN q
      BY <3>1
    <3> QED BY <3>2 DEF Names, ToSet
  <2>4. b > 0 /\ bright = BrightnessUpdates(st, b)
    <3>1. b # Zero
      BY <2>2, <2>3, EmptyRight DEF BrightPart
    <3>2. b > 0
      BY <1>2, <3>1, AskedIsPositive
    <3> QED BY <3>1, <3>2 DEF BrightPart
  <2>5. ~HasDimmer
    <3> SUFFICES ASSUME HasDimmer PROVE FALSE
      OBVIOUS
    <3> DEFINE p == <<"dimmer", b>>
    <3>1. bright = <<p>> /\ p[1] = "dimmer"
      BY <2>4 DEF BrightnessUpdates
    <3>2. "dimmer" \notin ToSet(OutputChannels)
      BY OutputsOfLight DEF OutputNames
    <3> HIDE DEF p, bright
    <3>3. Names(bright) = {"dimmer"}
      <4>1. DOMAIN bright = {1} /\ bright[1] = p
        BY <3>1
      <4> QED BY <3>1, <4>1 DEF Names, ToSet
    <3> QED BY <2>2, <3>2, <3>3
  <2>6. Shines(bright)
    <3>1. CASE HasCwWw /\ ~HasRgb
      <4>1. st.v.kelvin \in Nat
        BY StateParts, Values DEF Twins
      <4> QED BY <1>2, <2>4, <2>5, <3>1, <4>1, CwWwShines DEF BrightnessUpdates
    <3>2. CASE ~(HasCwWw /\ ~HasRgb)
      <4> DEFINE v == IF AnyOf(st, ToSet(OutputChannels)) THEN st.v ELSE st.last
      <4>1. v \in LightValues /\ \E c \in ToSet(OutputChannels) : v[c] > 0
        BY <2>5, StateParts DEF AnyOf
      <4>2. bright = ScaleToBrightness(Outputs(v), b)
        BY <2>4, <2>5, <3>2 DEF BrightnessUpdates
      <4> HIDE DEF v, bright
      <4>3. /\ Right(Outputs(v)) /\ Names(Outputs(v)) = ToSet(OutputChannels)
            /\ \A i \in DOMAIN Outputs(v) : Outputs(v)[i][2] \in Bytes
        BY <4>1, OutputsRight
      <4>4. Shines(Outputs(v))
        BY <4>1, OutputsShine
      <4> QED BY <1>2, <2>4, <4>2, <4>3, <4>4, ScaleShines
    <3> QED BY <3>1, <3>2
  <2> HIDE DEF bright, q
  <2>7. Shines(q)
    BY <2>2, <2>6 DEF Shines
  <2> QED BY <2>7 DEF q
<1> QED BY <1>5, <1>7, <1>8

(* No command dims a light to zero.                                          *)
LEMMA DimmerAsked ==
    ASSUME channels \in Kinds, NEW st \in LightStates, NEW command \in Commands, HasDimmer,
           NEW p \in ToSet(CollectUpdates(st, command)), p[1] = "dimmer"
    PROVE  p[2] > 0
<1> DEFINE bright == BrightPart(st, command)
           color == ColorPart(command)
           other == OtherPart(st, command)
           both == PutAll(bright, color)
           q == CollectUpdates(st, command)
           b == command.brightness
           u == <<"dimmer", b>>
<1>1. /\ q = PutAll(both, other)
      /\ Right(bright) /\ Right(color) /\ Right(other)
      /\ Names(color) = Names(ColorUpdates(command))
      /\ Names(other) \subseteq ToSet(channels) \ {"dimmer"}
  BY CollectParts
<1>2. "dimmer" \notin Names(color) /\ "dimmer" \notin Names(other)
  <2>1. "dimmer" \notin ToSet(OutputChannels)
    BY OutputsOfLight DEF OutputNames
  <2> QED BY <1>1, <2>1, ColorRight
<1>3. /\ Right(both) /\ Names(both) = Names(bright) \cup Names(color)
      /\ \A r \in ToSet(bright) : r[1] \notin Names(color) => r \in ToSet(both)
  <2>1. color \in Seq(Updates)
    BY <1>1 DEF Right
  <2> HIDE DEF bright, color
  <2> QED BY <1>1, <2>1, PutAllRight, PutAllKeeps
<1> HIDE DEF both
<1>4. /\ Right(q) /\ Names(q) = Names(both) \cup Names(other)
      /\ \A r \in ToSet(both) : r[1] \notin Names(other) => r \in ToSet(q)
  <2>1. other \in Seq(Updates)
    BY <1>1 DEF Right
  <2> HIDE DEF other, q
  <2> QED BY <1>1, <1>3, <2>1, PutAllRight, PutAllKeeps
<1>5. "dimmer" \in Names(bright)
  <2>1. "dimmer" \in Names(q)
    BY DEF Names
  <2> HIDE DEF bright, color, other, q
  <2> QED BY <1>2, <1>3, <1>4, <2>1
<1>6. b > 0 /\ bright = <<u>>
  <2>1. b # Zero
    BY <1>5, EmptyRight DEF BrightPart
  <2> QED BY <2>1, CommandParts, AskedIsPositive DEF BrightPart, BrightnessUpdates
<1>7. u[1] = "dimmer" /\ u[2] = b
  OBVIOUS
<1> HIDE DEF u, q
<1>8. u \in ToSet(q)
  <2>1. DOMAIN bright = {1} /\ bright[1] = u
    BY <1>6
  <2>2. u \in ToSet(bright)
    BY <2>1 DEF ToSet
  <2> QED BY <1>2, <1>3, <1>4, <1>7, <2>2
<1>9. \A r \in ToSet(q) : r[1] = "dimmer" => r = u
  BY <1>4, <1>7, <1>8 DEF Right, Keyed, ToSet
<1> QED BY <1>6, <1>7, <1>9 DEF q

(* What the light would show if its last values were brought back.           *)
LEMMA BroughtBackShows ==
    ASSUME channels \in Kinds, s \in LightStates, Visible(BroughtBack)
    PROVE  /\ HasDimmer => s.last["brightness"] > 0
           /\ NeedsOutput => \E c \in ToSet(OutputChannels) : s.last[c] > 0
<1> DEFINE q == RestorePreviousState(s)
<1>1. /\ Right(q) /\ Names(q) = ToSet(channels)
      /\ \A p \in ToSet(q) : p[2] = Value(s.last, p[1])
  BY RestoreRight
<1> HIDE DEF q
<1>2. ASSUME NEW c \in ToSet(channels) \ {"temp"} PROVE Rendered(q)[c] = Value(s.last, c)
  <2>1. PICK i \in DOMAIN q : q[i][1] = c
    BY <1>1 DEF Names, ToSet
  <2>2. ValueOf(q, c) = q[i][2]
    BY <1>1, <2>1, KeyedValue DEF Right
  <2>3. q[i][2] = Value(s.last, c)
    BY <1>1, <2>1 DEF ToSet
  <2>4. Rendered(q)[c] = ValueOf(q, c)
    BY <1>1, <1>2, RenderedValues
  <2> QED BY <2>2, <2>3, <2>4
<1>3. BroughtBack = Rendered(q)
  BY DEF BroughtBack, q
<1>4. HasDimmer => s.last["brightness"] > 0
  <2> SUFFICES ASSUME HasDimmer PROVE s.last["brightness"] > 0
    OBVIOUS
  <2>1. "dimmer" \in ToSet(channels) \ {"temp"}
    BY OutputsThere
  <2>2. Rendered(q)["dimmer"] > 0
    BY <1>3 DEF Visible
  <2> QED BY <1>2, <2>1, <2>2 DEF Value
<1>5. NeedsOutput => \E c \in ToSet(OutputChannels) : s.last[c] > 0
  <2> SUFFICES ASSUME NeedsOutput PROVE \E c \in ToSet(OutputChannels) : s.last[c] > 0
    OBVIOUS
  <2>1. PICK c \in ToSet(OutputChannels) : Rendered(q)[c] > 0
    BY <1>3 DEF Visible, NeedsOutput
  <2>2. c \in ToSet(channels) \ {"temp"} /\ c # "dimmer"
    BY OutputsThere, OutputsOfLight DEF OutputNames
  <2> QED BY <1>2, <2>1, <2>2 DEF Value
<1> QED BY <1>4, <1>5

(* With a dimmer, what is dark and not asked for is added.                   *)
LEMMA BecomeVisibleShows ==
    ASSUME channels \in Kinds, dmx \in [ToSet(channels) -> Bytes \cup {Unset}], s \in LightStates,
           NEW q, Right(q), HasDimmer,
           \A p \in ToSet(q) : p[1] = "dimmer" => p[2] > 0,
           NeedsOutput => \E c \in ToSet(OutputChannels) : s.last[c] > 0,
           NeedsOutput /\ Names(q) \cap ToSet(OutputChannels) # {} => Shines(q)
    PROVE  Visible(Written(Rendered(BecomeVisible(s, q))))
<1> DEFINE x == FirstPositive(<<s.last.brightness>>)
           p == <<"dimmer", x>>
           dimmed == IF "dimmer" \notin Names(q) /\ Dark("dimmer") THEN Put(q, "dimmer", x) ELSE q
           more == Outputs(s.last)
           r == BecomeVisible(s, q)
           W == Written(Rendered(r))
<1>1. x \in Bytes /\ x > 0
  <2>1. s.last.brightness \in Bytes
    BY StateParts, Values DEF Dimmed, Twins
  <2>2. <<s.last.brightness>> \in Seq(Bytes)
    BY <2>1
  <2> QED BY <2>2, FirstPositiveByte
<1> HIDE DEF x
<1>2. p \in Updates /\ p[1] = "dimmer" /\ p[2] = x
  BY <1>1, UpdateParts DEF ChannelNames, ValuesOf
<1> HIDE DEF p
<1>3. "dimmer" \in ToSet(channels) \ {"temp"} /\ "dimmer" \notin ToSet(OutputChannels)
  BY OutputsThere, OutputsOfLight DEF OutputNames
<1>4. /\ Right(dimmed) /\ ToSet(q) \subseteq ToSet(dimmed)
      /\ Names(dimmed) \subseteq Names(q) \cup {"dimmer"}
      /\ \/ \E u \in ToSet(dimmed) : u[1] = "dimmer" /\ u[2] > 0
         \/ "dimmer" \notin Names(dimmed) /\ ~Dark("dimmer")
  <2>1. CASE "dimmer" \notin Names(q) /\ Dark("dimmer")
    <3>1. dimmed = Put(q, p[1], p[2])
      BY <1>2, <2>1
    <3>2. /\ Right(dimmed) /\ Names(dimmed) = Names(q) \cup {"dimmer"} /\ p \in ToSet(dimmed)
          /\ \A u \in ToSet(q) : u[1] # "dimmer" => u \in ToSet(dimmed)
      <4> HIDE DEF dimmed
      <4> QED BY <1>2, <3>1, PutRight, PutKeeps
    <3>3. \A u \in ToSet(q) : u[1] \in Names(q)
      BY DEF Names
    <3> HIDE DEF dimmed
    <3> QED BY <1>1, <1>2, <2>1, <3>2, <3>3
  <2>2. CASE "dimmer" \in Names(q)
    <3>1. PICK u \in ToSet(q) : u[1] = "dimmer"
      BY <2>2 DEF Names
    <3> QED BY <2>2, <3>1
  <2>3. CASE "dimmer" \notin Names(q) /\ ~Dark("dimmer")
    BY <2>3
  <2> QED BY <2>1, <2>2, <2>3
<1>5. r = IF \A c \in ToSet(OutputChannels) : c \notin Names(dimmed) /\ Dark(c) THEN PutAll(dimmed, more) ELSE dimmed
  BY DEF BecomeVisible, x
<1>6. Right(more) /\ Names(more) = ToSet(OutputChannels) /\ more \in Seq(Updates)
  BY StateParts, OutputsRight DEF Right
<1> HIDE DEF dimmed, more, r
<1>7. /\ Right(PutAll(dimmed, more)) /\ Names(PutAll(dimmed, more)) = Names(dimmed) \cup ToSet(OutputChannels)
      /\ ToSet(more) \subseteq ToSet(PutAll(dimmed, more))
      /\ \A u \in ToSet(dimmed) : u[1] \notin ToSet(OutputChannels) => u \in ToSet(PutAll(dimmed, more))
  BY <1>4, <1>6, PutAllRight, PutAllKeeps
<1>8. Right(r)
  BY <1>4, <1>5, <1>7
<1>9. /\ \A c \in ToSet(channels) : c \notin Names(r) => W[c] = dmx[c]
      /\ \A c \in ToSet(channels) \ {"temp"} : \A u \in ToSet(r) : u[1] = c => W[c] = u[2]
  BY <1>8, WrittenUpdates
<1> HIDE DEF W
<1>10. ASSUME NEW c \in ToSet(channels), ~Dark(c) PROVE dmx[c] > 0
  BY <1>10 DEF Dark, Bytes, Unset
<1>11. W["dimmer"] > 0
  <2>1. ASSUME NEW u \in ToSet(dimmed), u[1] = "dimmer", u[2] > 0 PROVE W["dimmer"] > 0
    <3>1. u \in ToSet(r)
      BY <1>3, <1>5, <1>7, <2>1
    <3> QED BY <1>3, <1>9, <2>1, <3>1
  <2>2. ASSUME "dimmer" \notin Names(dimmed), ~Dark("dimmer") PROVE W["dimmer"] > 0
    <3>1. "dimmer" \notin Names(r)
      BY <1>3, <1>5, <1>7, <2>2
    <3> QED BY <1>3, <1>9, <1>10, <2>2, <3>1
  <2> QED BY <1>4, <2>1, <2>2
<1>12. ASSUME NeedsOutput PROVE \E c \in ToSet(OutputChannels) : W[c] > 0
  <2>1. \A c \in ToSet(OutputChannels) : c \in ToSet(channels) \ {"temp"} /\ c # "dimmer"
    BY OutputsThere, OutputsOfLight DEF OutputNames
  <2>2. Shines(r) => \E c \in ToSet(OutputChannels) : W[c] > 0
    BY <1>9, <2>1 DEF Shines
  <2>3. CASE \A c \in ToSet(OutputChannels) : c \notin Names(dimmed) /\ Dark(c)
    <3>1. Shines(more)
      BY <1>12, StateParts, OutputsShine DEF more
    <3>2. Shines(r)
      BY <1>5, <1>7, <2>3, <3>1 DEF Shines
    <3> QED BY <2>2, <3>2
  <2>4. ASSUME NEW c \in ToSet(OutputChannels), c \in Names(dimmed) PROVE Shines(r)
    <3>1. c \in Names(q)
      BY <1>4, <2>1, <2>4
    <3>2. Shines(q)
      BY <1>12, <3>1
    <3>3. r = dimmed
      BY <1>5, <2>4
    <3> QED BY <1>4, <3>2, <3>3 DEF Shines
  <2>5. ASSUME NEW c \in ToSet(OutputChannels), c \notin Names(dimmed), ~Dark(c) PROVE W[c] > 0
    <3>1. r = dimmed
      BY <1>5, <2>5
    <3> QED BY <1>9, <1>10, <2>1, <2>5, <3>1
  <2> QED BY <2>2, <2>3, <2>4, <2>5
<1>13. Visible(W)
  BY <1>11, <1>12 DEF Visible, NeedsOutput
<1> QED BY <1>13 DEF W, r

(* Any turn_on makes a light visible, whatever was written before: in the    *)
(* middle of a fade, by others, on channels never written or after a         *)
(* restart, if what it would bring back is visible and no color is all zero. *)
THEOREM TurnOnIsSeen ==
    ASSUME \A color \in Colors : \E i \in DOMAIN color : color[i] > 0
    PROVE  Spec => []CommandsMakeVisible
<1>1. LightInv => CommandsMakeVisible
  <2> SUFFICES ASSUME LightInv, Visible(BroughtBack), NEW command \in Commands
               PROVE  Visible(Written(Rendered(UpdatesOf(command))))
    BY DEF CommandsMakeVisible
  <2> DEFINE q == CollectUpdates(s, command)
  <2>1. channels \in Kinds /\ dmx \in [ToSet(channels) -> Bytes \cup {Unset}] /\ s \in LightStates
    BY DEF LightInv
  <2>2. UpdatesOf(command) = IF q = <<>> THEN RestorePreviousState(s) ELSE BecomeVisible(s, q)
    BY DEF UpdatesOf
  <2>3. /\ HasDimmer => s.last["brightness"] > 0
        /\ NeedsOutput => \E c \in ToSet(OutputChannels) : s.last[c] > 0
    BY <2>1, BroughtBackShows
  <2>4. Right(q)
    BY <2>1, CollectRight
  <2>5. ASSUME q # <<>>, NeedsOutput, HasDimmer => Names(q) \cap ToSet(OutputChannels) # {} PROVE Shines(q)
    BY <2>1, <2>3, <2>5, CollectShines
  <2>6. CASE q = <<>>
    <3> DEFINE r == RestorePreviousState(s)
               W == Written(Rendered(r))
    <3>1. Right(r) /\ Names(r) = ToSet(channels)
      BY <2>1, RestoreRight
    <3>2. BroughtBack = Rendered(r)
      BY DEF BroughtBack
    <3> HIDE DEF r
    <3>3. \A c \in ToSet(channels) : W[c] = BroughtBack[c]
      BY <2>1, <3>1, <3>2, WrittenUpdates
    <3> HIDE DEF W
    <3>4. Visible(W)
      BY <3>3, OutputsThere DEF Visible
    <3> QED BY <2>2, <2>6, <3>4 DEF W, r
  <2>7. CASE q # <<>> /\ HasDimmer
    <3>1. ASSUME NEW p \in ToSet(q), p[1] = "dimmer" PROVE p[2] > 0
      BY <2>1, <2>7, <3>1, DimmerAsked
    <3> HIDE DEF q
    <3> QED BY <2>1, <2>2, <2>3, <2>4, <2>5, <2>7, <3>1, BecomeVisibleShows
  <2>8. CASE q # <<>> /\ ~HasDimmer
    <3> HIDE DEF q
    <3>1. UpdatesOf(command) = q
      BY <2>2, <2>8 DEF BecomeVisible
    <3> DEFINE W == Written(Rendered(q))
    <3>2. \A c \in ToSet(channels) \ {"temp"} : \A p \in ToSet(q) : p[1] = c => W[c] = p[2]
      BY <2>1, <2>4, WrittenUpdates
    <3> HIDE DEF W
    <3>3. \A c \in ToSet(OutputChannels) : c \in ToSet(channels) \ {"temp"}
      BY OutputsThere, OutputsOfLight DEF OutputNames
    <3>4. NeedsOutput => \E c \in ToSet(OutputChannels) : W[c] > 0
      BY <2>5, <2>8, <3>2, <3>3 DEF Shines
    <3>5. Visible(W)
      BY <2>8, <3>4 DEF Visible, NeedsOutput
    <3> QED BY <3>1, <3>5 DEF W
  <2> QED BY <2>6, <2>7, <2>8
<1> QED BY <1>1, LightInvariance, PTL
=============================================================================
