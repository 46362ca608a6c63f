------------------------ MODULE ArtNetExchangeProofs ------------------------
(***************************************************************************)
(* Proofs about ArtNetExchange, ArtNetPackets and PortAddress, for any     *)
(* number of servers, their ports, and any interleaving of their packets.  *)
(***************************************************************************)
EXTENDS ArtNetExchange, FiniteSetTheorems, WellFoundedInduction, TLAPS

Of(t, s, u) == [net |-> t, sub |-> s, universe |-> u]

-----------------------------------------------------------------------------
(* Arithmetic: the places of a number. *)
LEMMA Places ==
    ASSUME NEW t \in 0..15, NEW s \in 0..15, NEW u \in 0..511
    PROVE  LET n == t * 8192 + s * 512 + u
           IN  n \div 8192 = t /\ n \div 512 = (16 * t) + s /\ n % 512 = u
BY SMT

LEMMA PlacesOfPair ==
    ASSUME NEW t \in 0..15, NEW s \in 0..15 PROVE t % 16 = t /\ ((16 * t) + s) % 16 = s
BY SMT

LEMMA LowByte ==
    ASSUME NEW t \in 0..15, NEW s \in 0..15, NEW u \in 0..511
    PROVE  (t * 8192 + s * 512 + u) % 16 = u % 16
BY SMT

LEMMA HighByte ==
    ASSUME NEW t \in 0..15, NEW s \in 0..15, NEW u \in 0..511
    PROVE  ((t * 8192 + s * 512 + u) \div 256) % 16 = ((2 * s) + (u \div 256)) % 16
<1> DEFINE n == t * 8192 + s * 512 + u
           v == u \div 256
<1>1. v \in 0..1 /\ u - 256 * v \in 0..255
  BY SMT
<1>2. n = 256 * (32 * t + 2 * s + v) + (u - 256 * v)
  BY <1>1, SMT
<1> HIDE DEF v
<1>3. n \div 256 = 32 * t + 2 * s + v
  BY <1>1, <1>2, SMT
<1>4. (32 * t + 2 * s + v) % 16 = (2 * s + v) % 16
  BY <1>1, SMT
<1> QED BY <1>3, <1>4 DEF v

(* What a receiver makes of the two bytes. *)
LEMMA BytesRead ==
    ASSUME NEW s \in 0..15, NEW u \in 0..511
    PROVE  LET h == ((2 * s) + (u \div 256)) % 16
           IN  /\ h \in 0..15
               /\ h \div 2 = s % 8
               /\ h % 2 = u \div 256
BY SMT

LEMMA PacketRead ==
    ASSUME NEW h \in 0..15, NEW l \in 0..15
    PROVE  LET m == h * 256 + l
           IN  m \div 8192 = 0 /\ m \div 512 = h \div 2 /\ m % 512 = ((h % 2) * 256) + l
BY SMT

LEMMA Remainders ==
    ASSUME NEW s \in 0..15, NEW u \in 0..511
    PROVE  /\ (s % 8) % 16 = s % 8 /\ (s % 8 = s <=> s < 8)
           /\ u % 16 \in 0..15
           /\ ((u \div 256) * 256) + (u % 16) = u <=> u % 256 < 16
BY SMT

-----------------------------------------------------------------------------
LEMMA Fields ==
    ASSUME NEW a \in PortAddresses
    PROVE  \E t \in 0..15 : \E s \in 0..15 : \E u \in 0..511 : a = Of(t, s, u)
BY DEF PortAddresses, Of

(* The parse of an address's number is the address.                          *)
THEOREM ParseNumber == \A a \in PortAddresses : Parse(Number(a)) = a
<1> SUFFICES ASSUME NEW a \in PortAddresses PROVE Parse(Number(a)) = a
  OBVIOUS
<1>1. PICK t \in 0..15, s \in 0..15, u \in 0..511 : a = Of(t, s, u)
  BY Fields
<1>2. Number(a) = t * 8192 + s * 512 + u
  BY <1>1 DEF Number, Of
<1>3. /\ Number(a) \div 8192 = t
      /\ Number(a) \div 512 = (16 * t) + s
      /\ Number(a) % 512 = u
  BY <1>2, Places
<1>4. t % 16 = t /\ ((16 * t) + s) % 16 = s
  BY PlacesOfPair
<1> QED BY <1>1, <1>3, <1>4 DEF Parse, Of

(* The order of the dataclass, by which ports are told apart and grouped, is *)
(* the order of the numbers.                                                 *)
THEOREM OrderOfNumbers ==
    \A a, b \in PortAddresses : Before(a, b) <=> Number(a) < Number(b)
<1> SUFFICES ASSUME NEW a \in PortAddresses, NEW b \in PortAddresses
             PROVE  Before(a, b) <=> Number(a) < Number(b)
  OBVIOUS
<1>1. PICK t \in 0..15, s \in 0..15, u \in 0..511 : a = Of(t, s, u)
  BY Fields
<1>2. PICK t2 \in 0..15, s2 \in 0..15, u2 \in 0..511 : b = Of(t2, s2, u2)
  BY Fields
<1>3. Before(a, b) <=> t < t2 \/ (t = t2 /\ s < s2) \/ (t = t2 /\ s = s2 /\ u < u2)
  BY <1>1, <1>2 DEF Before, Of
<1>4. Number(a) = t * 8192 + s * 512 + u /\ Number(b) = t2 * 8192 + s2 * 512 + u2
  BY <1>1, <1>2 DEF Number, Of
<1>5. (t < t2 \/ (t = t2 /\ s < s2) \/ (t = t2 /\ s = s2 /\ u < u2))
      <=> t * 8192 + s * 512 + u < t2 * 8192 + s2 * 512 + u2
  BY SMT
<1> QED BY <1>3, <1>4, <1>5

(* A frame keeps its address on the way exactly if the address is one the two *)
(* bytes of ArtDmx.serialize have room for: net 0, a sub-net below 8, and a    *)
(* universe whose bits 4 to 7 are zero.                                        *)
THEOREM CarriedArrive == \A a \in PortAddresses : Arrives(a) = a <=> Carried(a)
<1> SUFFICES ASSUME NEW a \in PortAddresses PROVE Arrives(a) = a <=> Carried(a)
  OBVIOUS
<1>1. PICK t \in 0..15, s \in 0..15, u \in 0..511 : a = Of(t, s, u)
  BY Fields
<1> DEFINE h == ((2 * s) + (u \div 256)) % 16
           l == u % 16
           m == h * 256 + l
<1>2. Number(a) = t * 8192 + s * 512 + u
  BY <1>1 DEF Number, Of
<1>3. SubUni(a) = l /\ Net(a) = h
  BY <1>2, LowByte, HighByte DEF SubUni, Net
<1>4. Arrives(a) = Parse(m)
  BY <1>3 DEF Arrives, FromBytes
<1>5. h \in 0..15 /\ l \in 0..15
  BY BytesRead, Remainders
<1>6. h \div 2 = s % 8 /\ h % 2 = u \div 256
  BY BytesRead
<1> HIDE DEF h, l
<1>7. m \div 8192 = 0 /\ m \div 512 = h \div 2 /\ m % 512 = ((h % 2) * 256) + l
  BY <1>5, PacketRead
<1> HIDE DEF m
<1>8. 0 % 16 = 0 /\ (s % 8) % 16 = s % 8
  BY Remainders, SMT
<1>9. Parse(m) = Of(0, s % 8, ((u \div 256) * 256) + l)
  BY <1>6, <1>7, <1>8 DEF Parse, Of
<1>10. Parse(m) = a <=> t = 0 /\ s % 8 = s /\ ((u \div 256) * 256) + l = u
  BY <1>1, <1>9 DEF Of
<1>11. Carried(a) <=> t = 0 /\ s < 8 /\ u % 256 < 16
  BY <1>1 DEF Carried, Of
<1> QED BY <1>4, <1>10, <1>11, Remainders DEF l

-----------------------------------------------------------------------------
(* The input flag.  Only frames, time and the tasks touch what it rests on.  *)
OfHosts(f) == f = [h \in Hosts |-> f[h]]

PortInv(h, a) ==
    /\ age[h][a] < FlagTime => received[h][a]
    /\ received[h][a] => \/ \E t \in flagTasks[h][a] : age[h][a] + t >= FlagTime
                         \/ MayHaveRaised(h) /\ age[h][a] = FlagTime

FlagInv ==
    /\ own \in [Hosts -> SUBSET PortAddresses] /\ own \in Setups \cup {NoPorts}
    /\ OfHosts(received) /\ OfHosts(age) /\ OfHosts(flagTasks)
    /\ \A h \in Hosts :
         /\ received[h] \in [own[h] -> BOOLEAN]
         /\ age[h] \in [own[h] -> 0..FlagTime]
         /\ flagTasks[h] \in [own[h] -> SUBSET (0..FlagTime)]
         /\ \A a \in own[h] : PortInv(h, a)

LEMMA FlagInit == Init => FlagInv
<1> SUFFICES ASSUME Init PROVE FlagInv
  OBVIOUS
<1>1. own \in [Hosts -> SUBSET PortAddresses] /\ own \in Setups \cup {NoPorts}
  BY SetupsAssumption DEF Init, NoPorts
<1>2. /\ received = [h \in Hosts |-> [a \in own[h] |-> FALSE]]
      /\ age = [h \in Hosts |-> [a \in own[h] |-> FlagTime]]
      /\ flagTasks = [h \in Hosts |-> [a \in own[h] |-> {}]]
  BY DEF Init
<1>3. OfHosts(received) /\ OfHosts(age) /\ OfHosts(flagTasks)
  BY <1>2 DEF OfHosts
<1>4. ASSUME NEW h \in Hosts
      PROVE  /\ received[h] \in [own[h] -> BOOLEAN]
             /\ age[h] \in [own[h] -> 0..FlagTime]
             /\ flagTasks[h] \in [own[h] -> SUBSET (0..FlagTime)]
             /\ \A a \in own[h] : PortInv(h, a)
  BY <1>2, FlagTimeAssumption DEF PortInv
<1> QED BY <1>1, <1>3, <1>4 DEF FlagInv

(* One port changes. *)
LEMMA FlagAt ==
    ASSUME FlagInv, own' = own, NEW h \in Hosts, NEW a \in own[h],
           NEW r \in BOOLEAN, NEW n \in 0..FlagTime, NEW T \in SUBSET (0..FlagTime),
           received' = [received EXCEPT ![h][a] = r],
           age' = [age EXCEPT ![h][a] = n],
           flagTasks' = [flagTasks EXCEPT ![h][a] = T],
           n < FlagTime => r,
           r => (\E t \in T : n + t >= FlagTime) \/ (MayHaveRaised(h)' /\ n = FlagTime),
           \A g \in Hosts : MayHaveRaised(g) => MayHaveRaised(g)'
    PROVE  FlagInv'
<1>1. OfHosts(received) /\ OfHosts(age) /\ OfHosts(flagTasks)
  BY DEF FlagInv
<1>2. DOMAIN received = Hosts /\ DOMAIN age = Hosts /\ DOMAIN flagTasks = Hosts
  BY <1>1 DEF OfHosts
<1>3. OfHosts(received)' /\ OfHosts(age)' /\ OfHosts(flagTasks)'
  BY <1>2 DEF OfHosts
<1>4. ASSUME NEW g \in Hosts
      PROVE  /\ received'[g] = IF g = h THEN [received[g] EXCEPT ![a] = r] ELSE received[g]
             /\ age'[g] = IF g = h THEN [age[g] EXCEPT ![a] = n] ELSE age[g]
             /\ flagTasks'[g] = IF g = h THEN [flagTasks[g] EXCEPT ![a] = T] ELSE flagTasks[g]
  BY <1>2
<1>5. ASSUME NEW g \in Hosts
      PROVE  /\ received'[g] \in [own[g] -> BOOLEAN]
             /\ age'[g] \in [own[g] -> 0..FlagTime]
             /\ flagTasks'[g] \in [own[g] -> SUBSET (0..FlagTime)]
             /\ \A b \in own[g] : PortInv(g, b)'
  <2>1. /\ received[g] \in [own[g] -> BOOLEAN]
        /\ age[g] \in [own[g] -> 0..FlagTime]
        /\ flagTasks[g] \in [own[g] -> SUBSET (0..FlagTime)]
        /\ \A b \in own[g] : PortInv(g, b)
    BY DEF FlagInv
  <2>2. CASE g # h
    BY <1>4, <2>1, <2>2 DEF PortInv
  <2>3. CASE g = h
    <3>1. /\ received'[g] = [received[g] EXCEPT ![a] = r]
          /\ age'[g] = [age[g] EXCEPT ![a] = n]
          /\ flagTasks'[g] = [flagTasks[g] EXCEPT ![a] = T]
      BY <1>4, <2>3
    <3>2. ASSUME NEW b \in own[g] PROVE PortInv(g, b)'
      <4>1. CASE b = a
        <5>1. received'[g][b] = r /\ age'[g][b] = n /\ flagTasks'[g][b] = T
          BY <2>1, <3>1, <4>1
        <5> QED BY <2>3, <5>1 DEF PortInv
      <4>2. CASE b # a
        <5>1. /\ received'[g][b] = received[g][b] /\ age'[g][b] = age[g][b]
              /\ flagTasks'[g][b] = flagTasks[g][b]
          BY <2>1, <3>1, <3>2, <4>2
        <5>2. PortInv(g, b)
          BY <2>1, <3>2
        <5> QED BY <5>1, <5>2 DEF PortInv
      <4> QED BY <4>1, <4>2
    <3> QED BY <2>1, <3>1, <3>2
  <2> QED BY <2>2, <2>3
<1>6. own' \in [Hosts -> SUBSET PortAddresses] /\ own' \in Setups \cup {NoPorts}
  BY DEF FlagInv
<1> QED BY <1>3, <1>5, <1>6 DEF FlagInv, NoPorts

(* A task wakes up: if its port was heard of while it slept, another one     *)
(* still sleeps.                                                             *)
LEMMA FlagWake ==
    ASSUME FlagInv, NEW h \in Hosts, NEW a \in own[h], DisableInputFlag(h, a),
           \A g \in Hosts : MayHaveRaised(g) => MayHaveRaised(g)'
    PROVE  FlagInv'
<1> DEFINE r == received[h][a] /\ ~Outlived(h, a)
           n == age[h][a]
           T == flagTasks[h][a] \ {0}
<1>1. /\ received[h] \in [own[h] -> BOOLEAN] /\ age[h] \in [own[h] -> 0..FlagTime]
      /\ flagTasks[h] \in [own[h] -> SUBSET (0..FlagTime)] /\ PortInv(h, a)
      /\ OfHosts(age) /\ OfHosts(received) /\ OfHosts(flagTasks)
  BY DEF FlagInv
<1>2. own' = own /\ age' = age /\ flagTasks' = [flagTasks EXCEPT ![h][a] = T]
  BY DEF DisableInputFlag
<1>3. received' = [received EXCEPT ![h][a] = r]
  BY DEF DisableInputFlag
<1>4. age' = [age EXCEPT ![h][a] = n]
  BY <1>1, <1>2 DEF OfHosts
<1>5. r \in BOOLEAN /\ n \in 0..FlagTime /\ T \in SUBSET (0..FlagTime)
  BY <1>1
<1>6. n < FlagTime => r
  <2>1. n \in Int /\ FlagTime \in Int
    BY <1>5, FlagTimeAssumption
  <2>2. ASSUME n < FlagTime PROVE received[h][a] /\ ~Outlived(h, a)
    BY <1>1, <2>1, <2>2 DEF PortInv, Outlived
  <2> QED BY <2>2
<1>7. r => \E t \in T : n + t >= FlagTime
  <2> SUFFICES ASSUME r PROVE \E t \in T : n + t >= FlagTime
    OBVIOUS
  <2>1. n < FlagTime
    BY <1>1, FlagTimeAssumption DEF Outlived
  <2>2. PICK t \in flagTasks[h][a] : n + t >= FlagTime
    BY <1>1, <1>5, <2>1, FlagTimeAssumption DEF PortInv
  <2> QED BY <1>1, <2>1, <2>2, FlagTimeAssumption
<1> HIDE DEF r, n, T
<1> QED BY <1>2, <1>3, <1>4, <1>5, <1>6, <1>7, FlagAt

LEMMA FlagTick ==
    ASSUME FlagInv, Tick, \A g \in Hosts : MayHaveRaised(g) => MayHaveRaised(g)'
    PROVE  FlagInv'
<1>1. /\ own' = own /\ received' = received
      /\ age' = [h \in Hosts |-> [a \in own[h] |-> IF age[h][a] < FlagTime THEN age[h][a] + 1 ELSE FlagTime]]
      /\ flagTasks' = [h \in Hosts |-> [a \in own[h] |-> {t - 1 : t \in flagTasks[h][a]}]]
      /\ \A h \in Hosts : \A a \in own[h] : 0 \notin flagTasks[h][a]
  BY DEF Tick
<1>2. OfHosts(received)' /\ OfHosts(age)' /\ OfHosts(flagTasks)'
  BY <1>1 DEF FlagInv, OfHosts
<1>3. ASSUME NEW h \in Hosts, NEW a \in own[h]
      PROVE  age'[h][a] \in 0..FlagTime /\ flagTasks'[h][a] \in SUBSET (0..FlagTime) /\ PortInv(h, a)'
  <2>1. /\ age[h][a] \in 0..FlagTime /\ flagTasks[h][a] \in SUBSET (0..FlagTime) /\ PortInv(h, a)
        /\ 0 \notin flagTasks[h][a]
    BY <1>1 DEF FlagInv
  <2>2. /\ age'[h][a] = IF age[h][a] < FlagTime THEN age[h][a] + 1 ELSE FlagTime
        /\ flagTasks'[h][a] = {t - 1 : t \in flagTasks[h][a]}
        /\ received'[h][a] = received[h][a]
    BY <1>1
  <2>3. age'[h][a] \in 0..FlagTime /\ flagTasks'[h][a] \in SUBSET (0..FlagTime)
    BY <2>1, <2>2, FlagTimeAssumption
  <2>4. age'[h][a] < FlagTime => received'[h][a]
    BY <2>1, <2>2, FlagTimeAssumption DEF PortInv
  <2>5. ASSUME received'[h][a]
        PROVE  \/ \E t \in flagTasks'[h][a] : age'[h][a] + t >= FlagTime
               \/ MayHaveRaised(h)' /\ age'[h][a] = FlagTime
    <3>1. CASE \E t \in flagTasks[h][a] : age[h][a] + t >= FlagTime
      <4>1. PICK t \in flagTasks[h][a] : age[h][a] + t >= FlagTime
        BY <3>1
      <4>2. t - 1 \in flagTasks'[h][a] /\ t \in 1..FlagTime
        BY <2>1, <2>2
      <4>3. age'[h][a] + (t - 1) >= FlagTime
        BY <2>1, <2>2, <4>1, <4>2, FlagTimeAssumption
      <4> QED BY <4>2, <4>3
    <3>2. CASE MayHaveRaised(h) /\ age[h][a] = FlagTime
      <4>1. age'[h][a] = FlagTime
        BY <2>2, <3>2, FlagTimeAssumption
      <4> QED BY <3>2, <4>1
    <3> QED BY <2>1, <2>2, <2>5, <3>1, <3>2 DEF PortInv
  <2> QED BY <2>3, <2>4, <2>5 DEF PortInv
<1>4. ASSUME NEW h \in Hosts
      PROVE  /\ received'[h] \in [own[h] -> BOOLEAN]
             /\ age'[h] \in [own[h] -> 0..FlagTime]
             /\ flagTasks'[h] \in [own[h] -> SUBSET (0..FlagTime)]
  <2>1. received[h] \in [own[h] -> BOOLEAN]
    BY DEF FlagInv
  <2>2. age'[h] = [a \in own[h] |-> age'[h][a]] /\ flagTasks'[h] = [a \in own[h] |-> flagTasks'[h][a]]
    BY <1>1
  <2> QED BY <1>1, <1>3, <2>1, <2>2
<1> QED BY <1>1, <1>2, <1>3, <1>4 DEF FlagInv, NoPorts

-----------------------------------------------------------------------------
(* Induction over the natural numbers, for a set instead of a predicate.     *)
LEMMA NatSetInduction ==
    ASSUME NEW T \in SUBSET Nat, 0 \in T, \A n \in T : n + 1 \in T
    PROVE  T = Nat
<1> SUFFICES ASSUME T # Nat PROVE FALSE
  OBVIOUS
<1> DEFINE R == OpToRel(<, Nat)
<1>1. PICK x \in Nat \ T : \A y \in Nat \ T : ~(<<y, x>> \in R)
  <2>1. IsWellFoundedOn(R, Nat)
    BY NatLessThanWellFounded
  <2> HIDE DEF R
  <2> QED BY <2>1, WFMin
<1>2. \A y \in Nat \ T : ~(y < x)
  BY <1>1 DEF OpToRel
<1> QED BY <1>2

-----------------------------------------------------------------------------
(* Packets.  A layout is a sequence of fields; what serialize appends is an  *)
(* entry for each of them but the gaps, one after the other.                 *)
Layout(L) == DOMAIN L = 1..Len(L) /\ Len(L) \in Nat /\ \A j \in 1..Len(L) : L[j].width \in Nat \ {0}
Gapless(L, j) == L[j].form # "gap"
AllFit(L, p) == \A i \in DOMAIN L : L[i].form = "gap" \/ Fits(L[i], p[L[i].name])

Entry(L, p, at, j) ==
    [at |-> at, form |-> L[j].form, width |-> L[j].width, value |-> Appended(L[j], p[L[j].name])]

(* Where the fields of a layout are. *)
Offsets(off, L) ==
    /\ off \in [0..Len(L) -> Nat] /\ off[0] = Header
    /\ \A j \in 1..Len(L) : off[j] = off[j - 1] + L[j].width

LEMMA OffsetsGrow ==
    ASSUME NEW L, Layout(L), NEW off, Offsets(off, L)
    PROVE  \A i, j \in 0..Len(L) : i < j => off[i] < off[j]
<1> DEFINE n == Len(L)
           T == {j \in Nat : j <= n => \A i \in 0..n : i < j => off[i] < off[j]}
<1>1. n \in Nat /\ \A j \in 0..n : off[j] \in Nat
  BY DEF Layout, Offsets
<1>2. 0 \in T
  OBVIOUS
<1>3. ASSUME NEW j \in T PROVE j + 1 \in T
  <2> SUFFICES ASSUME j + 1 <= n, NEW i \in 0..n, i < j + 1 PROVE off[i] < off[j + 1]
    OBVIOUS
  <2>1. j + 1 \in 1..n /\ j \in 0..n
    BY <1>1
  <2>2. off[j + 1] = off[j] + L[j + 1].width /\ L[j + 1].width \in Nat \ {0}
    BY <2>1 DEF Offsets, Layout
  <2>3. i = j \/ off[i] < off[j]
    BY <2>1
  <2> QED BY <1>1, <2>1, <2>2, <2>3
<1> HIDE DEF T
<1>4. T = Nat
  <2>1. T \in SUBSET Nat
    BY DEF T
  <2> QED BY <1>2, <1>3, <2>1, NatSetInduction
<1> QED BY <1>1, <1>4 DEF T

-----------------------------------------------------------------------------
(* What serialize has appended. *)
WriteRun(g, n, layout, p) ==
    g = [i \in 0..n |->
            IF i = 0 THEN [at |-> Header, fields |-> <<>>]
            ELSE LET s == g[i - 1]
                     field == layout[i]
                 IN  [at |-> s.at + field.width,
                      fields |-> IF field.form = "gap" THEN s.fields
                                 ELSE Append(s.fields,
                                             [at |-> s.at, form |-> field.form, width |-> field.width,
                                              value |-> Appended(field, p[field.name])])]]

LEMMA WriteRunExists ==
    ASSUME NEW layout, NEW p
    PROVE  \A n \in Nat : \E g : WriteRun(g, n, layout, p)
<1> DEFINE next(s, i) ==
             LET field == layout[i]
             IN  [at |-> s.at + field.width,
                  fields |-> IF field.form = "gap" THEN s.fields
                             ELSE Append(s.fields,
                                         [at |-> s.at, form |-> field.form, width |-> field.width,
                                          value |-> Appended(field, p[field.name])])]
           first == [at |-> Header, fields |-> <<>>]
           Run(g, n) == g = [i \in 0..n |-> IF i = 0 THEN first ELSE next(g[i - 1], i)]
           T == {n \in Nat : \E g : Run(g, n)}
<1>1. \A g, n : Run(g, n) <=> WriteRun(g, n, layout, p)
  BY DEF WriteRun
<1> HIDE DEF next, first
<1>2. 0 \in T
  <2> DEFINE g == [i \in 0..0 |-> first]
  <2>1. Run(g, 0)
    OBVIOUS
  <2> QED BY <2>1
<1>3. ASSUME NEW n \in T PROVE n + 1 \in T
  <2>1. PICK g : Run(g, n)
    OBVIOUS
  <2> DEFINE h == [i \in 0..(n + 1) |-> IF i <= n THEN g[i] ELSE next(g[n], n + 1)]
  <2>2. ASSUME NEW i \in 0..(n + 1) PROVE h[i] = IF i = 0 THEN first ELSE next(h[i - 1], i)
    <3>1. CASE i = n + 1
      BY <3>1
    <3>2. CASE i \in 0..n
      BY <2>1, <3>2
    <3> QED BY <3>1, <3>2
  <2>3. Run(h, n + 1)
    BY <2>2
  <2> HIDE DEF h, Run
  <2> QED BY <2>3
<1>4. T = Nat
  <2>1. T \in SUBSET Nat
    OBVIOUS
  <2> HIDE DEF T
  <2> QED BY <1>2, <1>3, <2>1, NatSetInduction
<1> QED BY <1>1, <1>4

WrittenAlong(w, L, p, off) ==
    /\ Offsets(off, L) /\ w.size = off[Len(L)]
    /\ \A i \in DOMAIN w.fields : \E j \in 1..Len(L) : Gapless(L, j) /\ w.fields[i] = Entry(L, p, off[j - 1], j)
    /\ \A j \in 1..Len(L) : Gapless(L, j) => \E i \in DOMAIN w.fields : w.fields[i] = Entry(L, p, off[j - 1], j)

LEMMA WriteFields ==
    ASSUME NEW op, NEW L, Layout(L), NEW p, AllFit(L, p)
    PROVE  Write(op, L, p).op = op /\ \E off : WrittenAlong(Write(op, L, p), L, p, off)
<1> DEFINE n == Len(L)
           g == CHOOSE g : WriteRun(g, n, L, p)
<1>1. n \in Nat /\ DOMAIN L = 1..n /\ \A j \in 1..n : L[j].width \in Nat \ {0}
  BY DEF Layout
<1>2. \E r : WriteRun(r, n, L, p)
  BY <1>1, WriteRunExists
<1>3. WriteRun(g, n, L, p)
  BY <1>2
<1>4. Write(op, L, p) = [op |-> op, size |-> g[n].at, fields |-> g[n].fields]
  BY DEF Write, WriteRun, AllFit
<1> HIDE DEF g
<1> DEFINE off == [i \in 0..n |-> g[i].at]
           E(j) == Entry(L, p, g[j - 1].at, j)
           S == {E(j) : j \in 1..n}
<1>5. /\ g[0].at = Header /\ g[0].fields = <<>>
      /\ \A j \in 1..n : /\ g[j].at = g[j - 1].at + L[j].width
                         /\ g[j].fields = IF L[j].form = "gap" THEN g[j - 1].fields
                                          ELSE Append(g[j - 1].fields, E(j))
  <2>1. 0 \in 0..n /\ g[0] = [at |-> Header, fields |-> <<>>]
    BY <1>1, <1>3 DEF WriteRun
  <2>2. ASSUME NEW j \in 1..n
        PROVE  g[j] = [at |-> g[j - 1].at + L[j].width,
                       fields |-> IF L[j].form = "gap" THEN g[j - 1].fields
                                  ELSE Append(g[j - 1].fields, E(j))]
    <3>1. j \in 0..n /\ j # 0
      BY <1>1
    <3> QED BY <1>3, <3>1 DEF WriteRun, Entry
  <2> HIDE DEF E
  <2>3. g[0].at = Header /\ g[0].fields = <<>>
    BY <2>1
  <2>4. ASSUME NEW j \in 1..n
        PROVE  /\ g[j].at = g[j - 1].at + L[j].width
               /\ g[j].fields = IF L[j].form = "gap" THEN g[j - 1].fields
                                ELSE Append(g[j - 1].fields, E(j))
    <3> DEFINE at == g[j - 1].at + L[j].width
               fields == IF L[j].form = "gap" THEN g[j - 1].fields ELSE Append(g[j - 1].fields, E(j))
    <3>1. g[j] = [at |-> at, fields |-> fields]
      BY <2>2
    <3> HIDE DEF at, fields
    <3>2. g[j].at = at /\ g[j].fields = fields
      BY <3>1
    <3> QED BY <3>2 DEF at, fields
  <2> QED BY <2>3, <2>4
<1> HIDE DEF E
<1> DEFINE P(k) == /\ g[k].at \in Nat
                   /\ g[k].fields \in Seq(S)
                   /\ \A i \in DOMAIN g[k].fields : \E j \in 1..k : Gapless(L, j) /\ g[k].fields[i] = E(j)
                   /\ \A j \in 1..k : Gapless(L, j) => \E i \in DOMAIN g[k].fields : g[k].fields[i] = E(j)
           T == {k \in Nat : k <= n => P(k)}
<1>6. 0 \in T
  <2>1. <<>> \in Seq(S) /\ DOMAIN <<>> = {} /\ Header \in Nat
    BY DEF Header
  <2>2. g[0].at \in Nat /\ g[0].fields = <<>> /\ \A j \in 1..0 : FALSE
    BY <1>5, <2>1
  <2> HIDE DEF S
  <2>3. P(0)
    BY <2>1, <2>2
  <2> QED BY <2>3
<1>7. ASSUME NEW k \in T PROVE k + 1 \in T
  <2> SUFFICES ASSUME k + 1 <= n PROVE P(k + 1)
    OBVIOUS
  <2>1. P(k) /\ k + 1 \in 1..n /\ \A j \in 1..(k + 1) : j \in 1..k \/ j = k + 1
    BY <1>1
  <2>2. /\ g[k + 1].at = g[k].at + L[k + 1].width
        /\ g[k + 1].fields = IF L[k + 1].form = "gap" THEN g[k].fields ELSE Append(g[k].fields, E(k + 1))
    BY <1>5, <2>1
  <2>3. g[k + 1].at \in Nat
    BY <1>1, <2>1, <2>2
  <2> DEFINE f == g[k].fields
             h == g[k + 1].fields
  <2>4. CASE L[k + 1].form = "gap"
    <3>1. h = f
      BY <2>2, <2>4
    <3> HIDE DEF f, h
    <3> QED BY <2>1, <2>3, <2>4, <3>1 DEF f, h, Gapless
  <2>5. CASE L[k + 1].form # "gap"
    <3>1. h = Append(f, E(k + 1)) /\ f \in Seq(S) /\ E(k + 1) \in S
      BY <2>1, <2>2, <2>5
    <3> HIDE DEF S
    <3>2. /\ h \in Seq(S) /\ Len(f) \in Nat /\ DOMAIN f = 1..Len(f)
          /\ DOMAIN h = 1..(Len(f) + 1)
          /\ \A i \in DOMAIN f : h[i] = f[i]
          /\ h[Len(f) + 1] = E(k + 1)
      <4> HIDE DEF f, h
      <4> QED BY <3>1
    <3>3. DOMAIN h = DOMAIN f \cup {Len(f) + 1}
      <4> HIDE DEF f, h
      <4> QED BY <3>2
    <3>4. \A i \in DOMAIN f : \E j \in 1..k : Gapless(L, j) /\ f[i] = E(j)
      BY <2>1
    <3>5. \A j \in 1..k : Gapless(L, j) => \E i \in DOMAIN f : f[i] = E(j)
      BY <2>1
    <3> HIDE DEF f, h
    <3>6. \A i \in DOMAIN h : \E j \in 1..(k + 1) : Gapless(L, j) /\ h[i] = E(j)
      <4> SUFFICES ASSUME NEW i \in DOMAIN h PROVE \E j \in 1..(k + 1) : Gapless(L, j) /\ h[i] = E(j)
        OBVIOUS
      <4>1. CASE i \in DOMAIN f
        BY <3>2, <3>4, <4>1
      <4>2. CASE i = Len(f) + 1
        BY <2>5, <3>2, <4>2 DEF Gapless
      <4> QED BY <3>3, <4>1, <4>2
    <3>7. \A j \in 1..(k + 1) : Gapless(L, j) => \E i \in DOMAIN h : h[i] = E(j)
      <4> SUFFICES ASSUME NEW j \in 1..(k + 1), Gapless(L, j) PROVE \E i \in DOMAIN h : h[i] = E(j)
        OBVIOUS
      <4>1. CASE j \in 1..k
        BY <3>2, <3>3, <3>5, <4>1
      <4>2. CASE j = k + 1
        BY <3>2, <3>3, <4>2
      <4> QED BY <2>1, <4>1, <4>2
    <3> QED BY <2>3, <3>2, <3>6, <3>7 DEF h
  <2> QED BY <2>4, <2>5
<1>8. \A k \in 0..n : P(k)
  <2> HIDE DEF P
  <2>1. T \in SUBSET Nat
    OBVIOUS
  <2> HIDE DEF T
  <2>2. T = Nat
    BY <1>6, <1>7, <2>1, NatSetInduction
  <2> QED BY <1>1, <2>2 DEF T
<1>9. Offsets(off, L)
  <2>1. \A k \in 0..n : g[k].at \in Nat
    BY <1>8
  <2> HIDE DEF P
  <2>2. 0 \in 0..n /\ \A j \in 1..n : j \in 0..n /\ j - 1 \in 0..n
    BY <1>1
  <2> QED BY <1>5, <2>1, <2>2 DEF Offsets
<1>10. \A j \in 1..n : E(j) = Entry(L, p, off[j - 1], j)
  BY <1>1 DEF E
<1>11. P(n) /\ off[n] = g[n].at
  <2>1. n \in 0..n
    BY <1>1
  <2> HIDE DEF P
  <2> QED BY <1>8, <2>1
<1> HIDE DEF off
<1> DEFINE w == Write(op, L, p)
<1>12. w = [op |-> op, size |-> off[n], fields |-> w.fields] /\ w.fields = g[n].fields
  BY <1>4, <1>11
<1> HIDE DEF w
<1>13. /\ \A i \in DOMAIN w.fields : \E j \in 1..n : Gapless(L, j) /\ w.fields[i] = Entry(L, p, off[j - 1], j)
       /\ \A j \in 1..n : Gapless(L, j) => \E i \in DOMAIN w.fields : w.fields[i] = Entry(L, p, off[j - 1], j)
  BY <1>10, <1>11, <1>12
<1>14. w.op = op /\ w.size = off[n]
  BY <1>12
<1>15. WrittenAlong(w, L, p, off)
  BY <1>9, <1>13, <1>14 DEF WrittenAlong
<1> QED BY <1>14, <1>15 DEF w

-----------------------------------------------------------------------------
(* What deserialize finds.  A packet that was written along a layout is read *)
(* along the same one, or a beginning of it, as it was written.              *)
Taken(field, v) ==
    IF field.form = "text" /\ Appended(field, v) = <<0>> THEN Nuls ELSE Appended(field, v)

LEMMA Consumes ==
    ASSUME NEW L, Layout(L), NEW p, NEW off, NEW w, WrittenAlong(w, L, p, off),
           NEW j \in 1..Len(L), Gapless(L, j)
    PROVE  Consumed(L[j], w, off[j - 1]) = Taken(L[j], p[L[j].name]) /\ off[j] <= w.size
<1> DEFINE at == off[j - 1]
           v == Appended(L[j], p[L[j].name])
           there == {i \in DOMAIN w.fields : w.fields[i].at = at /\ w.fields[i].form = L[j].form
                                               /\ w.fields[i].width = L[j].width}
           c == CHOOSE i \in there : TRUE
<1>1. Len(L) \in Nat /\ j - 1 \in 0..Len(L) /\ j \in 0..Len(L) /\ Len(L) \in 0..Len(L)
  BY DEF Layout
<1>2. PICK i \in DOMAIN w.fields : w.fields[i] = Entry(L, p, off[j - 1], j)
  BY DEF WrittenAlong
<1>3. i \in there
  BY <1>2 DEF Entry
<1>4. c \in there
  BY <1>3
<1>5. PICK k \in 1..Len(L) : w.fields[c] = Entry(L, p, off[k - 1], k)
  BY <1>4 DEF WrittenAlong
<1>6. off[k - 1] = off[j - 1]
  <2>1. w.fields[c].at = off[j - 1]
    BY <1>4
  <2> HIDE DEF c
  <2> QED BY <1>5, <2>1 DEF Entry
<1>7. k = j
  <2>1. \A x, y \in 0..Len(L) : x < y => off[x] < off[y]
    BY OffsetsGrow DEF WrittenAlong
  <2>2. \A x \in 0..Len(L) : off[x] \in Nat
    BY DEF WrittenAlong, Offsets
  <2>3. k - 1 \in 0..Len(L)
    BY <1>1
  <2>4. ~(k - 1 < j - 1) /\ ~(j - 1 < k - 1)
    BY <1>1, <1>6, <2>1, <2>2, <2>3
  <2> QED BY <1>1, <2>4
<1>8. w.fields[c].value = v
  BY <1>5, <1>7 DEF Entry
<1>9. off[j] <= w.size
  <2>1. \A x, y \in 0..Len(L) : x < y => off[x] < off[y]
    BY OffsetsGrow DEF WrittenAlong
  <2>2. \A x \in 0..Len(L) : off[x] \in Nat
    BY DEF WrittenAlong, Offsets
  <2>3. off[j] < off[Len(L)] \/ j = Len(L)
    BY <1>1, <2>1
  <2>4. off[j] \in Nat /\ off[Len(L)] \in Nat
    BY <1>1, <2>2
  <2>5. off[j] <= off[Len(L)]
    BY <2>3, <2>4
  <2> QED BY <2>5 DEF WrittenAlong
<1> HIDE DEF v
<1>10. Consumed(L[j], w, off[j - 1]) = IF L[j].form = "text" /\ v = <<0>> THEN Nuls ELSE v
  <2>1. there # {}
    BY <1>3
  <2> QED BY <1>8, <2>1 DEF Consumed
<1> QED BY <1>9, <1>10 DEF v, Taken

ReadRun(h, n, layout, w) ==
    h = [i \in 0..n |->
            IF i = 0 THEN [at |-> Header, got |-> [m \in {} |-> <<>>]]
            ELSE LET s == h[i - 1]
                     field == layout[i]
                     end == s.at + field.width
                 IN  IF field.form = "gap" THEN [s EXCEPT !.at = end]
                     ELSE IF end > w.size THEN s
                     ELSE [at |-> end,
                           got |-> [m \in DOMAIN s.got \cup {field.name} |->
                                      IF m = field.name THEN Consumed(field, w, s.at) ELSE s.got[m]]]]

LEMMA ReadRunExists ==
    ASSUME NEW layout, NEW w
    PROVE  \A n \in Nat : \E g : ReadRun(g, n, layout, w)
<1> DEFINE next(s, i) ==
             LET field == layout[i]
                 end == s.at + field.width
             IN  IF field.form = "gap" THEN [s EXCEPT !.at = end]
                 ELSE IF end > w.size THEN s
                 ELSE [at |-> end,
                       got |-> [m \in DOMAIN s.got \cup {field.name} |->
                                  IF m = field.name THEN Consumed(field, w, s.at) ELSE s.got[m]]]
           first == [at |-> Header, got |-> [m \in {} |-> <<>>]]
           Run(g, n) == g = [i \in 0..n |-> IF i = 0 THEN first ELSE next(g[i - 1], i)]
           T == {n \in Nat : \E g : Run(g, n)}
<1>1. \A g, n : Run(g, n) <=> ReadRun(g, n, layout, w)
  BY DEF ReadRun
<1> HIDE DEF next, first
<1>2. 0 \in T
  <2> DEFINE g == [i \in 0..0 |-> first]
  <2>1. Run(g, 0)
    OBVIOUS
  <2> QED BY <2>1
<1>3. ASSUME NEW n \in T PROVE n + 1 \in T
  <2>1. PICK g : Run(g, n)
    OBVIOUS
  <2> DEFINE h == [i \in 0..(n + 1) |-> IF i <= n THEN g[i] ELSE next(g[n], n + 1)]
  <2>2. ASSUME NEW i \in 0..(n + 1) PROVE h[i] = IF i = 0 THEN first ELSE next(h[i - 1], i)
    <3>1. CASE i = n + 1
      BY <3>1
    <3>2. CASE i \in 0..n
      BY <2>1, <3>2
    <3> QED BY <3>1, <3>2
  <2>3. Run(h, n + 1)
    BY <2>2
  <2> HIDE DEF h, Run
  <2> QED BY <2>3
<1>4. T = Nat
  <2>1. T \in SUBSET Nat
    OBVIOUS
  <2> HIDE DEF T
  <2> QED BY <1>2, <1>3, <2>1, NatSetInduction
<1> QED BY <1>1, <1>4

Distinct(R) == \A i, j \in 1..Len(R) : Gapless(R, i) /\ Gapless(R, j) /\ R[i].name = R[j].name => i = j
ReadAlong(got, R, p) ==
    /\ \A x : x \in DOMAIN got <=> \E j \in 1..Len(R) : Gapless(R, j) /\ R[j].name = x
    /\ \A j \in 1..Len(R) : Gapless(R, j) => got[R[j].name] = Taken(R[j], p[R[j].name])
Beginning(R, L) == Layout(R) /\ Distinct(R) /\ Len(R) <= Len(L) /\ \A j \in 1..Len(R) : R[j] = L[j]

(* A packet that ends with its m-th field is read up to there. *)
ReadUpTo(got, R, p, m) ==
    /\ \A x : x \in DOMAIN got <=> \E j \in 1..Len(R) : j <= m /\ Gapless(R, j) /\ R[j].name = x
    /\ \A j \in 1..Len(R) : j <= m /\ Gapless(R, j) => got[R[j].name] = Taken(R[j], p[R[j].name])

LEMMA CutFields ==
    ASSUME NEW L, Layout(L), NEW R, Beginning(R, L), NEW p, NEW off, NEW w, WrittenAlong(w, L, p, off),
           NEW m \in 0..Len(L), NEW u, u.fields = w.fields, u.size = off[m]
    PROVE  ReadUpTo(Read(R, u), R, p, m)
<1> DEFINE n == Len(R)
           h == CHOOSE g : ReadRun(g, n, R, u)
<1>1. n \in Nat /\ DOMAIN R = 1..n /\ n <= Len(L) /\ Len(L) \in Nat /\ \A j \in 1..n : R[j] = L[j]
  BY DEF Beginning, Layout
<1>2. \E g : ReadRun(g, n, R, u)
  BY <1>1, ReadRunExists
<1>3. ReadRun(h, n, R, u)
  BY <1>2
<1>4. Read(R, u) = h[n].got
  BY DEF Read, ReadRun
<1> HIDE DEF h
<1>5. h[0] = [at |-> Header, got |-> [x \in {} |-> <<>>]]
  BY <1>1, <1>3 DEF ReadRun
<1>9. ASSUME NEW i \in 1..n
       PROVE  h[i] = IF R[i].form = "gap" THEN [h[i - 1] EXCEPT !.at = h[i - 1].at + R[i].width]
                     ELSE IF h[i - 1].at + R[i].width > u.size THEN h[i - 1]
                     ELSE [at |-> h[i - 1].at + R[i].width,
                           got |-> [x \in DOMAIN h[i - 1].got \cup {R[i].name} |->
                                      IF x = R[i].name THEN Consumed(R[i], u, h[i - 1].at) ELSE h[i - 1].got[x]]]
  <2>1. i \in 0..n /\ i # 0
    BY <1>1
  <2> QED BY <1>3, <2>1 DEF ReadRun
<1>6. /\ \A field, at : Consumed(field, u, at) = Consumed(field, w, at)
      /\ \A k \in 0..Len(L) : off[k] \in Nat
      /\ \A k \in 1..n : R[k].width \in Nat \ {0}
  <2> DEFINE there(fs, field, at) == {i \in DOMAIN fs : fs[i].at = at /\ fs[i].form = field.form
                                                          /\ fs[i].width = field.width}
             C(fs, field, at) ==
               IF there(fs, field, at) = {} THEN Torn
               ELSE LET v == fs[CHOOSE i \in there(fs, field, at) : TRUE].value
                    IN  IF field.form = "text" /\ v = <<0>> THEN Nuls ELSE v
  <2>1. \A x, field, at : Consumed(field, x, at) = C(x.fields, field, at)
    BY DEF Consumed
  <2> HIDE DEF C
  <2> QED BY <2>1 DEF WrittenAlong, Offsets, Beginning, Layout
<1> DEFINE P(k) == /\ h[k].at \in Nat /\ h[k] = [at |-> h[k].at, got |-> h[k].got]
                   /\ IF k <= m THEN h[k].at = off[k] ELSE h[k].at >= off[m]
                   /\ \A x : x \in DOMAIN h[k].got <=> \E j \in 1..k : j <= m /\ Gapless(R, j) /\ R[j].name = x
                   /\ \A j \in 1..k : j <= m /\ Gapless(R, j) => h[k].got[R[j].name] = Taken(R[j], p[R[j].name])
           T == {k \in Nat : k <= n => P(k)}
<1>7. P(0)
  <2>1. h[0].at = Header /\ DOMAIN h[0].got = {} /\ off[0] = Header /\ Header \in Nat
    BY <1>5 DEF WrittenAlong, Offsets, Header
  <2>2. \A j \in 1..0 : FALSE
    OBVIOUS
  <2>3. h[0] = [at |-> h[0].at, got |-> h[0].got]
    BY <1>5
  <2> QED BY <2>1, <2>2, <2>3
<1>8. ASSUME NEW k \in T PROVE k + 1 \in T
  <2> SUFFICES ASSUME k + 1 <= n PROVE P(k + 1)
    OBVIOUS
  <2>1. P(k) /\ k + 1 \in 1..n /\ k + 1 \in 1..Len(L) /\ k \in Nat /\ m \in Nat
    BY <1>1
  <2>2. \A j : j \in 1..(k + 1) <=> j \in 1..k \/ j = k + 1
    BY <2>1
  <2> DEFINE s == h[k]
             field == R[k + 1]
             end == s.at + field.width
             t == h[k + 1]
             got == [x \in DOMAIN s.got \cup {field.name} |->
                        IF x = field.name THEN Consumed(field, u, s.at) ELSE s.got[x]]
  <2>3. t = IF field.form = "gap" THEN [s EXCEPT !.at = end]
            ELSE IF end > u.size THEN s ELSE [at |-> end, got |-> got]
    <3>1. k + 1 \in 1..n /\ (k + 1) - 1 = k
      BY <2>1
    <3> QED BY <1>9, <3>1, Zenon
  <2> HIDE DEF P
  <2>5. /\ s.at \in Nat /\ s = [at |-> s.at, got |-> s.got]
        /\ IF k <= m THEN s.at = off[k] ELSE s.at >= off[m]
        /\ \A x : x \in DOMAIN s.got <=> \E j \in 1..k : j <= m /\ Gapless(R, j) /\ R[j].name = x
        /\ \A j \in 1..k : j <= m /\ Gapless(R, j) => s.got[R[j].name] = Taken(R[j], p[R[j].name])
    BY <2>1 DEF P
  <2>4. end \in Nat /\ end > s.at /\ (k + 1 <= m => end = off[k + 1])
    <3>1. off[k + 1] = off[(k + 1) - 1] + L[k + 1].width /\ (k + 1) - 1 = k
      BY <2>1 DEF WrittenAlong, Offsets
    <3>2. field.width \in Nat \ {0} /\ field.width = L[k + 1].width
      BY <1>1, <1>6, <2>1
    <3> HIDE DEF s, field
    <3> QED BY <2>1, <2>5, <3>1, <3>2
  <2>6. CASE field.form = "gap"
    <3>1. t = [at |-> end, got |-> s.got]
      <4>1. t = [s EXCEPT !.at = end]
        BY <2>3, <2>6
      <4> HIDE DEF t, s, end
      <4> QED BY <2>5, <4>1
    <3>2. ~Gapless(R, k + 1)
      BY <2>6 DEF Gapless
    <3> HIDE DEF s, t, end, field
    <3>3. t.at = end /\ t.got = s.got /\ t = [at |-> t.at, got |-> t.got]
      BY <3>1
    <3>4. IF k + 1 <= m THEN t.at = off[k + 1] ELSE t.at >= off[m]
      <4>1. ~(k + 1 <= m) => s.at >= off[m]
        <5>1. k <= m /\ ~(k + 1 <= m) => k = m
          BY <2>1
        <5> QED BY <1>6, <2>1, <2>5, <5>1
      <4> QED BY <1>6, <2>1, <2>4, <2>5, <3>3, <4>1
    <3> QED BY <2>2, <2>4, <2>5, <3>2, <3>3, <3>4 DEF P, t
  <2>7. CASE field.form # "gap" /\ k + 1 <= m
    <3>1. Gapless(R, k + 1) /\ Gapless(L, k + 1) /\ field = L[k + 1]
      BY <1>1, <2>1, <2>7 DEF Gapless
    <3>2. Consumed(L[k + 1], w, off[(k + 1) - 1]) = Taken(L[k + 1], p[L[k + 1].name])
      BY <2>1, <3>1, Consumes
    <3>3. Consumed(field, u, s.at) = Taken(field, p[field.name])
      <4>1. (k + 1) - 1 = k /\ k <= m
        BY <2>1, <2>7
      <4> QED BY <1>6, <2>5, <3>1, <3>2, <4>1
    <3>4. ~(end > u.size)
      <4>1. off[k + 1] <= off[m]
        <5>1. k + 1 \in 0..Len(L) /\ m \in 0..Len(L) /\ (k + 1 = m \/ k + 1 < m)
          BY <1>1, <2>1, <2>7
        <5>2. \A i, j \in 0..Len(L) : i < j => off[i] < off[j]
          BY OffsetsGrow DEF WrittenAlong
        <5> QED BY <1>6, <5>1, <5>2
      <4>2. off[m] \in Nat
        BY <1>6
      <4> HIDE DEF end
      <4> QED BY <2>4, <2>7, <4>1, <4>2
    <3>6. ASSUME NEW x
          PROVE x \in DOMAIN got <=> \E j \in 1..(k + 1) : j <= m /\ Gapless(R, j) /\ R[j].name = x
      <4>1. x \in DOMAIN got <=> x \in DOMAIN s.got \/ x = field.name
        OBVIOUS
      <4> HIDE DEF got, s
      <4> QED BY <2>2, <2>5, <2>7, <3>1, <4>1
    <3>7. ASSUME NEW j \in 1..(k + 1), j <= m, Gapless(R, j)
          PROVE got[R[j].name] = Taken(R[j], p[R[j].name])
      <4>1. CASE j = k + 1
        BY <3>3, <4>1
      <4>2. CASE j \in 1..k
        <5>1. R[j].name # field.name
          <6>1. j \in 1..n /\ j # k + 1
            BY <2>1, <4>2
          <6> QED BY <2>1, <3>1, <3>7, <6>1 DEF Beginning, Distinct
        <5>2. R[j].name \in DOMAIN s.got /\ s.got[R[j].name] = Taken(R[j], p[R[j].name])
          BY <2>5, <3>7, <4>2
        <5>3. got[R[j].name] = s.got[R[j].name]
          <6> HIDE DEF s, field
          <6> QED BY <5>1, <5>2
        <5> QED BY <5>2, <5>3
      <4> QED BY <2>2, <4>1, <4>2
    <3>8. t.got = got /\ t.at = end /\ t = [at |-> t.at, got |-> t.got]
      <4>1. t = [at |-> end, got |-> got]
        <5> HIDE DEF got, end
        <5> QED BY <2>3, <2>7, <3>4
      <4> HIDE DEF got, end, t
      <4> QED BY <4>1
    <3> HIDE DEF got, t, end
    <3>9. /\ t.at \in Nat /\ t = [at |-> t.at, got |-> t.got]
          /\ IF k + 1 <= m THEN t.at = off[k + 1] ELSE t.at >= off[m]
          /\ \A x : x \in DOMAIN t.got <=> \E j \in 1..(k + 1) : j <= m /\ Gapless(R, j) /\ R[j].name = x
          /\ \A j \in 1..(k + 1) : j <= m /\ Gapless(R, j) => t.got[R[j].name] = Taken(R[j], p[R[j].name])
      BY <2>4, <2>7, <3>6, <3>7, <3>8
    <3> QED BY <3>9 DEF P, t
  <2>8. CASE field.form # "gap" /\ ~(k + 1 <= m)
    <3>1. s.at >= off[m]
      <4>1. k <= m => k = m
        BY <2>1, <2>8
      <4> HIDE DEF s
      <4> QED BY <1>6, <2>1, <2>5, <4>1
    <3>2. end > u.size
      <4> HIDE DEF end, s
      <4> QED BY <1>6, <2>4, <2>5, <3>1
    <3>3. t = s
      <4> HIDE DEF t, s, end, got
      <4> QED BY <2>3, <2>8, <3>2
    <3> HIDE DEF s, t, end, field
    <3>4. /\ t.at \in Nat /\ t = [at |-> t.at, got |-> t.got]
          /\ IF k + 1 <= m THEN t.at = off[k + 1] ELSE t.at >= off[m]
          /\ \A x : x \in DOMAIN t.got <=> \E j \in 1..(k + 1) : j <= m /\ Gapless(R, j) /\ R[j].name = x
          /\ \A j \in 1..(k + 1) : j <= m /\ Gapless(R, j) => t.got[R[j].name] = Taken(R[j], p[R[j].name])
      BY <2>2, <2>5, <2>8, <3>1, <3>3
    <3> QED BY <3>4 DEF P, t
  <2> QED BY <2>6, <2>7, <2>8
<1>10. P(n)
  <2> HIDE DEF P
  <2>1. T \in SUBSET Nat /\ 0 \in T
    BY <1>7
  <2> HIDE DEF T
  <2>2. T = Nat
    BY <1>8, <2>1, NatSetInduction
  <2> QED BY <1>1, <2>2 DEF T
<1>11. ReadUpTo(h[n].got, R, p, m)
  BY <1>10 DEF ReadUpTo
<1> QED BY <1>4, <1>11

LEMMA ReadFields ==
    ASSUME NEW L, Layout(L), NEW R, Beginning(R, L), NEW p, NEW off, NEW w, WrittenAlong(w, L, p, off)
    PROVE  ReadAlong(Read(R, w), R, p)
<1>1. Len(L) \in 0..Len(L) /\ Len(R) <= Len(L) /\ Len(R) \in Nat /\ Len(L) \in Nat
  BY DEF Layout, Beginning
<1>2. w.size = off[Len(L)]
  BY DEF WrittenAlong
<1>3. ReadUpTo(Read(R, w), R, p, Len(L))
  BY <1>1, <1>2, CutFields
<1>4. \A j \in 1..Len(R) : j <= Len(L)
  BY <1>1
<1> QED BY <1>3, <1>4 DEF ReadAlong, ReadUpTo

LEMMA RoundTrip ==
    ASSUME NEW op, NEW L, Layout(L), NEW p, AllFit(L, p), NEW R, Beginning(R, L)
    PROVE  Write(op, L, p).op = op /\ ReadAlong(Read(R, Write(op, L, p)), R, p)
<1>1. Write(op, L, p).op = op /\ \E off : WrittenAlong(Write(op, L, p), L, p, off)
  BY WriteFields
<1> QED BY <1>1, ReadFields

-----------------------------------------------------------------------------
(* Frames: what is read is the data and the address the two bytes have.      *)
FramePacket(a) ==
    WriteDmx([version |-> PROTOCOL_VERSION, sequence |-> <<1>>, physical |-> <<0>>,
              data |-> Frame(a), port_address |-> a])

FrameLayout ==
    <<Msb("version"), U8("sequence"), U8("physical"), U8("sub_uni"), U8("net"), Msb("length"), Raw("data", 4)>>

LEMMA Concatenation ==
    ASSUME NEW S, NEW s \in Seq(S), NEW t \in Seq(S)
    PROVE  /\ s \o t \in Seq(S)
           /\ Len(s \o t) = Len(s) + Len(t)
           /\ \A i \in 1..(Len(s) + Len(t)) : (s \o t)[i] = IF i <= Len(s) THEN s[i] ELSE t[i - Len(s)]
OBVIOUS

LEMMA Concatenated ==
    ASSUME NEW S, NEW s \in Seq(S), NEW t \in Seq(S), NEW r \in Seq(S), Len(r) = Len(s) + Len(t),
           \A i \in 1..Len(r) : r[i] = IF i <= Len(s) THEN s[i] ELSE t[i - Len(s)]
    PROVE  s \o t = r
<1> DEFINE c == s \o t
<1>1. /\ c \in Seq(S) /\ Len(c) = Len(s) + Len(t)
      /\ \A i \in 1..(Len(s) + Len(t)) : c[i] = IF i <= Len(s) THEN s[i] ELSE t[i - Len(s)]
  BY Concatenation
<1> HIDE DEF c
<1>2. c = r
  BY <1>1
<1> QED BY <1>2 DEF c

LEMMA Concat7 ==
    ASSUME NEW a, NEW b, NEW c, NEW d, NEW e, NEW f, NEW g
    PROVE  <<a, b, c, d, e, f>> \o <<g>> = <<a, b, c, d, e, f, g>>
<1> DEFINE S == {a, b, c, d, e, f, g}
           s == <<a, b, c, d, e, f>>
           t == <<g>>
           r == <<a, b, c, d, e, f, g>>
<1>1. s \in Seq(S) /\ t \in Seq(S) /\ r \in Seq(S)
  OBVIOUS
<1>2. Len(s) = 6 /\ Len(t) = 1 /\ Len(r) = 7
  OBVIOUS
<1>3. /\ s[1] = a /\ s[2] = b /\ s[3] = c /\ s[4] = d /\ s[5] = e /\ s[6] = f /\ t[1] = g
      /\ r[1] = a /\ r[2] = b /\ r[3] = c /\ r[4] = d /\ r[5] = e /\ r[6] = f /\ r[7] = g
  OBVIOUS
<1>4. \A i \in 1..7 : i = 1 \/ i = 2 \/ i = 3 \/ i = 4 \/ i = 5 \/ i = 6 \/ i = 7
  OBVIOUS
<1> HIDE DEF s, t, r, S
<1>5. \A i \in 1..Len(r) : r[i] = IF i <= Len(s) THEN s[i] ELSE t[i - Len(s)]
  BY <1>2, <1>3, <1>4
<1>6. Len(r) = Len(s) + Len(t)
  BY <1>2
<1>7. s \o t = r
  BY <1>1, <1>5, <1>6, Concatenated
<1> QED BY <1>7 DEF s, t, r

LEMMA FrameLayouts ==
    /\ DmxWritten(4) = FrameLayout /\ DmxReadHead \o <<Raw("data", 4)>> = FrameLayout
    /\ Layout(FrameLayout) /\ Beginning(FrameLayout, FrameLayout) /\ Beginning(DmxReadHead, FrameLayout)
    /\ Len(FrameLayout) = 7 /\ Len(DmxReadHead) = 6
<1>1. DmxHead = <<Msb("version"), U8("sequence"), U8("physical"), U8("sub_uni"), U8("net"), Msb("length")>>
      /\ DmxReadHead = DmxHead
  BY DEF DmxHead, DmxReadHead
<1>2. DmxWritten(4) = FrameLayout /\ DmxReadHead \o <<Raw("data", 4)>> = FrameLayout
  BY <1>1, Concat7 DEF DmxWritten, FrameLayout
<1>3. Len(FrameLayout) = 7 /\ Len(DmxReadHead) = 6
  BY <1>1 DEF FrameLayout
<1>4. \A j \in 1..7 : j = 1 \/ j = 2 \/ j = 3 \/ j = 4 \/ j = 5 \/ j = 6 \/ j = 7
  OBVIOUS
<1>5. /\ FrameLayout[1] = Msb("version") /\ FrameLayout[2] = U8("sequence") /\ FrameLayout[3] = U8("physical")
      /\ FrameLayout[4] = U8("sub_uni") /\ FrameLayout[5] = U8("net") /\ FrameLayout[6] = Msb("length")
      /\ FrameLayout[7] = Raw("data", 4)
  BY DEF FrameLayout
<1>6. \A j \in 1..6 : j \in 1..7 /\ DmxReadHead[j] = FrameLayout[j]
  BY <1>1 DEF FrameLayout
<1>7. DOMAIN FrameLayout = 1..7 /\ DOMAIN DmxReadHead = 1..6
  BY <1>1 DEF FrameLayout
<1>8. \A j \in 1..7 : FrameLayout[j].width \in Nat \ {0}
  BY <1>4, <1>5 DEF Msb, U8, Raw, F
<1>9. Layout(FrameLayout) /\ Layout(DmxReadHead)
  BY <1>3, <1>6, <1>7, <1>8 DEF Layout
<1>10. \A i, j \in 1..7 : FrameLayout[i].name = FrameLayout[j].name => i = j
  BY <1>4, <1>5 DEF Msb, U8, Raw, F
<1>11. Distinct(FrameLayout) /\ Distinct(DmxReadHead)
  BY <1>3, <1>6, <1>10 DEF Distinct
<1> QED BY <1>2, <1>3, <1>6, <1>9, <1>11 DEF Beginning

LEMMA FrameRead ==
    ASSUME NEW a \in PortAddresses
    PROVE  /\ FramePacket(a).op = "dmx"
           /\ ReadDmx(FramePacket(a)).data = Frame(a)
           /\ ReadDmx(FramePacket(a)).port_address = Arrives(a)
<1> DEFINE r == [version |-> PROTOCOL_VERSION, sequence |-> <<1>>, physical |-> <<0>>,
                 data |-> Frame(a), port_address |-> a]
           p == With(r, [sub_uni |-> <<SubUni(a)>>, net |-> <<Net(a)>>, length |-> <<4>>])
           L == FrameLayout
           w == FramePacket(a)
           R == DmxReadHead
<1>1. PICK t \in 0..15, s \in 0..15, u \in 0..511 : a = Of(t, s, u)
  BY Fields
<1>2. /\ \A i \in DOMAIN Frame(a) : Frame(a)[i] \in 0..255
      /\ Len(Frame(a)) = 4
  <2>1. u \div 256 \in 0..255 /\ u % 256 \in 0..255
    BY SMT
  <2>2. Frame(a) = <<t, s, u \div 256, u % 256>>
    BY <1>1 DEF Frame, Of
  <2> HIDE DEF Frame
  <2>3. Len(Frame(a)) = 4 /\ \A i \in DOMAIN Frame(a) : i = 1 \/ i = 2 \/ i = 3 \/ i = 4
    BY <2>2
  <2> QED BY <2>1, <2>2, <2>3
<1>3. SubUni(a) \in 0..15 /\ Net(a) \in 0..15
  <2>1. Number(a) \in Int
    BY <1>1 DEF Number, Of
  <2> QED BY <2>1 DEF SubUni, Net
<1>4. /\ p["version"] = <<14>> /\ p["sequence"] = <<1>> /\ p["physical"] = <<0>> /\ p["data"] = Frame(a)
      /\ p["sub_uni"] = <<SubUni(a)>> /\ p["net"] = <<Net(a)>> /\ p["length"] = <<4>>
  BY DEF With, PROTOCOL_VERSION
<1>5. w = Write("dmx", L, p)
  BY <1>2, FrameLayouts DEF FramePacket, WriteDmx
<1> HIDE DEF p, w, L
<1>6. /\ L[1] = Msb("version") /\ L[2] = U8("sequence") /\ L[3] = U8("physical")
      /\ L[4] = U8("sub_uni") /\ L[5] = U8("net") /\ L[6] = Msb("length") /\ L[7] = Raw("data", 4)
      /\ DOMAIN L = 1..7
      /\ \A j \in 1..7 : j = 1 \/ j = 2 \/ j = 3 \/ j = 4 \/ j = 5 \/ j = 6 \/ j = 7
  BY DEF L, FrameLayout
<1>7. AllFit(L, p)
  <2>1. \A j \in {1, 6} : Fits(L[j], p[L[j].name])
    BY <1>6 DEF Fits, Msb, F
  <2>2. \A j \in {2, 3, 4, 5} : Fits(L[j], p[L[j].name])
    BY <1>3, <1>4, <1>6 DEF Fits, U8, F
  <2>3. Fits(L[7], p[L[7].name])
    BY <1>2, <1>4, <1>6 DEF Fits, Raw, F
  <2> QED BY <1>6, <2>1, <2>2, <2>3 DEF AllFit
<1>8. Read(R, w)["length"] = <<4>>
  <2>1. Beginning(R, L) /\ Layout(L) /\ Len(R) = 6 /\ R[6] = Msb("length")
    BY FrameLayouts DEF L, DmxReadHead
  <2>2. 6 \in 1..Len(R) /\ Gapless(R, 6) /\ R[6].name = "length"
    BY <2>1 DEF Gapless, Msb, F
  <2>3. Read(R, w)[R[6].name] = Taken(R[6], p[R[6].name])
    <3> HIDE DEF R
    <3>1. ReadAlong(Read(R, Write("dmx", L, p)), R, p)
      BY <1>7, <2>1, RoundTrip
    <3> QED BY <1>5, <2>2, <3>1 DEF ReadAlong
  <2>4. Taken(R[6], <<4>>) = <<4>>
    BY <2>1 DEF Taken, Appended, Msb, F
  <2> QED BY <1>4, <2>2, <2>3, <2>4
<1> DEFINE got == Read(L, w)
<1>9. /\ got["sub_uni"] = <<SubUni(a)>> /\ got["net"] = <<Net(a)>> /\ got["data"] = Frame(a)
      /\ "data" \in DOMAIN got /\ "port_address" \notin DOMAIN got
  <2>1. Beginning(L, L) /\ Layout(L) /\ Len(L) = 7
    BY FrameLayouts DEF L
  <2>2. ReadAlong(got, L, p)
    BY <1>5, <1>7, <2>1, RoundTrip
  <2> HIDE DEF got
  <2>3. /\ 4 \in 1..Len(L) /\ Gapless(L, 4) /\ L[4].name = "sub_uni"
        /\ 5 \in 1..Len(L) /\ Gapless(L, 5) /\ L[5].name = "net"
        /\ 7 \in 1..Len(L) /\ Gapless(L, 7) /\ L[7].name = "data"
    BY <1>6, <2>1 DEF Gapless, U8, Raw, F
  <2>4. \A v : Taken(L[4], v) = v /\ Taken(L[5], v) = v /\ Taken(L[7], v) = v
    BY <1>6 DEF Taken, Appended, U8, Raw, F
  <2>5. \A j \in 1..7 : L[j].name # "port_address"
    BY <1>6 DEF Msb, U8, Raw, F
  <2> QED BY <1>4, <2>1, <2>2, <2>3, <2>4, <2>5 DEF ReadAlong
<1>10. w.op = "dmx"
  BY <1>5, <1>7, FrameLayouts, RoundTrip DEF L
<1>11. ReadDmx(w) = With(got, [port_address |-> FromBytes(got.net[1], got.sub_uni[1])])
  <2>1. Read(DmxReadHead, w).length[1] = 4
    BY <1>8
  <2>2. DmxReadHead \o <<Raw("data", 4)>> = L
    BY FrameLayouts DEF L
  <2> QED BY <2>1, <2>2 DEF ReadDmx
<1>12. got.net[1] = Net(a) /\ got.sub_uni[1] = SubUni(a)
  BY <1>9
<1> HIDE DEF got
<1>13. ReadDmx(w) = With(got, [port_address |-> Arrives(a)])
  BY <1>11, <1>12 DEF Arrives
<1>14. ReadDmx(w).data = Frame(a) /\ ReadDmx(w).port_address = Arrives(a)
  <2>1. \A v : [port_address |-> v].port_address = v /\ DOMAIN [port_address |-> v] = {"port_address"}
    OBVIOUS
  <2> QED BY <1>9, <1>13, <2>1 DEF With
<1> QED BY <1>10, <1>14 DEF w

-----------------------------------------------------------------------------
(* Polls: they are written, and their priority and flags read.               *)
LEMMA ByteOfFlags ==
    ASSUME NEW bits, NEW up
    PROVE  \E n \in 0..255 : FlagByte(bits, up) = <<n>>
<1> DEFINE b(k) == Number1(\E n \in up : bits[n] = k)
<1>1. \A k : b(k) \in {0, 1}
  BY DEF Number1
<1>2. FlagByte(bits, up) = <<(2^0 * b(0)) + (2^1 * b(1)) + (2^2 * b(2)) + (2^3 * b(3)) + (2^4 * b(4))
                             + (2^5 * b(5)) + (2^6 * b(6)) + (2^7 * b(7))>>
  BY DEF FlagByte
<1> HIDE DEF b
<1>3. 2^0 = 1 /\ 2^1 = 2 /\ 2^2 = 4 /\ 2^3 = 8 /\ 2^4 = 16 /\ 2^5 = 32 /\ 2^6 = 64 /\ 2^7 = 128
  BY SMT
<1>4. FlagByte(bits, up) = <<b(0) + 2 * b(1) + 4 * b(2) + 8 * b(3) + 16 * b(4) + 32 * b(5) + 64 * b(6) + 128 * b(7)>>
  BY <1>1, <1>2, <1>3
<1> DEFINE n == b(0) + 2 * b(1) + 4 * b(2) + 8 * b(3) + 16 * b(4) + 32 * b(5) + 64 * b(6) + 128 * b(7)
<1>5. n \in 0..255
  BY <1>1
<1> QED BY <1>4, <1>5

PollPacket(h) ==
    WritePoll([WithTarget(ArtPoll, Bounds(Ports(h))) EXCEPT
                 !.flags = (@ \ {"broadcast"}) \cup {"notify", "diagnostics"}, !.priority = <<128>>])

LEMMA PollLayouts ==
    /\ Layout(PollWritten) /\ Beginning(PollRead, PollWritten)
    /\ Len(PollWritten) = 5 /\ Len(PollRead) = 5
<1>1. PollRead = PollWritten /\ Len(PollWritten) = 5 /\ DOMAIN PollWritten = 1..5
  BY DEF PollRead, PollWritten
<1>2. /\ PollWritten[1] = Msb("version") /\ PollWritten[2] = U8("flags") /\ PollWritten[3] = U8("priority")
      /\ PollWritten[4] = Msb("top") /\ PollWritten[5] = Msb("bottom")
  BY DEF PollWritten
<1>3. \A j \in 1..5 : j = 1 \/ j = 2 \/ j = 3 \/ j = 4 \/ j = 5
  OBVIOUS
<1>4. \A j \in 1..5 : PollWritten[j].width \in Nat \ {0}
  BY <1>2, <1>3 DEF Msb, U8, F
<1>5. \A i, j \in 1..5 : PollWritten[i].name = PollWritten[j].name => i = j
  BY <1>2, <1>3 DEF Msb, U8, F
<1> QED BY <1>1, <1>4, <1>5 DEF Layout, Beginning, Distinct

LEMMA PollSent ==
    ASSUME NEW h
    PROVE  PollPacket(h).op = "poll" /\ ReadPoll(PollPacket(h)).priority = <<128>>
<1> DEFINE L == PollWritten
           R == PollRead
           q == [WithTarget(ArtPoll, Bounds(Ports(h))) EXCEPT
                   !.flags = (@ \ {"broadcast"}) \cup {"notify", "diagnostics"}, !.priority = <<128>>]
           p == [q EXCEPT !.flags = FlagByte(PollBits, q.flags), !.top = <<Number(@)>>, !.bottom = <<Number(@)>>]
           w == PollPacket(h)
<1>1. w = Write("poll", L, p)
  BY DEF PollPacket, WritePoll
<1>2. PICK n \in 0..255 : FlagByte(PollBits, q.flags) = <<n>>
  BY ByteOfFlags
<1>3. p["flags"] = <<n>> /\ p["priority"] = <<128>>
  BY <1>2 DEF WithTarget, ArtPoll
<1>4. /\ DOMAIN L = 1..5
      /\ \A j \in 1..5 : j = 1 \/ j = 2 \/ j = 3 \/ j = 4 \/ j = 5
      /\ L[1] = Msb("version") /\ L[2] = U8("flags") /\ L[3] = U8("priority") /\ L[4] = Msb("top") /\ L[5] = Msb("bottom")
  BY DEF PollWritten
<1>5. R[3] = U8("priority")
  BY DEF PollRead
<1> HIDE DEF L, R, p, w
<1>6. AllFit(L, p)
  <2>1. Fits(L[2], p[L[2].name]) /\ Fits(L[3], p[L[3].name])
    BY <1>3, <1>4 DEF Fits, U8, F
  <2>2. Fits(L[1], p[L[1].name]) /\ Fits(L[4], p[L[4].name]) /\ Fits(L[5], p[L[5].name])
    BY <1>4 DEF Fits, Msb, F
  <2> QED BY <1>4, <2>1, <2>2 DEF AllFit
<1>7. w.op = "poll" /\ ReadAlong(Read(R, w), R, p)
  BY <1>1, <1>6, PollLayouts, RoundTrip DEF L, R
<1>8. "priority" \in DOMAIN Read(R, w) /\ Read(R, w)["priority"] = <<128>>
  <2>1. 3 \in 1..Len(R) /\ Gapless(R, 3) /\ R[3].name = "priority"
    BY <1>5, PollLayouts DEF Gapless, U8, F, R
  <2>2. Taken(R[3], <<128>>) = <<128>>
    BY <1>5 DEF Taken, Appended, U8, F
  <2> QED BY <1>3, <1>7, <2>1, <2>2 DEF ReadAlong
<1>9. ReadPoll(w).priority = <<128>>
  <2> DEFINE got == Read(R, w)
             a == With(ArtPoll, got)
             b == [a EXCEPT !.flags = Flags(PollBits, @), !.top = Parse(@[1]), !.bottom = Parse(@[1])]
  <2>1. ReadPoll(w) = IF "targeted" \in b.flags THEN b ELSE [b EXCEPT !.top = ArtPoll.top, !.bottom = ArtPoll.bottom]
    BY DEF ReadPoll, R
  <2> HIDE DEF got
  <2>2. "priority" \in DOMAIN a /\ a["priority"] = <<128>>
    BY <1>8 DEF With, got
  <2> HIDE DEF a
  <2>3. "priority" \in DOMAIN b /\ b["priority"] = <<128>>
    BY <2>2
  <2> HIDE DEF b
  <2>4. [b EXCEPT !.top = ArtPoll.top, !.bottom = ArtPoll.bottom]["priority"] = <<128>>
    BY <2>3
  <2> QED BY <2>1, <2>3, <2>4
<1> QED BY <1>7, <1>9 DEF w

(* Diagnostics are written, at the priority a poll asks for. *)
DiagPacket(priority) ==
    WriteDiag([version |-> PROTOCOL_VERSION, priority |-> priority, logical_port |-> <<0>>, text |-> <<40>>])

LEMMA DiagSent == DiagPacket(<<128>>).op = "diagData"
<1> DEFINE L == <<Msb("version"), Gap(1), U8("priority"), U8("logical_port"), Gap(1), Msb("length"), Text("text", 41)>>
           r == [version |-> PROTOCOL_VERSION, priority |-> <<128>>, logical_port |-> <<0>>, text |-> <<40>>]
           p == With(r, [length |-> <<40>>])
<1>1. DiagWritten(40) = L
  BY Concat7 DEF DiagWritten, DiagHead
<1>2. DiagPacket(<<128>>) = Write("diagData", L, p)
  BY <1>1 DEF DiagPacket, WriteDiag
<1>3. p["priority"] = <<128>> /\ p["logical_port"] = <<0>>
  BY DEF With
<1>4. /\ DOMAIN L = 1..7 /\ Len(L) = 7
      /\ \A j \in 1..7 : j = 1 \/ j = 2 \/ j = 3 \/ j = 4 \/ j = 5 \/ j = 6 \/ j = 7
      /\ L[1] = Msb("version") /\ L[2] = Gap(1) /\ L[3] = U8("priority") /\ L[4] = U8("logical_port")
      /\ L[5] = Gap(1) /\ L[6] = Msb("length") /\ L[7] = Text("text", 41)
  OBVIOUS
<1> HIDE DEF L, p
<1>5. AllFit(L, p)
  <2>1. Fits(L[3], p[L[3].name]) /\ Fits(L[4], p[L[4].name])
    BY <1>3, <1>4 DEF Fits, U8, F
  <2>2. L[2].form = "gap" /\ L[5].form = "gap"
    BY <1>4 DEF Gap, F
  <2>3. Fits(L[1], p[L[1].name]) /\ Fits(L[6], p[L[6].name]) /\ Fits(L[7], p[L[7].name])
    BY <1>4 DEF Fits, Msb, Text, F
  <2> QED BY <1>4, <2>1, <2>2, <2>3 DEF AllFit
<1>6. Layout(L)
  <2>1. \A j \in 1..7 : L[j].width \in Nat \ {0}
    BY <1>4 DEF Msb, U8, Gap, Text, F
  <2> QED BY <1>4, <2>1 DEF Layout
<1>7. Write("diagData", L, p).op = "diagData"
  BY <1>5, <1>6, WriteFields
<1> QED BY <1>2, <1>7

-----------------------------------------------------------------------------
(* Poll replies: the layouts, and the values that are written.               *)
ReplyLayout ==
    <<Raw("source_ip", 4), Lsb("port"), Msb("firmware_version"), U8("net_switch"), U8("sub_switch"),
      Msb("oem"), U8("ubea"), U8("status1"), Lsb("esta"), Text("short_name", 18),
      Text("long_name", 64), Text("node_report", 64), Msb("port_count"), Raw("port_types", 4),
      Raw("good_input", 4), Raw("good_output_a", 4), Raw("sw_in", 4), Raw("sw_out", 4),
      U8("acn_priority"), U8("sw_macro_bitmap"), U8("sw_remote_bitmap"), Gap(3), U8("style"),
      Raw("mac_address", 6), Raw("bind_ip", 4), U8("bind_index"), U8("status2"),
      Raw("good_output_b", 4), U8("status3"), Raw("default_resp_uid", 6)>>

LEMMA ReplyReader == ReplyReadArtNet2 \o ReplyReadExtensions = ReplyLayout
<1> DEFINE s == ReplyReadArtNet2
           t == ReplyReadExtensions
           r == ReplyLayout
           S == {r[i] : i \in 1..30}
<1>1. s = [i \in 1..21 |-> s[i]] /\ Len(s) = 21
  BY DEF ReplyReadArtNet2
<1>2. t = [i \in 1..9 |-> t[i]] /\ Len(t) = 9
  BY DEF ReplyReadExtensions
<1>3. r = [i \in 1..30 |-> r[i]] /\ Len(r) = 30
  BY DEF ReplyLayout
<1>4. /\ r[1] = s[1] /\ r[2] = s[2] /\ r[3] = s[3] /\ r[4] = s[4] /\ r[5] = s[5] /\ r[6] = s[6]
      /\ r[7] = s[7] /\ r[8] = s[8] /\ r[9] = s[9] /\ r[10] = s[10] /\ r[11] = s[11]
      /\ r[12] = s[12] /\ r[13] = s[13] /\ r[14] = s[14] /\ r[15] = s[15] /\ r[16] = s[16]
      /\ r[17] = s[17] /\ r[18] = s[18] /\ r[19] = s[19] /\ r[20] = s[20] /\ r[21] = s[21]
  BY DEF ReplyReadArtNet2, ReplyLayout
<1>5. /\ r[22] = t[1] /\ r[23] = t[2] /\ r[24] = t[3] /\ r[25] = t[4] /\ r[26] = t[5]
      /\ r[27] = t[6] /\ r[28] = t[7] /\ r[29] = t[8] /\ r[30] = t[9]
  BY DEF ReplyReadExtensions, ReplyLayout
<1> HIDE DEF s, t, r
<1>6. \A i \in 1..21 : i \in 1..30 /\ s[i] = r[i]
  BY <1>4
<1>7. \A i \in 1..9 : i + 21 \in 1..30 /\ t[i] = r[i + 21]
  BY <1>5
<1>8. s \in Seq(S)
  <2>1. \A i \in 1..21 : s[i] \in S
    BY <1>6
  <2> HIDE DEF S
  <2> QED BY <1>1, <2>1
<1>9. t \in Seq(S)
  <2>1. \A i \in 1..9 : t[i] \in S
    BY <1>7
  <2> HIDE DEF S
  <2> QED BY <1>2, <2>1
<1>10. r \in Seq(S)
  <2>1. \A i \in 1..30 : r[i] \in S
    OBVIOUS
  <2> HIDE DEF S
  <2> QED BY <1>3, <2>1
<1> HIDE DEF S
<1>11. \A i \in 1..Len(r) : r[i] = IF i <= Len(s) THEN s[i] ELSE t[i - Len(s)]
  BY <1>1, <1>3, <1>6, <1>7
<1>12. Len(r) = Len(s) + Len(t)
  BY <1>1, <1>2, <1>3
<1>13. s \o t = r
  BY <1>8, <1>9, <1>10, <1>11, <1>12, Concatenated
<1> QED BY <1>13 DEF s, t, r

(* The fields of the layout. *)
LEMMA ReplyFields ==
    /\ Len(ReplyWritten) = 31 /\ Len(ReplyLayout) = 30 /\ DOMAIN ReplyWritten = 1..31 /\ DOMAIN ReplyLayout = 1..30
    /\ ReplyWritten[1] = Raw("source_ip", 4) /\ ReplyWritten[2] = Lsb("port")
    /\ ReplyWritten[3] = Msb("firmware_version") /\ ReplyWritten[4] = U8("net_switch")
    /\ ReplyWritten[5] = U8("sub_switch") /\ ReplyWritten[6] = Msb("oem")
    /\ ReplyWritten[7] = U8("ubea") /\ ReplyWritten[8] = U8("status1")
    /\ ReplyWritten[9] = Lsb("esta") /\ ReplyWritten[10] = Text("short_name", 18)
    /\ ReplyWritten[11] = Text("long_name", 64) /\ ReplyWritten[12] = Text("node_report", 64)
    /\ ReplyWritten[13] = Msb("port_count") /\ ReplyWritten[14] = Raw("port_types", 4)
    /\ ReplyWritten[15] = Raw("good_input", 4) /\ ReplyWritten[16] = Raw("good_output_a", 4)
    /\ ReplyWritten[17] = Raw("sw_in", 4) /\ ReplyWritten[18] = Raw("sw_out", 4)
    /\ ReplyWritten[19] = U8("acn_priority") /\ ReplyWritten[20] = U8("sw_macro_bitmap")
    /\ ReplyWritten[21] = U8("sw_remote_bitmap") /\ ReplyWritten[22] = Gap(3)
    /\ ReplyWritten[23] = U8("style") /\ ReplyWritten[24] = Raw("mac_address", 6)
    /\ ReplyWritten[25] = Raw("bind_ip", 4) /\ ReplyWritten[26] = U8("bind_index")
    /\ ReplyWritten[27] = U8("status2") /\ ReplyWritten[28] = Raw("good_output_b", 4)
    /\ ReplyWritten[29] = U8("status3") /\ ReplyWritten[30] = Raw("default_resp_uid", 6)
    /\ ReplyWritten[31] = Gap(15)
BY DEF ReplyWritten, ReplyLayout

LEMMA ReplyPrefix == \A j \in 1..30 : ReplyLayout[j] = ReplyWritten[j]
<1> DEFINE L == ReplyWritten
           R == ReplyLayout
<1>1. /\ R[1] = L[1] /\ R[2] = L[2] /\ R[3] = L[3] /\ R[4] = L[4] /\ R[5] = L[5] /\ R[6] = L[6]
      /\ R[7] = L[7] /\ R[8] = L[8] /\ R[9] = L[9] /\ R[10] = L[10] /\ R[11] = L[11]
      /\ R[12] = L[12] /\ R[13] = L[13] /\ R[14] = L[14] /\ R[15] = L[15] /\ R[16] = L[16]
      /\ R[17] = L[17] /\ R[18] = L[18] /\ R[19] = L[19] /\ R[20] = L[20] /\ R[21] = L[21]
      /\ R[22] = L[22] /\ R[23] = L[23] /\ R[24] = L[24] /\ R[25] = L[25] /\ R[26] = L[26]
      /\ R[27] = L[27] /\ R[28] = L[28] /\ R[29] = L[29] /\ R[30] = L[30]
  BY DEF ReplyWritten, ReplyLayout
<1> HIDE DEF L, R
<1>2. \A j \in 1..30 : R[j] = L[j]
  BY <1>1
<1> QED BY <1>2 DEF L, R

LEMMA ReplyNames ==
    /\ ReplyWritten[1].name = "source_ip" /\ ReplyWritten[2].name = "port"
    /\ ReplyWritten[3].name = "firmware_version" /\ ReplyWritten[4].name = "net_switch"
    /\ ReplyWritten[5].name = "sub_switch" /\ ReplyWritten[6].name = "oem"
    /\ ReplyWritten[7].name = "ubea" /\ ReplyWritten[8].name = "status1"
    /\ ReplyWritten[9].name = "esta" /\ ReplyWritten[10].name = "short_name"
    /\ ReplyWritten[11].name = "long_name" /\ ReplyWritten[12].name = "node_report"
    /\ ReplyWritten[13].name = "port_count" /\ ReplyWritten[14].name = "port_types"
    /\ ReplyWritten[15].name = "good_input" /\ ReplyWritten[16].name = "good_output_a"
    /\ ReplyWritten[17].name = "sw_in" /\ ReplyWritten[18].name = "sw_out"
    /\ ReplyWritten[19].name = "acn_priority" /\ ReplyWritten[20].name = "sw_macro_bitmap"
    /\ ReplyWritten[21].name = "sw_remote_bitmap" /\ ReplyWritten[23].name = "style"
    /\ ReplyWritten[24].name = "mac_address" /\ ReplyWritten[25].name = "bind_ip"
    /\ ReplyWritten[26].name = "bind_index" /\ ReplyWritten[27].name = "status2"
    /\ ReplyWritten[28].name = "good_output_b" /\ ReplyWritten[29].name = "status3"
    /\ ReplyWritten[30].name = "default_resp_uid" /\ ReplyWritten[22].form = "gap"
    /\ ReplyWritten[31].form = "gap"
BY ReplyFields DEF U8, Lsb, Msb, Raw, Text, Gap, F

LEMMA ReplyWidths ==
    /\ ReplyWritten[1].width = 4 /\ ReplyWritten[2].width = 2 /\ ReplyWritten[3].width = 2
    /\ ReplyWritten[4].width = 1 /\ ReplyWritten[5].width = 1 /\ ReplyWritten[6].width = 2
    /\ ReplyWritten[7].width = 1 /\ ReplyWritten[8].width = 1 /\ ReplyWritten[9].width = 2
    /\ ReplyWritten[10].width = 18 /\ ReplyWritten[11].width = 64 /\ ReplyWritten[12].width = 64
    /\ ReplyWritten[13].width = 2 /\ ReplyWritten[14].width = 4 /\ ReplyWritten[15].width = 4
    /\ ReplyWritten[16].width = 4 /\ ReplyWritten[17].width = 4 /\ ReplyWritten[18].width = 4
    /\ ReplyWritten[19].width = 1 /\ ReplyWritten[20].width = 1 /\ ReplyWritten[21].width = 1
    /\ ReplyWritten[22].width = 3 /\ ReplyWritten[23].width = 1 /\ ReplyWritten[24].width = 6
    /\ ReplyWritten[25].width = 4 /\ ReplyWritten[26].width = 1 /\ ReplyWritten[27].width = 1
    /\ ReplyWritten[28].width = 4 /\ ReplyWritten[29].width = 1 /\ ReplyWritten[30].width = 6
    /\ ReplyWritten[31].width = 15
BY ReplyFields DEF U8, Lsb, Msb, Raw, Text, Gap, F

LEMMA ReplyForms ==
    /\ ReplyWritten[1].form = "raw" /\ ReplyWritten[2].form = "lsb" /\ ReplyWritten[3].form = "msb"
    /\ ReplyWritten[4].form = "byte" /\ ReplyWritten[5].form = "byte"
    /\ ReplyWritten[6].form = "msb" /\ ReplyWritten[7].form = "byte"
    /\ ReplyWritten[8].form = "byte" /\ ReplyWritten[9].form = "lsb"
    /\ ReplyWritten[10].form = "text" /\ ReplyWritten[11].form = "text"
    /\ ReplyWritten[12].form = "text" /\ ReplyWritten[13].form = "msb"
    /\ ReplyWritten[14].form = "raw" /\ ReplyWritten[15].form = "raw"
    /\ ReplyWritten[16].form = "raw" /\ ReplyWritten[17].form = "raw"
    /\ ReplyWritten[18].form = "raw" /\ ReplyWritten[19].form = "byte"
    /\ ReplyWritten[20].form = "byte" /\ ReplyWritten[21].form = "byte"
    /\ ReplyWritten[22].form = "gap" /\ ReplyWritten[23].form = "byte"
    /\ ReplyWritten[24].form = "raw" /\ ReplyWritten[25].form = "raw"
    /\ ReplyWritten[26].form = "byte" /\ ReplyWritten[27].form = "byte"
    /\ ReplyWritten[28].form = "raw" /\ ReplyWritten[29].form = "byte"
    /\ ReplyWritten[30].form = "raw" /\ ReplyWritten[31].form = "gap"
BY ReplyFields DEF U8, Lsb, Msb, Raw, Text, Gap, F

(* The place of a name in the layout. *)
ReplyPlace(x) ==
    CASE x = "source_ip" -> 1 [] x = "port" -> 2 [] x = "firmware_version" -> 3 [] x = "net_switch" -> 4
      [] x = "sub_switch" -> 5 [] x = "oem" -> 6 [] x = "ubea" -> 7 [] x = "status1" -> 8
      [] x = "esta" -> 9 [] x = "short_name" -> 10 [] x = "long_name" -> 11
      [] x = "node_report" -> 12 [] x = "port_count" -> 13 [] x = "port_types" -> 14
      [] x = "good_input" -> 15 [] x = "good_output_a" -> 16 [] x = "sw_in" -> 17 [] x = "sw_out" -> 18
      [] x = "acn_priority" -> 19 [] x = "sw_macro_bitmap" -> 20 [] x = "sw_remote_bitmap" -> 21
      [] x = "style" -> 23 [] x = "mac_address" -> 24 [] x = "bind_ip" -> 25 [] x = "bind_index" -> 26
      [] x = "status2" -> 27 [] x = "good_output_b" -> 28 [] x = "status3" -> 29 [] x = "default_resp_uid" -> 30

LEMMA ReplyLayouts ==
    Layout(ReplyWritten) /\ Layout(ReplyLayout) /\ Distinct(ReplyLayout) /\ Beginning(ReplyLayout, ReplyWritten)
<1> DEFINE L == ReplyWritten
           R == ReplyLayout
<1> HIDE DEF L, R
<1>1. Len(L) = 31 /\ Len(R) = 30 /\ DOMAIN L = 1..31 /\ DOMAIN R = 1..30
  BY ReplyFields DEF L, R
<1>2. \A j \in 1..30 : R[j] = L[j]
  BY ReplyPrefix DEF L, R
<1>3. \A j \in 1..31 : L[j].width \in Nat \ {0}
  BY ReplyWidths DEF L
<1>4. Layout(L) /\ Layout(R)
  BY <1>1, <1>2, <1>3 DEF Layout
<1>5. /\ ReplyPlace("source_ip") = 1 /\ ReplyPlace("port") = 2 /\ ReplyPlace("firmware_version") = 3
      /\ ReplyPlace("net_switch") = 4 /\ ReplyPlace("sub_switch") = 5
  BY DEF ReplyPlace
<1>6. /\ ReplyPlace("oem") = 6 /\ ReplyPlace("ubea") = 7 /\ ReplyPlace("status1") = 8
      /\ ReplyPlace("esta") = 9 /\ ReplyPlace("short_name") = 10
  BY DEF ReplyPlace
<1>7. /\ ReplyPlace("long_name") = 11 /\ ReplyPlace("node_report") = 12
      /\ ReplyPlace("port_count") = 13 /\ ReplyPlace("port_types") = 14
      /\ ReplyPlace("good_input") = 15
  BY DEF ReplyPlace
<1>8. /\ ReplyPlace("good_output_a") = 16 /\ ReplyPlace("sw_in") = 17 /\ ReplyPlace("sw_out") = 18
      /\ ReplyPlace("acn_priority") = 19 /\ ReplyPlace("sw_macro_bitmap") = 20
  BY DEF ReplyPlace
<1>9. /\ ReplyPlace("sw_remote_bitmap") = 21 /\ ReplyPlace("style") = 23
      /\ ReplyPlace("mac_address") = 24 /\ ReplyPlace("bind_ip") = 25
  BY DEF ReplyPlace
<1>10. /\ ReplyPlace("bind_index") = 26 /\ ReplyPlace("status2") = 27
      /\ ReplyPlace("good_output_b") = 28 /\ ReplyPlace("status3") = 29
      /\ ReplyPlace("default_resp_uid") = 30
  BY DEF ReplyPlace
<1>11. \A j \in 1..30 : L[j].form # "gap" => ReplyPlace(L[j].name) = j
  BY <1>5, <1>6, <1>7, <1>8, <1>9, <1>10, ReplyNames DEF L
<1>12. Distinct(R)
  <2> SUFFICES ASSUME NEW i \in 1..30, NEW j \in 1..30,
                      Gapless(R, i), Gapless(R, j), R[i].name = R[j].name
               PROVE  i = j
    BY <1>1, Zenon DEF Distinct
  <2>1. R[i] = L[i] /\ R[j] = L[j]
    BY <1>2
  <2>2. L[i].form # "gap" /\ L[j].form # "gap"
    BY <2>1 DEF Gapless
  <2>3. ReplyPlace(L[i].name) = i /\ ReplyPlace(L[j].name) = j
    BY <1>11, <2>2
  <2> QED
    BY <2>1, <2>3
<1> QED BY <1>1, <1>2, <1>4, <1>12 DEF Beginning, L, R

-----------------------------------------------------------------------------
(* The record a reply is written from. *)
GroupOK(G, ports) ==
    /\ G.net \in 0..15 /\ G.sub \in 0..15
    /\ Len(G.universes) \in 0..4 /\ DOMAIN G.universes = 1..Len(G.universes)
    /\ \A k \in DOMAIN G.universes : G.universes[k] \in 0..511 /\ Of(G.net, G.sub, G.universes[k]) \in ports

AddressesIn(G) == {Of(G.net, G.sub, G.universes[k]) : k \in DOMAIN G.universes}

BytesOf(ports, Byte(_)) == [i \in 1..4 |-> Byte(ports[i])]

ReplyRecord(p) ==
    With([p EXCEPT !.ubea = IF p.ubea_present THEN @ ELSE <<0>>,
                   !.status2 = FlagByte(Status2Bits, @), !.status3 = <<Status3(p)>>,
                   !.default_resp_uid = IF "llrp" \in p.status3 THEN @ ELSE <<0, 0, 0, 0, 0, 0>>],
         [status1 |-> <<Status1(p)>>,
          port_count |-> <<Cardinality({i \in 1..4 : p.ports[i].direction # {}})>>,
          port_types |-> BytesOf(p.ports, PortTypes),
          good_input |-> BytesOf(p.ports, LAMBDA q : FlagByte(GoodInputBits, q.good_input)[1]),
          good_output_a |-> BytesOf(p.ports, LAMBDA q : FlagByte(GoodOutputABits, q.good_output_a)[1]),
          sw_in |-> BytesOf(p.ports, LAMBDA q : q.sw_in), sw_out |-> BytesOf(p.ports, LAMBDA q : q.sw_out),
          good_output_b |-> BytesOf(p.ports, LAMBDA q : FlagByte(GoodOutputBBits, q.good_output_b)[1])])

LEMMA ReplyWrittenFrom ==
    ASSUME NEW p PROVE WriteReply(p) = Write("pollReply", ReplyWritten, ReplyRecord(p))
BY DEF WriteReply, ReplyRecord, BytesOf

LEMMA TypeBytes ==
    /\ FlagByte(TypeBits, {"input", "output"}) = <<192>> /\ FlagByte(TypeBits, {}) = <<0>>
<1> DEFINE b(up, k) == Number1(\E n \in up : TypeBits[n] = k)
           io == {"input", "output"}
<1>1. 2^0 = 1 /\ 2^1 = 2 /\ 2^2 = 4 /\ 2^3 = 8 /\ 2^4 = 16 /\ 2^5 = 32 /\ 2^6 = 64 /\ 2^7 = 128
  BY SMT
<1>2. TypeBits["output"] = 7 /\ TypeBits["input"] = 6
  BY DEF TypeBits
<1>3. /\ b(io, 7) = 1 /\ b(io, 6) = 1 /\ b(io, 0) = 0 /\ b(io, 1) = 0 /\ b(io, 2) = 0 /\ b(io, 3) = 0
      /\ b(io, 4) = 0 /\ b(io, 5) = 0
  BY <1>2 DEF Number1
<1>4. \A k : b({}, k) = 0
  BY DEF Number1
<1>5. \A up : FlagByte(TypeBits, up) =
          <<(2^0 * b(up, 0)) + (2^1 * b(up, 1)) + (2^2 * b(up, 2)) + (2^3 * b(up, 3)) + (2^4 * b(up, 4))
            + (2^5 * b(up, 5)) + (2^6 * b(up, 6)) + (2^7 * b(up, 7))>>
  BY DEF FlagByte
<1> HIDE DEF b
<1>6. FlagByte(TypeBits, io) = <<192>>
  BY <1>1, <1>3, <1>5
<1>7. FlagByte(TypeBits, {}) = <<0>>
  BY <1>1, <1>4, <1>5
<1> QED BY <1>6, <1>7

(* The ports of a reply: those of the group, and as many more as make four. *)
PortsIn(G, flags) ==
    FourPorts([k \in DOMAIN G.universes |->
                 OwnPort(Of(G.net, G.sub, G.universes[k]), flags[Of(G.net, G.sub, G.universes[k])])])

LEMMA FourPortsOf ==
    ASSUME NEW G, NEW flags, NEW ports, GroupOK(G, ports), NEW k \in 1..4
    PROVE  PortsIn(G, flags)[k] =
              IF k <= Len(G.universes)
              THEN OwnPort(Of(G.net, G.sub, G.universes[k]), flags[Of(G.net, G.sub, G.universes[k])])
              ELSE Port
<1> DEFINE P(j) == OwnPort(Of(G.net, G.sub, G.universes[j]), flags[Of(G.net, G.sub, G.universes[j])])
           n == Len(G.universes)
           s == [j \in 1..n |-> P(j)]
<1>1. n \in Nat /\ DOMAIN G.universes = 1..n
  BY DEF GroupOK
<1>2. PortsIn(G, flags) = FourPorts(s)
  BY <1>1 DEF PortsIn
<1> HIDE DEF P
<1>3. Len(s) = n
  BY <1>1
<1>4. k <= n => s[k] = P(k)
  BY <1>1
<1> HIDE DEF s, n
<1>5. FourPorts(s)[k] = IF k <= n THEN s[k] ELSE Port
  BY <1>3 DEF FourPorts
<1>6. PortsIn(G, flags)[k] = IF k <= n THEN P(k) ELSE Port
  BY <1>2, <1>4, <1>5
<1> QED BY <1>6 DEF P, n

LEMMA OwnPortIs ==
    ASSUME NEW a, NEW flag
    PROVE  /\ OwnPort(a, flag).direction = {"input", "output"} /\ OwnPort(a, flag).type = 5
           /\ OwnPort(a, flag).sw_in = a.universe /\ OwnPort(a, flag).sw_out = a.universe
           /\ PortTypes(OwnPort(a, flag)) = 197
<1>1. /\ OwnPort(a, flag).direction = {"input", "output"} /\ OwnPort(a, flag).type = 5
      /\ OwnPort(a, flag).sw_in = a.universe /\ OwnPort(a, flag).sw_out = a.universe
  BY DEF OwnPort, Port
<1> QED BY <1>1, TypeBytes DEF PortTypes

LEMMA EmptyPortIs ==
    Port.direction = {} /\ Port.sw_in = 0 /\ Port.sw_out = 0 /\ PortTypes(Port) = 0
<1>1. Port.direction = {} /\ Port.sw_in = 0 /\ Port.sw_out = 0 /\ Port.type = 0
  BY DEF Port
<1> QED BY <1>1, TypeBytes DEF PortTypes

Grouped(h) == GroupedPorts(own[h])

Constant == DOMAIN ArtPollReply \ {"source_ip", "net_switch", "sub_switch", "indicator", "authority", "rom",
                                     "node_report", "ports", "bind_index", "status2"}

IsReplyOf(q, h, i, flags) ==
    /\ q.source_ip = IpOf[h] /\ q.net_switch = <<Grouped(h)[i].net>> /\ q.sub_switch = <<Grouped(h)[i].sub>>
    /\ q.ports = PortsIn(Grouped(h)[i], flags) /\ q.bind_index = <<BindIndex(own[h], i)>>
    /\ DOMAIN q = DOMAIN ArtPollReply /\ \A n \in Constant : q[n] = ArtPollReply[n]
    /\ q.indicator = 3 /\ q.authority = 2 /\ q.rom = FALSE

LEMMA ReplyOf ==
    ASSUME NEW h, NEW i, NEW flags
    PROVE  IsReplyOf(PollReplyOf(h, i, flags), h, i, flags)
<1> DEFINE G == Grouped(h)[i]
           at(u) == [net |-> G.net, sub |-> G.sub, universe |-> u]
           ports == FourPorts([k \in DOMAIN G.universes |-> OwnPort(at(G.universes[k]), flags[at(G.universes[k])])])
           bind == <<BindIndex(own[h], i)>>
           q == PollReplyOf(h, i, flags)
<1>1. q = [ArtPollReply EXCEPT
             !.source_ip = IpOf[h], !.net_switch = <<G.net>>, !.sub_switch = <<G.sub>>,
             !.indicator = 3, !.authority = 2, !.rom = FALSE, !.node_report = <<40>>,
             !.ports = ports, !.bind_index = bind,
             !.status2 = {"web", "dhcp_configured", "dhcp_capable", "address15"}]
  BY DEF PollReplyOf, Grouped, Ports
<1>2. ports = PortsIn(G, flags)
  BY DEF PortsIn, Of
<1>3. {"source_ip", "net_switch", "sub_switch", "indicator", "authority", "rom", "ports", "bind_index"}
         \subseteq DOMAIN ArtPollReply
  BY DEF ArtPollReply
<1> HIDE DEF G, ports, bind, q
<1>4. /\ q.source_ip = IpOf[h] /\ q.net_switch = <<G.net>> /\ q.sub_switch = <<G.sub>>
      /\ q.ports = ports /\ q.bind_index = bind /\ q.indicator = 3 /\ q.authority = 2 /\ q.rom = FALSE
  BY <1>1, <1>3
<1>5. DOMAIN q = DOMAIN ArtPollReply
  BY <1>1
<1>6. \A n \in Constant : q[n] = ArtPollReply[n]
  BY <1>1 DEF Constant
<1> QED BY <1>2, <1>4, <1>5, <1>6 DEF q, G, bind, IsReplyOf

ByteSeq(v) == \A j \in DOMAIN v : v[j] \in 0..255

LEMMA CountedTo ==
    ASSUME NEW n \in Nat PROVE IsFiniteSet(1..n) /\ Cardinality(1..n) = n
<1>1. 1 \in Int /\ n \in Int
  OBVIOUS
<1>2. IsFiniteSet(1..n) /\ Cardinality(1..n) = IF 1 > n THEN 0 ELSE n - 1 + 1
  BY <1>1, FS_Interval
<1>3. (IF 1 > n THEN 0 ELSE n - 1 + 1) = n
  OBVIOUS
<1> QED BY <1>2, <1>3

LEMMA RecordOf ==
    ASSUME NEW h \in Hosts, NEW i, NEW flags, GroupOK(Grouped(h)[i], own[h])
    PROVE  LET e == ReplyRecord(PollReplyOf(h, i, flags))
               G == Grouped(h)[i]
               n == Len(G.universes)
           IN  /\ e["source_ip"] = IpOf[h] /\ e["net_switch"] = <<G.net>> /\ e["sub_switch"] = <<G.sub>>
               /\ e["bind_index"] = <<BindIndex(own[h], i)>>
               /\ e["port_count"] = <<n>>
               /\ e["port_types"] = [k \in 1..4 |-> IF k <= n THEN 197 ELSE 0]
               /\ e["sw_in"] = [k \in 1..4 |-> IF k <= n THEN G.universes[k] ELSE 0]
               /\ e["sw_out"] = [k \in 1..4 |-> IF k <= n THEN G.universes[k] ELSE 0]
               /\ ByteSeq(e["ubea"]) /\ ByteSeq(e["status1"]) /\ ByteSeq(e["good_input"])
               /\ ByteSeq(e["good_output_a"]) /\ ByteSeq(e["acn_priority"]) /\ ByteSeq(e["sw_macro_bitmap"])
               /\ ByteSeq(e["sw_remote_bitmap"]) /\ ByteSeq(e["style"]) /\ ByteSeq(e["mac_address"])
               /\ ByteSeq(e["bind_ip"]) /\ ByteSeq(e["status2"]) /\ ByteSeq(e["good_output_b"])
               /\ ByteSeq(e["status3"]) /\ ByteSeq(e["default_resp_uid"])
<1> DEFINE q == PollReplyOf(h, i, flags)
           e == ReplyRecord(q)
           G == Grouped(h)[i]
           n == Len(G.universes)
           ports == PortsIn(G, flags)
           Shown(k) == OwnPort(Of(G.net, G.sub, G.universes[k]), flags[Of(G.net, G.sub, G.universes[k])])
           q1 == [q EXCEPT !.ubea = IF q.ubea_present THEN @ ELSE <<0>>,
                           !.status2 = FlagByte(Status2Bits, @), !.status3 = <<Status3(q)>>,
                           !.default_resp_uid = IF "llrp" \in q.status3 THEN @ ELSE <<0, 0, 0, 0, 0, 0>>]
           more == [status1 |-> <<Status1(q)>>,
                    port_count |-> <<Cardinality({j \in 1..4 : q.ports[j].direction # {}})>>,
                    port_types |-> BytesOf(q.ports, PortTypes),
                    good_input |-> BytesOf(q.ports, LAMBDA r : FlagByte(GoodInputBits, r.good_input)[1]),
                    good_output_a |-> BytesOf(q.ports, LAMBDA r : FlagByte(GoodOutputABits, r.good_output_a)[1]),
                    sw_in |-> BytesOf(q.ports, LAMBDA r : r.sw_in), sw_out |-> BytesOf(q.ports, LAMBDA r : r.sw_out),
                    good_output_b |-> BytesOf(q.ports, LAMBDA r : FlagByte(GoodOutputBBits, r.good_output_b)[1])]
<1>1. /\ q.source_ip = IpOf[h] /\ q.net_switch = <<G.net>> /\ q.sub_switch = <<G.sub>> /\ q.ports = ports
      /\ q.bind_index = <<BindIndex(own[h], i)>> /\ DOMAIN q = DOMAIN ArtPollReply
      /\ \A m \in Constant : q[m] = ArtPollReply[m]
      /\ q.indicator = 3 /\ q.authority = 2 /\ q.rom = FALSE
  <2> HIDE DEF q
  <2>1. IsReplyOf(q, h, i, flags)
    BY ReplyOf DEF q
  <2> QED BY <2>1 DEF IsReplyOf
<1>2. /\ DOMAIN ArtPollReply = {"source_ip", "port", "firmware_version", "net_switch", "sub_switch", "oem", "ubea",
             "indicator", "authority", "rom", "rdm", "ubea_present", "esta", "short_name", "long_name", "node_report",
             "ports", "acn_priority", "sw_macro_bitmap", "sw_remote_bitmap", "style", "mac_address", "bind_ip",
             "bind_index", "status2", "failsafe", "status3", "direction", "default_resp_uid"}
      /\ ArtPollReply["ubea"] = <<0>> /\ ArtPollReply["rdm"] = FALSE /\ ArtPollReply["ubea_present"] = FALSE
      /\ ArtPollReply["acn_priority"] = <<100>> /\ ArtPollReply["sw_macro_bitmap"] = <<0>>
      /\ ArtPollReply["sw_remote_bitmap"] = <<0>> /\ ArtPollReply["style"] = <<1>>
      /\ ArtPollReply["mac_address"] = <<0, 0, 0, 0, 0, 0>> /\ ArtPollReply["bind_ip"] = <<0, 0, 0, 0>>
      /\ ArtPollReply["failsafe"] = 0 /\ ArtPollReply["status3"] = {"llrp"}
      /\ ArtPollReply["default_resp_uid"] = <<0, 0, 0, 0, 0, 0>>
  BY DEF ArtPollReply
<1>3. e = With(q1, more)
  BY DEF ReplyRecord
<1>4. DOMAIN more = {"status1", "port_count", "port_types", "good_input", "good_output_a", "sw_in", "sw_out",
                     "good_output_b"}
  OBVIOUS
<1>5. /\ more["status1"] = <<Status1(q)>>
      /\ more["port_count"] = <<Cardinality({j \in 1..4 : q.ports[j].direction # {}})>>
      /\ more["port_types"] = BytesOf(q.ports, PortTypes)
      /\ more["good_input"] = BytesOf(q.ports, LAMBDA r : FlagByte(GoodInputBits, r.good_input)[1])
      /\ more["good_output_a"] = BytesOf(q.ports, LAMBDA r : FlagByte(GoodOutputABits, r.good_output_a)[1])
      /\ more["sw_in"] = BytesOf(q.ports, LAMBDA r : r.sw_in)
      /\ more["sw_out"] = BytesOf(q.ports, LAMBDA r : r.sw_out)
      /\ more["good_output_b"] = BytesOf(q.ports, LAMBDA r : FlagByte(GoodOutputBBits, r.good_output_b)[1])
  OBVIOUS
<1> HIDE DEF q, e, G, ports
<1>6. /\ DOMAIN q1 = DOMAIN ArtPollReply
      /\ \A m \in DOMAIN ArtPollReply \ {"ubea", "status2", "status3", "default_resp_uid"} : q1[m] = q[m]
      /\ q1["ubea"] = (IF q.ubea_present THEN q.ubea ELSE <<0>>)
      /\ q1["status2"] = FlagByte(Status2Bits, q.status2)
      /\ q1["status3"] = <<Status3(q)>>
      /\ q1["default_resp_uid"] = (IF "llrp" \in q.status3 THEN q.default_resp_uid ELSE <<0, 0, 0, 0, 0, 0>>)
  BY <1>1, <1>2
<1> HIDE DEF q1, more
<1>7. /\ \A m \in DOMAIN more : e[m] = more[m]
      /\ \A m \in DOMAIN q1 \ DOMAIN more : e[m] = q1[m]
  BY <1>3 DEF With
<1>8. /\ e["source_ip"] = IpOf[h] /\ e["net_switch"] = <<G.net>> /\ e["sub_switch"] = <<G.sub>>
      /\ e["bind_index"] = <<BindIndex(own[h], i)>>
  BY <1>1, <1>2, <1>4, <1>6, <1>7 DEF Constant
<1>9. /\ ByteSeq(e["ubea"]) /\ ByteSeq(e["acn_priority"]) /\ ByteSeq(e["sw_macro_bitmap"])
      /\ ByteSeq(e["sw_remote_bitmap"]) /\ ByteSeq(e["style"]) /\ ByteSeq(e["mac_address"])
      /\ ByteSeq(e["bind_ip"]) /\ ByteSeq(e["default_resp_uid"])
  <2>1. /\ ByteSeq(<<0>>) /\ ByteSeq(<<1>>) /\ ByteSeq(<<100>>) /\ ByteSeq(<<0, 0, 0, 0>>)
        /\ ByteSeq(<<0, 0, 0, 0, 0, 0>>)
    BY DEF ByteSeq
  <2> QED BY <1>1, <1>2, <1>4, <1>6, <1>7, <2>1 DEF Constant
<1>10. ByteSeq(e["status2"]) /\ ByteSeq(e["status3"]) /\ ByteSeq(e["status1"])
  <2>1. e["status2"] = FlagByte(Status2Bits, q.status2) /\ e["status3"] = <<Status3(q)>> /\ e["status1"] = <<Status1(q)>>
    BY <1>2, <1>4, <1>5, <1>6, <1>7
  <2>2. Status1(q) \in 0..255
    BY <1>1, <1>2 DEF Status1, Number1, Constant
  <2>3. Status3(q) \in 0..255
    <3>1. q.failsafe = 0 /\ q.status3 = {"llrp"}
      BY <1>1, <1>2 DEF Constant
    <3>2. FlagByte(Status3Bits, {"llrp"}) = <<16>>
      <4> DEFINE b(k) == Number1(\E m \in {"llrp"} : Status3Bits[m] = k)
      <4>1. Status3Bits["llrp"] = 4
        BY DEF Status3Bits
      <4>2. b(4) = 1 /\ b(0) = 0 /\ b(1) = 0 /\ b(2) = 0 /\ b(3) = 0 /\ b(5) = 0 /\ b(6) = 0 /\ b(7) = 0
        BY <4>1 DEF Number1
      <4>3. FlagByte(Status3Bits, {"llrp"}) =
               <<(2^0 * b(0)) + (2^1 * b(1)) + (2^2 * b(2)) + (2^3 * b(3)) + (2^4 * b(4))
                 + (2^5 * b(5)) + (2^6 * b(6)) + (2^7 * b(7))>>
        BY DEF FlagByte
      <4>4. 2^0 = 1 /\ 2^1 = 2 /\ 2^2 = 4 /\ 2^3 = 8 /\ 2^4 = 16 /\ 2^5 = 32 /\ 2^6 = 64 /\ 2^7 = 128
        BY SMT
      <4> HIDE DEF b
      <4> QED BY <4>2, <4>3, <4>4
    <3> QED BY <3>1, <3>2 DEF Status3
  <2>4. PICK m \in 0..255 : FlagByte(Status2Bits, q.status2) = <<m>>
    BY ByteOfFlags
  <2> QED BY <2>1, <2>2, <2>3, <2>4 DEF ByteSeq
<1>11. ByteSeq(e["good_input"]) /\ ByteSeq(e["good_output_a"]) /\ ByteSeq(e["good_output_b"])
  <2>1. \A bits, up : FlagByte(bits, up)[1] \in 0..255
    <3> SUFFICES ASSUME NEW bits, NEW up PROVE FlagByte(bits, up)[1] \in 0..255
      OBVIOUS
    <3>1. PICK m \in 0..255 : FlagByte(bits, up) = <<m>>
      BY ByteOfFlags
    <3> QED BY <3>1
  <2>2. /\ e["good_input"] = [j \in 1..4 |-> FlagByte(GoodInputBits, q.ports[j].good_input)[1]]
        /\ e["good_output_a"] = [j \in 1..4 |-> FlagByte(GoodOutputABits, q.ports[j].good_output_a)[1]]
        /\ e["good_output_b"] = [j \in 1..4 |-> FlagByte(GoodOutputBBits, q.ports[j].good_output_b)[1]]
    BY <1>4, <1>5, <1>7 DEF BytesOf
  <2>3. \A j \in 1..4 : /\ FlagByte(GoodInputBits, q.ports[j].good_input)[1] \in 0..255
                        /\ FlagByte(GoodOutputABits, q.ports[j].good_output_a)[1] \in 0..255
                        /\ FlagByte(GoodOutputBBits, q.ports[j].good_output_b)[1] \in 0..255
    BY <2>1
  <2> DEFINE a(j) == FlagByte(GoodInputBits, q.ports[j].good_input)[1]
             b(j) == FlagByte(GoodOutputABits, q.ports[j].good_output_a)[1]
             c(j) == FlagByte(GoodOutputBBits, q.ports[j].good_output_b)[1]
  <2>4. \A j \in 1..4 : a(j) \in 0..255 /\ b(j) \in 0..255 /\ c(j) \in 0..255
    BY <2>3
  <2>5. /\ e["good_input"] = [j \in 1..4 |-> a(j)] /\ e["good_output_a"] = [j \in 1..4 |-> b(j)]
        /\ e["good_output_b"] = [j \in 1..4 |-> c(j)]
    BY <2>2
  <2> HIDE DEF a, b, c
  <2> QED BY <2>4, <2>5 DEF ByteSeq
<1>12. n \in 0..4
  BY DEF GroupOK, G
<1>13. \A k \in 1..4 : ports[k] = IF k <= n THEN Shown(k) ELSE Port
  BY FourPortsOf DEF ports, G
<1>14. ASSUME NEW k \in 1..4
       PROVE  /\ PortTypes(ports[k]) = IF k <= n THEN 197 ELSE 0
              /\ ports[k].sw_in = IF k <= n THEN G.universes[k] ELSE 0
              /\ ports[k].sw_out = IF k <= n THEN G.universes[k] ELSE 0
              /\ ports[k].direction # {} <=> k <= n
  <2>1. Of(G.net, G.sub, G.universes[k]).universe = G.universes[k]
    BY DEF Of
  <2>2. /\ Shown(k).direction = {"input", "output"} /\ Shown(k).sw_in = G.universes[k]
        /\ Shown(k).sw_out = G.universes[k] /\ PortTypes(Shown(k)) = 197
    BY <2>1, OwnPortIs
  <2> HIDE DEF Shown, n
  <2>3. CASE k <= n
    <3>1. ports[k] = Shown(k)
      BY <1>13, <2>3
    <3> QED BY <2>2, <2>3, <3>1
  <2>4. CASE ~(k <= n)
    <3>1. ports[k] = Port
      BY <1>13, <2>4
    <3> QED BY <2>4, <3>1, EmptyPortIs
  <2> QED BY <2>3, <2>4
<1> HIDE DEF n, Shown
<1>15. /\ e["port_types"] = [k \in 1..4 |-> PortTypes(ports[k])]
       /\ e["sw_in"] = [k \in 1..4 |-> ports[k].sw_in]
       /\ e["sw_out"] = [k \in 1..4 |-> ports[k].sw_out]
       /\ e["port_count"] = <<Cardinality({j \in 1..4 : ports[j].direction # {}})>>
  BY <1>1, <1>4, <1>5, <1>7 DEF BytesOf
<1>16. e["port_count"] = <<n>>
  <2>1. {j \in 1..4 : ports[j].direction # {}} = 1..n
    BY <1>12, <1>14
  <2>2. Cardinality(1..n) = n
    <3>1. n \in Nat
      BY <1>12
    <3> QED BY <3>1, CountedTo
  <2> QED BY <1>15, <2>1, <2>2
<1>17. /\ e["port_types"] = [k \in 1..4 |-> IF k <= n THEN 197 ELSE 0]
       /\ e["sw_in"] = [k \in 1..4 |-> IF k <= n THEN G.universes[k] ELSE 0]
       /\ e["sw_out"] = [k \in 1..4 |-> IF k <= n THEN G.universes[k] ELSE 0]
  BY <1>14, <1>15
<1> QED BY <1>8, <1>9, <1>10, <1>11, <1>16, <1>17 DEF e, q, G, n

(* A reply is written if the universes and the bind index are bytes. *)
LEMMA ReplyFits ==
    ASSUME NEW h \in Hosts, NEW i, NEW flags, GroupOK(Grouped(h)[i], own[h]),
           \A k \in DOMAIN Grouped(h)[i].universes : Grouped(h)[i].universes[k] <= 255,
           BindIndex(own[h], i) \in 0..255
    PROVE  WriteReply(PollReplyOf(h, i, flags)) # NoPacket
<1> DEFINE e == ReplyRecord(PollReplyOf(h, i, flags))
           G == Grouped(h)[i]
           n == Len(G.universes)
           L == ReplyWritten
<1>1. /\ e["source_ip"] = IpOf[h] /\ e["net_switch"] = <<G.net>> /\ e["sub_switch"] = <<G.sub>>
      /\ e["bind_index"] = <<BindIndex(own[h], i)>>
      /\ e["port_types"] = [k \in 1..4 |-> IF k <= n THEN 197 ELSE 0]
      /\ e["sw_in"] = [k \in 1..4 |-> IF k <= n THEN G.universes[k] ELSE 0]
      /\ e["sw_out"] = [k \in 1..4 |-> IF k <= n THEN G.universes[k] ELSE 0]
  BY RecordOf
<1>2. /\ ByteSeq(e["ubea"]) /\ ByteSeq(e["status1"]) /\ ByteSeq(e["good_input"])
      /\ ByteSeq(e["good_output_a"]) /\ ByteSeq(e["acn_priority"]) /\ ByteSeq(e["sw_macro_bitmap"])
      /\ ByteSeq(e["sw_remote_bitmap"]) /\ ByteSeq(e["style"]) /\ ByteSeq(e["mac_address"])
      /\ ByteSeq(e["bind_ip"]) /\ ByteSeq(e["status2"]) /\ ByteSeq(e["good_output_b"])
      /\ ByteSeq(e["status3"]) /\ ByteSeq(e["default_resp_uid"])
  BY RecordOf
<1> HIDE DEF e
<1>3. ByteSeq(e["source_ip"])
  <2>1. IpOf[h] \in Seq(0..255)
    BY IpAssumption
  <2>2. ASSUME NEW S, NEW v \in Seq(S) PROVE \A j \in DOMAIN v : v[j] \in S
    <3>1. DOMAIN v = 1..Len(v) /\ \A j \in 1..Len(v) : v[j] \in S
      OBVIOUS
    <3> QED BY <3>1
  <2>3. \A j \in DOMAIN IpOf[h] : IpOf[h][j] \in 0..255
    BY <2>1, <2>2
  <2> QED BY <1>1, <2>3 DEF ByteSeq
<1>4. ByteSeq(e["net_switch"]) /\ ByteSeq(e["sub_switch"]) /\ ByteSeq(e["bind_index"])
  <2>1. \A b \in 0..255 : ByteSeq(<<b>>)
    BY DEF ByteSeq
  <2>2. G.net \in 0..255 /\ G.sub \in 0..255
    BY DEF GroupOK
  <2> HIDE DEF G
  <2> QED BY <1>1, <2>1, <2>2
<1>5. ByteSeq(e["port_types"]) /\ ByteSeq(e["sw_in"]) /\ ByteSeq(e["sw_out"])
  <2> DEFINE us == G.universes
  <2>1. n \in 0..4 /\ \A k \in 1..n : us[k] \in 0..255
    <3>1. n \in 0..4 /\ DOMAIN us = 1..n /\ \A k \in DOMAIN us : us[k] \in 0..511
      BY DEF GroupOK
    <3>2. \A k \in DOMAIN us : us[k] <= 255
      OBVIOUS
    <3> HIDE DEF us, n
    <3>3. ASSUME NEW k \in 1..n PROVE us[k] \in 0..255
      <4>1. us[k] \in 0..511 /\ us[k] <= 255
        BY <3>1, <3>2
      <4> QED BY <4>1
    <3> QED BY <3>1, <3>3
  <2>2. \A k \in 1..4 : (IF k <= n THEN 197 ELSE 0) \in 0..255 /\ (IF k <= n THEN G.universes[k] ELSE 0) \in 0..255
    <3> HIDE DEF us, n, G
    <3>1. \A k \in 1..4 : (IF k <= n THEN us[k] ELSE 0) \in 0..255
      BY <2>1
    <3> QED BY <3>1 DEF us
  <2> HIDE DEF n, G, us
  <2>3. \A k \in 1..4 : e["port_types"][k] \in 0..255 /\ e["sw_in"][k] \in 0..255 /\ e["sw_out"][k] \in 0..255
    <3> DEFINE a(k) == IF k <= n THEN 197 ELSE 0
               b(k) == IF k <= n THEN G.universes[k] ELSE 0
    <3>1. \A k \in 1..4 : a(k) \in 0..255 /\ b(k) \in 0..255
      BY <2>2
    <3>2. /\ e["port_types"] = [k \in 1..4 |-> a(k)] /\ e["sw_in"] = [k \in 1..4 |-> b(k)]
          /\ e["sw_out"] = [k \in 1..4 |-> b(k)]
      BY <1>1
    <3> HIDE DEF a, b
    <3> QED BY <3>1, <3>2
  <2>4. DOMAIN e["port_types"] = 1..4 /\ DOMAIN e["sw_in"] = 1..4 /\ DOMAIN e["sw_out"] = 1..4
    BY <1>1
  <2> QED BY <2>3, <2>4 DEF ByteSeq
<1> HIDE DEF L
<1>6. \A f, v : f.form \notin {"byte", "raw"} \/ ByteSeq(v) => Fits(f, v)
  BY DEF Fits, ByteSeq
<1>7. /\ Fits(L[1], e[L[1].name]) /\ Fits(L[2], e[L[2].name]) /\ Fits(L[3], e[L[3].name]) /\ Fits(L[4], e[L[4].name])
      /\ Fits(L[5], e[L[5].name]) /\ Fits(L[6], e[L[6].name]) /\ Fits(L[7], e[L[7].name]) /\ Fits(L[8], e[L[8].name])
      /\ Fits(L[9], e[L[9].name]) /\ Fits(L[10], e[L[10].name]) /\ Fits(L[11], e[L[11].name])
      /\ Fits(L[12], e[L[12].name]) /\ Fits(L[13], e[L[13].name])
  BY <1>2, <1>3, <1>4, <1>6, ReplyNames, ReplyForms DEF L
<1>8. /\ Fits(L[14], e[L[14].name]) /\ Fits(L[15], e[L[15].name]) /\ Fits(L[16], e[L[16].name])
      /\ Fits(L[17], e[L[17].name]) /\ Fits(L[18], e[L[18].name]) /\ Fits(L[19], e[L[19].name])
      /\ Fits(L[20], e[L[20].name]) /\ Fits(L[21], e[L[21].name]) /\ L[22].form = "gap" /\ L[31].form = "gap"
  BY <1>2, <1>5, <1>6, ReplyNames, ReplyForms DEF L
<1>9. /\ Fits(L[23], e[L[23].name]) /\ Fits(L[24], e[L[24].name]) /\ Fits(L[25], e[L[25].name])
      /\ Fits(L[26], e[L[26].name]) /\ Fits(L[27], e[L[27].name]) /\ Fits(L[28], e[L[28].name])
      /\ Fits(L[29], e[L[29].name]) /\ Fits(L[30], e[L[30].name])
  BY <1>2, <1>4, <1>6, ReplyNames, ReplyForms DEF L
<1>10. \A k \in 1..31 : L[k].form = "gap" \/ Fits(L[k], e[L[k].name])
  BY <1>7, <1>8, <1>9
<1>11. AllFit(L, e) /\ Layout(L)
  <2>1. DOMAIN L = 1..31
    BY ReplyFields DEF L
  <2> QED BY <1>10, <2>1, ReplyLayouts DEF AllFit, L
<1>12. Write("pollReply", L, e).op = "pollReply"
  BY <1>11, WriteFields
<1>13. WriteReply(PollReplyOf(h, i, flags)) = Write("pollReply", L, e)
  BY ReplyWrittenFrom DEF L, e
<1> QED BY <1>12, <1>13 DEF NoPacket

LEMMA WriteOnlyWhatFits ==
    ASSUME NEW op, NEW L, NEW p, Write(op, L, p) # NoPacket PROVE AllFit(L, p)
BY DEF Write, AllFit

(* Every reply is read with the IP address, the bind index and the addresses *)
(* that it was written for.                                                  *)
LEMMA ReplyRead ==
    ASSUME NEW h \in Hosts, NEW i, NEW flags, GroupOK(Grouped(h)[i], own[h]),
           NEW w, w = WriteReply(PollReplyOf(h, i, flags)), w # NoPacket
    PROVE  /\ w.op = "pollReply"
           /\ ReadReply(w).source_ip = IpOf[h]
           /\ ReadReply(w).bind_index = <<BindIndex(own[h], i)>>
           /\ AddressesOf(ReadReply(w)) = AddressesIn(Grouped(h)[i])
<1> DEFINE e == ReplyRecord(PollReplyOf(h, i, flags))
           G == Grouped(h)[i]
           n == Len(G.universes)
           L == ReplyWritten
           R == ReplyLayout
           got == Read(R, w)
           p == With(ArtPollReply, got)
           r == ReadReply(w)
<1>1. /\ e["source_ip"] = IpOf[h] /\ e["net_switch"] = <<G.net>> /\ e["sub_switch"] = <<G.sub>>
      /\ e["bind_index"] = <<BindIndex(own[h], i)>> /\ e["port_count"] = <<n>>
      /\ e["port_types"] = [k \in 1..4 |-> IF k <= n THEN 197 ELSE 0]
      /\ e["sw_in"] = [k \in 1..4 |-> IF k <= n THEN G.universes[k] ELSE 0]
      /\ e["sw_out"] = [k \in 1..4 |-> IF k <= n THEN G.universes[k] ELSE 0]
  BY RecordOf
<1>2. w = Write("pollReply", L, e)
  BY ReplyWrittenFrom
<1>3. n \in 0..4
  BY DEF GroupOK
<1> HIDE DEF e, L, R, n, G
<1>4. AllFit(L, e)
  BY <1>2, WriteOnlyWhatFits
<1>5. w.op = "pollReply" /\ ReadAlong(got, R, e)
  <2>1. Layout(L) /\ Beginning(R, L)
    BY ReplyLayouts DEF L, R
  <2>2. Write("pollReply", L, e).op = "pollReply" /\ ReadAlong(Read(R, Write("pollReply", L, e)), R, e)
    BY <1>4, <2>1, RoundTrip
  <2> QED BY <1>2, <2>2
<1> HIDE DEF got
<1>6. ASSUME NEW k \in {1, 4, 5, 13, 14, 17, 18, 26}
      PROVE  L[k].name \in DOMAIN got /\ got[L[k].name] = Taken(L[k], e[L[k].name])
  <2>1. k \in 1..30 /\ Len(R) = 30 /\ R[k] = L[k]
    BY ReplyPrefix, ReplyFields DEF L, R
  <2>2. L[k].form # "gap"
    BY ReplyForms DEF L
  <2> QED BY <1>5, <2>1, <2>2 DEF ReadAlong, Gapless
<1>7. /\ L[1].name = "source_ip" /\ L[4].name = "net_switch" /\ L[5].name = "sub_switch" /\ L[13].name = "port_count"
      /\ L[14].name = "port_types" /\ L[17].name = "sw_in" /\ L[18].name = "sw_out" /\ L[26].name = "bind_index"
  BY ReplyNames DEF L
<1>8. \A k \in {1, 4, 5, 14, 17, 18, 26} : \A v : Taken(L[k], v) = v
  BY ReplyForms DEF L, Taken, Appended
<1>9. Taken(L[13], <<n>>) = <<n>>
  <2>1. L[13].form = "msb"
    BY ReplyForms DEF L
  <2>2. <<n>>[1] % 65536 = n
    BY <1>3
  <2> QED BY <2>1, <2>2 DEF Taken, Appended
<1>10. /\ got["source_ip"] = IpOf[h] /\ got["net_switch"] = <<G.net>> /\ got["sub_switch"] = <<G.sub>>
       /\ got["bind_index"] = <<BindIndex(own[h], i)>> /\ got["port_count"] = <<n>>
       /\ got["port_types"] = [k \in 1..4 |-> IF k <= n THEN 197 ELSE 0]
       /\ got["sw_in"] = [k \in 1..4 |-> IF k <= n THEN G.universes[k] ELSE 0]
       /\ got["sw_out"] = [k \in 1..4 |-> IF k <= n THEN G.universes[k] ELSE 0]
       /\ {"source_ip", "net_switch", "sub_switch", "bind_index", "port_count"} \subseteq DOMAIN got
  <2>1. /\ got["source_ip"] = e["source_ip"] /\ got["net_switch"] = e["net_switch"]
        /\ got["sub_switch"] = e["sub_switch"] /\ got["bind_index"] = e["bind_index"]
        /\ got["port_types"] = e["port_types"] /\ got["sw_in"] = e["sw_in"] /\ got["sw_out"] = e["sw_out"]
    BY <1>6, <1>7, <1>8
  <2>2. got["port_count"] = <<n>>
    BY <1>1, <1>6, <1>7, <1>9
  <2>3. {"source_ip", "net_switch", "sub_switch", "bind_index", "port_count"} \subseteq DOMAIN got
    BY <1>6, <1>7
  <2> QED BY <1>1, <2>1, <2>2, <2>3
<1> DEFINE shown == {"source_ip", "net_switch", "sub_switch", "bind_index", "port_count"}
<1>11. \A m \in shown : p[m] = got[m]
  BY <1>10 DEF With
<1>12. /\ "ports" \in DOMAIN ArtPollReply
       /\ {"source_ip", "net_switch", "sub_switch", "bind_index"} \subseteq DOMAIN ArtPollReply
  BY DEF ArtPollReply
<1>13. r = [m \in DOMAIN ArtPollReply |->
              CASE m = "indicator" -> 2 * Number1(Bit(p.status1[1], 7))
                [] m = "authority" -> 2 * Number1(Bit(p.status1[1], 5))
                [] m = "rom" -> Bit(p.status1[1], 2)
                [] m = "rdm" -> Bit(p.status1[1], 1)
                [] m = "ubea_present" -> Bit(p.status1[1], 0)
                [] m = "ports" -> [k \in 1..4 |-> IF k <= p.port_count[1] THEN PortFrom(got, k) ELSE Port]
                [] m = "status2" -> IF m \in DOMAIN got THEN Flags(Status2Bits, p.status2) ELSE p.status2
                [] m = "status3" -> (IF m \in DOMAIN got THEN Flags(Status3Bits, p.status3) ELSE p.status3)
                                      \cup (IF "default_resp_uid" \in DOMAIN got THEN {"llrp"} ELSE {})
                [] m = "failsafe" -> IF "status3" \in DOMAIN got THEN p.status3[1] \div 64 ELSE p.failsafe
                [] m = "direction" -> "status3" \in DOMAIN got /\ Bit(p.status3[1], 3)
                [] OTHER -> p[m]]
  <2> HIDE DEF p
  <2>1. ReplyReadArtNet2 \o ReplyReadExtensions = R
    BY ReplyReader DEF R
  <2> QED BY <2>1 DEF ReadReply, got, p
<1> HIDE DEF p, r
<1>14. /\ r.source_ip = p["source_ip"] /\ r.net_switch = p["net_switch"] /\ r.sub_switch = p["sub_switch"]
       /\ r.bind_index = p["bind_index"]
  BY <1>12, <1>13
<1>15. r.ports = [k \in 1..4 |-> IF k <= p.port_count[1] THEN PortFrom(got, k) ELSE Port]
  BY <1>12, <1>13
<1>16. /\ r.source_ip = IpOf[h] /\ r.net_switch = <<G.net>> /\ r.sub_switch = <<G.sub>>
       /\ r.bind_index = <<BindIndex(own[h], i)>>
  BY <1>10, <1>11, <1>14
<1>17. p.port_count[1] = n
  BY <1>10, <1>11
<1>18. ASSUME NEW k \in 1..4, k <= n
       PROVE  /\ r.ports[k].direction = {"output", "input"}
              /\ r.ports[k].sw_in = G.universes[k] /\ r.ports[k].sw_out = G.universes[k]
  <2>1. r.ports[k] = PortFrom(got, k)
    BY <1>15, <1>17, <1>18
  <2>2. got.port_types[k] = 197 /\ got.sw_in[k] = G.universes[k] /\ got.sw_out[k] = G.universes[k]
    BY <1>10, <1>18
  <2>3. Flags(TypeBits, <<197>>) = {"output", "input"}
    <3>1. Bit(197, 7) /\ Bit(197, 6)
      <4>1. 2^7 = 128 /\ 2^6 = 64
        BY SMT
      <4>2. (197 \div 128) % 2 = 1 /\ (197 \div 64) % 2 = 1
        BY SMT
      <4> QED BY <4>1, <4>2 DEF Bit
    <3>2. TypeBits["output"] = 7 /\ TypeBits["input"] = 6 /\ DOMAIN TypeBits = {"output", "input"}
      BY DEF TypeBits
    <3>3. <<197>>[1] = 197
      OBVIOUS
    <3> QED BY <3>1, <3>2, <3>3 DEF Flags
  <2> QED BY <2>1, <2>2, <2>3 DEF PortFrom
<1>19. ASSUME NEW k \in 1..4, ~(k <= n) PROVE r.ports[k].direction = {}
  <2>1. r.ports[k] = Port
    BY <1>15, <1>17, <1>19
  <2> QED BY <2>1, EmptyPortIs
<1> DEFINE A(q) == (IF "input" \in q.direction THEN {Of(G.net, G.sub, q.sw_in)} ELSE {}) \cup
                   (IF "output" \in q.direction THEN {Of(G.net, G.sub, q.sw_out)} ELSE {})
<1>20. AddressesOf(r) = UNION {A(q) : q \in {r.ports[k] : k \in 1..4}}
  <2>1. Range(r.ports) = {r.ports[k] : k \in 1..4}
    <3>1. DOMAIN r.ports = 1..4
      BY <1>15
    <3> QED BY <3>1 DEF Range
  <2>2. r.net_switch[1] = G.net /\ r.sub_switch[1] = G.sub
    BY <1>16
  <2> QED BY <2>1, <2>2 DEF AddressesOf, Of
<1>21. \A k \in 1..4 : A(r.ports[k]) = IF k <= n THEN {Of(G.net, G.sub, G.universes[k])} ELSE {}
  BY <1>18, <1>19
<1> HIDE DEF A
<1>22. UNION {A(q) : q \in {r.ports[k] : k \in 1..4}} = {Of(G.net, G.sub, G.universes[k]) : k \in 1..n}
  BY <1>3, <1>21
<1>23. DOMAIN G.universes = 1..n
  BY DEF GroupOK, G, n
<1>24. AddressesOf(r) = AddressesIn(G)
  BY <1>20, <1>22, <1>23 DEF AddressesIn
<1> QED BY <1>5, <1>16, <1>24 DEF r, G

-----------------------------------------------------------------------------
(* The groups of ports: every port is in one of them, four at most in each.  *)
IsAscending(s, us) ==
    /\ s \in [1..Cardinality(us) -> us]
    /\ \A i, j \in 1..Cardinality(us) : i < j => s[i] < s[j]

LEMMA AscendingExists ==
    \A m \in Nat : \A us \in SUBSET Nat : (\A u \in us : u < m) => IsFiniteSet(us) /\ \E s : IsAscending(s, us)
<1> DEFINE Q(m) == \A us \in SUBSET Nat : (\A u \in us : u < m) => IsFiniteSet(us) /\ \E s : IsAscending(s, us)
           T == {m \in Nat : Q(m)}
<1>1. 0 \in T
  <2> SUFFICES ASSUME NEW us \in SUBSET Nat, \A u \in us : u < 0 PROVE IsFiniteSet(us) /\ \E s : IsAscending(s, us)
    OBVIOUS
  <2>1. us = {}
    OBVIOUS
  <2>2. IsFiniteSet(us) /\ Cardinality(us) = 0
    BY <2>1, FS_EmptySet
  <2>3. IsAscending([i \in 1..0 |-> 0], us)
    BY <2>1, <2>2 DEF IsAscending
  <2> QED BY <2>2, <2>3
<1>2. ASSUME NEW m \in T PROVE m + 1 \in T
  <2> SUFFICES ASSUME NEW us \in SUBSET Nat, \A u \in us : u < m + 1
               PROVE  IsFiniteSet(us) /\ \E s : IsAscending(s, us)
    OBVIOUS
  <2> DEFINE vs == us \ {m}
             n == Cardinality(vs)
  <2>1. vs \in SUBSET Nat /\ \A u \in vs : u < m
    OBVIOUS
  <2>2. Q(m)
    OBVIOUS
  <2> HIDE DEF Q
  <2>3. IsFiniteSet(vs) /\ \E s : IsAscending(s, vs)
    <3> HIDE DEF vs
    <3> QED BY <2>1, <2>2 DEF Q
  <2>4. PICK s : IsAscending(s, vs)
    BY <2>3
  <2>5. CASE m \notin us
    <3>1. vs = us
      BY <2>5
    <3> QED BY <2>3, <3>1
  <2>6. CASE m \in us
    <3>1. us = vs \cup {m} /\ m \notin vs
      BY <2>6
    <3> HIDE DEF vs
    <3>2. IsFiniteSet(us) /\ Cardinality(us) = n + 1 /\ n \in Nat
      <4>1. IsFiniteSet(vs \cup {m}) /\ Cardinality(vs \cup {m}) = IF m \in vs THEN Cardinality(vs) ELSE Cardinality(vs) + 1
        BY <2>3, FS_AddElement
      <4>2. Cardinality(vs) \in Nat
        BY <2>3, FS_CardinalityType
      <4> QED BY <3>1, <4>1, <4>2
    <3> DEFINE t == [i \in 1..(n + 1) |-> IF i = n + 1 THEN m ELSE s[i]]
    <3>3. s \in [1..n -> vs] /\ \A i, j \in 1..n : i < j => s[i] < s[j]
      BY <2>4 DEF IsAscending
    <3> HIDE DEF n
    <3>4. \A i \in 1..(n + 1) : i = n + 1 \/ i \in 1..n
      BY <3>2
    <3>5. \A i \in 1..n : i # n + 1 /\ i \in 1..(n + 1)
      BY <3>2
    <3>6. t \in [1..(n + 1) -> us]
      BY <3>1, <3>3, <3>4
    <3>7. ASSUME NEW i \in 1..(n + 1), NEW j \in 1..(n + 1), i < j PROVE t[i] < t[j]
      <4>1. i \in 1..n
        BY <3>2, <3>7
      <4>2. t[i] = s[i] /\ s[i] \in vs
        BY <3>3, <3>5, <4>1
      <4>3. CASE j = n + 1
        BY <2>1, <4>2, <4>3
      <4>4. CASE j \in 1..n
        <5>1. t[j] = s[j]
          BY <3>5, <4>4
        <5> QED BY <3>3, <3>7, <4>1, <4>2, <4>4, <5>1
      <4> QED BY <3>4, <4>3, <4>4
    <3> HIDE DEF t
    <3>8. IsAscending(t, us)
      BY <3>2, <3>6, <3>7 DEF IsAscending
    <3> QED BY <3>2, <3>8
  <2> QED BY <2>5, <2>6
<1>3. T = Nat
  <2>1. T \in SUBSET Nat
    OBVIOUS
  <2> HIDE DEF T
  <2> QED BY <1>1, <1>2, <2>1, NatSetInduction
<1> QED BY <1>3

LEMMA Ascends ==
    ASSUME NEW us \in SUBSET (0..511)
    PROVE  /\ IsFiniteSet(us) /\ Cardinality(us) \in Nat /\ Ascending(us) \in [1..Cardinality(us) -> us]
           /\ \A u \in us : \E i \in 1..Cardinality(us) : Ascending(us)[i] = u
<1> DEFINE s == Ascending(us)
           n == Cardinality(us)
<1>1. us \in SUBSET Nat /\ 512 \in Nat /\ \A u \in us : u < 512
  OBVIOUS
<1>2. IsFiniteSet(us) /\ \E r : IsAscending(r, us)
  BY <1>1, AscendingExists
<1>3. n \in Nat
  BY <1>2, FS_CardinalityType
<1>4. IsAscending(s, us)
  BY <1>2 DEF IsAscending, Ascending
<1> HIDE DEF s, n
<1>5. s \in [1..n -> us] /\ \A i, j \in 1..n : i < j => s[i] < s[j]
  BY <1>4 DEF IsAscending, n
<1>6. s \in Injection(1..n, us)
  <2>1. ASSUME NEW i \in 1..n, NEW j \in 1..n, s[i] = s[j] PROVE i = j
    <3>1. s[i] \in Nat /\ s[j] \in Nat
      BY <1>1, <1>5
    <3>2. ~(i < j) /\ ~(j < i)
      BY <1>5, <2>1, <3>1
    <3> QED BY <1>3, <3>2
  <2> QED BY <1>5, <2>1 DEF Injection, IsInjective
<1>7. s \in Surjection(1..n, us)
  <2>1. Cardinality(1..n) = Cardinality(us)
    BY <1>3, CountedTo DEF n
  <2> QED BY <1>2, <1>6, <2>1, FS_Injection
<1>8. \A u \in us : \E i \in 1..n : s[i] = u
  BY <1>7 DEF Surjection
<1> QED BY <1>2, <1>3, <1>5, <1>8 DEF s, n

(* A set as a sequence. *)
LEMMA SetInSequence ==
    ASSUME NEW S, IsFiniteSet(S)
    PROVE  /\ Cardinality(S) \in Nat /\ SetToSeq(S) \in [1..Cardinality(S) -> S]
           /\ \A x \in S : \E i \in 1..Cardinality(S) : SetToSeq(S)[i] = x
<1> DEFINE n == Cardinality(S)
           s == SetToSeq(S)
<1>1. n \in Nat /\ ExistsBijection(1..n, S)
  BY FS_CardinalityType
<1>2. \E f \in [1..n -> S] : IsInjective(f)
  BY <1>1 DEF ExistsBijection, Bijection, Injection
<1>3. s \in [1..n -> S] /\ IsInjective(s)
  BY <1>2 DEF SetToSeq
<1> HIDE DEF s, n
<1>4. s \in Injection(1..n, S)
  BY <1>3 DEF Injection
<1>5. s \in Surjection(1..n, S)
  <2>1. Cardinality(1..n) = Cardinality(S)
    BY <1>1, CountedTo DEF n
  <2> QED BY <1>4, <2>1, FS_Injection
<1>6. \A x \in S : \E i \in 1..n : s[i] = x
  BY <1>5 DEF Surjection
<1> QED BY <1>1, <1>3, <1>6 DEF s, n

(* Four at a time. *)
Until(c, m) == IF 4 * c > m THEN m ELSE 4 * c

LEMMA ChunkNumbers ==
    ASSUME NEW m \in Nat
    PROVE  /\ (m + 3) \div 4 \in Nat
           /\ \A c \in 1..((m + 3) \div 4) : Until(c, m) \in 1..m /\ 4 * c - 3 \in 1..m /\ Until(c, m) - (4 * c - 3) + 1 \in 1..4
           /\ \A j \in 1..m : /\ (j + 3) \div 4 \in 1..((m + 3) \div 4)
                              /\ j - (4 * ((j + 3) \div 4) - 3) + 1 \in
                                    1..(Until((j + 3) \div 4, m) - (4 * ((j + 3) \div 4) - 3) + 1)
           /\ m <= 4 => (m + 3) \div 4 <= 1
BY DEF Until

LEMMA Portion ==
    ASSUME NEW S, NEW s \in Seq(S), NEW a \in 1..Len(s), NEW b \in a..Len(s)
    PROVE  /\ SubSeq(s, a, b) \in Seq(S)
           /\ Len(SubSeq(s, a, b)) = b - a + 1
           /\ \A k \in 1..(b - a + 1) : SubSeq(s, a, b)[k] = s[a + k - 1]
<1>1. Len(s) \in Nat /\ a \in Int /\ b \in Int
  OBVIOUS
<1> QED BY <1>1

LEMMA ChunksOf ==
    ASSUME NEW U, NEW m \in Nat, NEW s \in [1..m -> U]
    PROVE  /\ Chunks(s) = [c \in 1..((m + 3) \div 4) |-> Chunks(s)[c]] /\ (m + 3) \div 4 \in Nat
           /\ \A c \in 1..((m + 3) \div 4) : /\ Chunks(s)[c] \in Seq(U)
                                             /\ Len(Chunks(s)[c]) \in 1..4
           /\ \A j \in 1..m : \E c \in 1..((m + 3) \div 4) : \E k \in DOMAIN Chunks(s)[c] : Chunks(s)[c][k] = s[j]
           /\ m <= 4 => (m + 3) \div 4 <= 1
<1> DEFINE n == (m + 3) \div 4
<1>1. s \in Seq(U) /\ Len(s) = m
  OBVIOUS
<1>2. Chunks(s) = [c \in 1..n |-> SubSeq(s, 4 * c - 3, Until(c, m))]
  BY <1>1 DEF Chunks, Until
<1>3. n \in Nat /\ (m <= 4 => n <= 1)
  BY ChunkNumbers
<1>4. ASSUME NEW c \in 1..n
      PROVE  /\ Chunks(s)[c] \in Seq(U) /\ Len(Chunks(s)[c]) \in 1..4
             /\ Len(Chunks(s)[c]) = Until(c, m) - (4 * c - 3) + 1
             /\ \A k \in 1..(Until(c, m) - (4 * c - 3) + 1) : Chunks(s)[c][k] = s[(4 * c - 3) + k - 1]
  <2> DEFINE a == 4 * c - 3
             b == Until(c, m)
  <2>1. a \in 1..m /\ b \in 1..m /\ b - a + 1 \in 1..4
    BY ChunkNumbers
  <2>2. Chunks(s)[c] = SubSeq(s, a, b)
    BY <1>2
  <2> HIDE DEF a, b
  <2>3. a \in 1..Len(s) /\ b \in a..Len(s)
    BY <1>1, <2>1
  <2>4. /\ SubSeq(s, a, b) \in Seq(U) /\ Len(SubSeq(s, a, b)) = b - a + 1
        /\ \A k \in 1..(b - a + 1) : SubSeq(s, a, b)[k] = s[a + k - 1]
    BY <1>1, <2>3, Portion
  <2>5. /\ Chunks(s)[c] \in Seq(U) /\ Len(Chunks(s)[c]) \in 1..4 /\ Len(Chunks(s)[c]) = b - a + 1
        /\ \A k \in 1..(b - a + 1) : Chunks(s)[c][k] = s[a + k - 1]
    BY <2>1, <2>2, <2>4
  <2> QED BY <2>5 DEF a, b
<1>5. ASSUME NEW j \in 1..m PROVE \E c \in 1..n : \E k \in DOMAIN Chunks(s)[c] : Chunks(s)[c][k] = s[j]
  <2> DEFINE c == (j + 3) \div 4
             k == j - (4 * c - 3) + 1
  <2>1. c \in 1..n /\ k \in 1..(Until(c, m) - (4 * c - 3) + 1)
    BY ChunkNumbers
  <2>2. (4 * c - 3) + k - 1 = j /\ c \in Int
    OBVIOUS
  <2> HIDE DEF c, k, n
  <2>3. Chunks(s)[c] \in Seq(U) /\ Len(Chunks(s)[c]) = Until(c, m) - (4 * c - 3) + 1
    BY <1>4, <2>1
  <2>4. k \in DOMAIN Chunks(s)[c]
    BY <2>1, <2>3
  <2>5. Chunks(s)[c][k] = s[(4 * c - 3) + k - 1]
    BY <1>4, <2>1
  <2> QED BY <2>1, <2>2, <2>4, <2>5
<1>6. Chunks(s) = [c \in 1..n |-> Chunks(s)[c]]
  BY <1>2
<1> HIDE DEF n
<1> QED BY <1>3, <1>4, <1>5, <1>6 DEF n

(* One after the other. *)
FlatRun(g, n, ss) == g = [i \in 1..n |-> IF i = 1 THEN ss[i] ELSE g[i - 1] \o ss[i]]

LEMMA FlatRunExists ==
    ASSUME NEW ss PROVE \A n \in Nat : \E g : FlatRun(g, n, ss)
<1> DEFINE T == {n \in Nat : \E g : FlatRun(g, n, ss)}
<1>1. 0 \in T
  <2>1. FlatRun([i \in 1..0 |-> <<>>], 0, ss)
    BY DEF FlatRun
  <2> QED BY <2>1
<1>2. ASSUME NEW n \in T PROVE n + 1 \in T
  <2>1. PICK g : FlatRun(g, n, ss)
    OBVIOUS
  <2> DEFINE last == IF n = 0 THEN ss[1] ELSE g[n] \o ss[n + 1]
             h == [i \in 1..(n + 1) |-> IF i <= n THEN g[i] ELSE last]
  <2>2. ASSUME NEW i \in 1..(n + 1) PROVE h[i] = IF i = 1 THEN ss[i] ELSE h[i - 1] \o ss[i]
    <3>1. CASE i = n + 1
      <4>1. h[i] = last
        BY <3>1
      <4>2. n # 0 => h[n] = g[n] /\ i - 1 = n /\ i # 1
        BY <3>1
      <4>3. n = 0 => i = 1
        BY <3>1
      <4> HIDE DEF h
      <4> QED BY <3>1, <4>1, <4>2, <4>3
    <3>2. CASE i \in 1..n
      <4>1. g[i] = IF i = 1 THEN ss[i] ELSE g[i - 1] \o ss[i]
        BY <2>1, <3>2 DEF FlatRun
      <4>2. h[i] = g[i] /\ (i # 1 => h[i - 1] = g[i - 1])
        BY <3>2
      <4> HIDE DEF h
      <4> QED BY <4>1, <4>2
    <3> QED BY <3>1, <3>2
  <2>3. h = [i \in 1..(n + 1) |-> h[i]]
    OBVIOUS
  <2> HIDE DEF h
  <2>4. FlatRun(h, n + 1, ss)
    BY <2>2, <2>3 DEF FlatRun
  <2> HIDE DEF FlatRun
  <2> QED BY <2>4
<1>3. T = Nat
  <2>1. T \in SUBSET Nat
    OBVIOUS
  <2> HIDE DEF T
  <2> QED BY <1>1, <1>2, <2>1, NatSetInduction
<1> QED BY <1>3

Within(f, ss, n) == \A j \in DOMAIN f : \E i \in 1..n : \E k \in DOMAIN ss[i] : f[j] = ss[i][k]
AllOf(f, ss, n) == \A i \in 1..n : \A k \in DOMAIN ss[i] : \E j \in DOMAIN f : f[j] = ss[i][k]

LEMMA Flattened ==
    ASSUME NEW S, NEW n \in Nat, NEW ss \in [1..n -> Seq(S)]
    PROVE  /\ FlattenSeq(ss) \in Seq(S) /\ Within(FlattenSeq(ss), ss, n) /\ AllOf(FlattenSeq(ss), ss, n)
           /\ n = 0 => Len(FlattenSeq(ss)) = 0
           /\ n = 1 => Len(FlattenSeq(ss)) = Len(ss[1])
<1> DEFINE g == CHOOSE r : FlatRun(r, n, ss)
<1>1. Len(ss) = n /\ ss \in Seq(Seq(S))
  OBVIOUS
<1>2. \E r : FlatRun(r, n, ss)
  BY FlatRunExists
<1>3. FlatRun(g, n, ss)
  BY <1>2
<1>4. FlattenSeq(ss) = IF n = 0 THEN ss ELSE g[n]
  <2>1. FlattenSeq(ss) = IF Len(ss) = 0 THEN ss ELSE (CHOOSE r : FlatRun(r, Len(ss), ss))[Len(ss)]
    BY DEF FlattenSeq, FlatRun
  <2> QED BY <1>1, <2>1
<1> HIDE DEF g
<1> DEFINE P(k) == g[k] \in Seq(S) /\ Within(g[k], ss, k) /\ AllOf(g[k], ss, k)
           T == {k \in Nat : k \in 1..n => P(k)}
<1>5. 0 \in T
  OBVIOUS
<1>6. ASSUME NEW k \in T PROVE k + 1 \in T
  <2> SUFFICES ASSUME k + 1 \in 1..n PROVE P(k + 1)
    OBVIOUS
  <2>1. g[k + 1] = IF k + 1 = 1 THEN ss[k + 1] ELSE g[(k + 1) - 1] \o ss[k + 1]
    BY <1>3 DEF FlatRun
  <2>2. ss[k + 1] \in Seq(S)
    OBVIOUS
  <2>3. CASE k = 0
    <3>1. g[k + 1] = ss[k + 1] /\ \A i \in 1..(k + 1) : i = k + 1
      BY <2>1, <2>3
    <3> QED BY <2>2, <2>3, <3>1 DEF Within, AllOf
  <2>4. CASE k # 0
    <3>1. P(k) /\ k \in 1..n /\ k \in Nat
      BY <2>4
    <3> DEFINE f == g[k]
               e == ss[k + 1]
               h == g[k + 1]
    <3>2. h = f \o e
      <4>1. (k + 1) - 1 = k /\ k + 1 # 1
        BY <2>4
      <4> HIDE DEF P
      <4> QED BY <2>1, <4>1
    <3>3. f \in Seq(S) /\ e \in Seq(S) /\ Within(f, ss, k) /\ AllOf(f, ss, k)
      BY <2>2, <3>1
    <3> HIDE DEF f, e, h, P
    <3>4. /\ h \in Seq(S) /\ Len(h) = Len(f) + Len(e)
          /\ \A i \in 1..(Len(f) + Len(e)) : h[i] = IF i <= Len(f) THEN f[i] ELSE e[i - Len(f)]
      BY <3>2, <3>3, Concatenation
    <3>5. /\ Len(f) \in Nat /\ Len(e) \in Nat /\ DOMAIN f = 1..Len(f) /\ DOMAIN e = 1..Len(e)
          /\ DOMAIN h = 1..(Len(f) + Len(e))
      BY <3>3, <3>4
    <3>6. ASSUME NEW j \in DOMAIN h PROVE \E i \in 1..(k + 1) : \E l \in DOMAIN ss[i] : h[j] = ss[i][l]
      <4>1. CASE j <= Len(f)
        <5>1. j \in DOMAIN f /\ h[j] = f[j]
          BY <3>4, <3>5, <4>1
        <5>2. PICK i \in 1..k : \E l \in DOMAIN ss[i] : f[j] = ss[i][l]
          BY <3>3, <5>1 DEF Within
        <5>3. i \in 1..(k + 1)
          BY <3>1
        <5> QED BY <5>1, <5>2, <5>3
      <4>2. CASE ~(j <= Len(f))
        <5>1. j - Len(f) \in DOMAIN e /\ h[j] = e[j - Len(f)] /\ k + 1 \in 1..(k + 1)
          BY <3>1, <3>4, <3>5, <4>2
        <5> QED BY <5>1 DEF e
      <4> QED BY <4>1, <4>2
    <3>7. ASSUME NEW i \in 1..(k + 1), NEW l \in DOMAIN ss[i] PROVE \E j \in DOMAIN h : h[j] = ss[i][l]
      <4>1. CASE i \in 1..k
        <5>1. PICK j \in DOMAIN f : f[j] = ss[i][l]
          BY <3>3, <4>1 DEF AllOf
        <5>2. j \in DOMAIN h /\ h[j] = f[j]
          BY <3>4, <3>5
        <5> QED BY <5>1, <5>2
      <4>2. CASE i = k + 1
        <5>1. l \in DOMAIN e /\ ss[i][l] = e[l]
          BY <4>2 DEF e
        <5>2. Len(f) + l \in DOMAIN h /\ h[Len(f) + l] = e[(Len(f) + l) - Len(f)] /\ (Len(f) + l) - Len(f) = l
          BY <3>4, <3>5, <5>1
        <5> QED BY <5>1, <5>2
      <4>3. i \in 1..k \/ i = k + 1
        BY <3>1
      <4> QED BY <4>1, <4>2, <4>3
    <3> QED BY <3>4, <3>6, <3>7 DEF P, h, Within, AllOf
  <2> QED BY <2>3, <2>4
<1>7. T = Nat
  <2>1. T \in SUBSET Nat
    OBVIOUS
  <2> HIDE DEF T
  <2> QED BY <1>5, <1>6, <2>1, NatSetInduction
<1>8. CASE n = 0
  <2>1. FlattenSeq(ss) = ss /\ DOMAIN ss = {}
    BY <1>4, <1>8
  <2>2. ss \in Seq(S) /\ Len(ss) = 0 /\ \A i \in 1..n : FALSE
    BY <1>8
  <2> QED BY <1>8, <2>1, <2>2 DEF Within, AllOf
<1>9. CASE n # 0
  <2>1. n \in T /\ n \in 1..n
    BY <1>7, <1>9
  <2>2. P(n)
    BY <2>1
  <2>3. FlattenSeq(ss) = g[n]
    BY <1>4, <1>9
  <2>4. n = 1 => g[n] = ss[1]
    BY <1>3, <2>1 DEF FlatRun
  <2> QED BY <1>9, <2>2, <2>3, <2>4
<1> QED BY <1>8, <1>9

(* Sets of ports. *)
Pairs(ports) == {<<a.net, a.sub>> : a \in ports}
In(ports, g) == {b \in ports : <<b.net, b.sub>> = g}
Universes(ports, g) == {a.universe : a \in In(ports, g)}
GroupList(ports, g) ==
    [c \in DOMAIN Chunks(Ascending(Universes(ports, g))) |->
        [net |-> g[1], sub |-> g[2], universes |-> Chunks(Ascending(Universes(ports, g)))[c]]]

LEMMA PortsFinite ==
    ASSUME NEW ports \in SUBSET PortAddresses
    PROVE  /\ IsFiniteSet(ports) /\ Cardinality(ports) \in Nat
           /\ IsFiniteSet(Pairs(ports)) /\ Cardinality(Pairs(ports)) \in Nat
           /\ \A g : Universes(ports, g) \in SUBSET (0..511) /\ Cardinality(Universes(ports, g)) <= Cardinality(ports)
<1>1. IsFiniteSet(ports)
  <2> DEFINE T == 0..15
             U == 0..511
             K == (T \X T) \X U
             f == [a \in ports |-> <<<<a.net, a.sub>>, a.universe>>]
  <2>1. IsFiniteSet(T) /\ IsFiniteSet(U)
    <3>1. \A k \in Int : IsFiniteSet(0..k)
      BY FS_Interval
    <3>2. 15 \in Int /\ 511 \in Int
      OBVIOUS
    <3> QED BY <3>1, <3>2, Zenon
  <2>2. \A a \in ports : a.net \in T /\ a.sub \in T /\ a.universe \in U
    BY DEF PortAddresses
  <2>3. \A a, b \in ports : a.net = b.net /\ a.sub = b.sub /\ a.universe = b.universe => a = b
    BY DEF PortAddresses
  <2> HIDE DEF T, U
  <2>4. IsFiniteSet(T \X T)
    BY <2>1, FS_Product
  <2>5. IsFiniteSet(K)
    BY <2>1, <2>4, FS_Product
  <2>6. f \in [ports -> K]
    BY <2>2
  <2>7. \A a, b \in ports : f[a] = f[b] => a = b
    BY <2>3
  <2> HIDE DEF f, K
  <2>8. f \in Injection(ports, K)
    BY <2>6, <2>7 DEF Injection, IsInjective
  <2> QED BY <2>5, <2>8, FS_Injection
<1>2. Cardinality(ports) \in Nat
  BY <1>1, FS_CardinalityType
<1>3. IsFiniteSet(Pairs(ports)) /\ Cardinality(Pairs(ports)) \in Nat
  <2> DEFINE f == [a \in ports |-> <<a.net, a.sub>>]
  <2>1. f \in Surjection(ports, Pairs(ports))
    BY DEF Surjection, Pairs
  <2> HIDE DEF f
  <2>2. IsFiniteSet(Pairs(ports))
    BY <1>1, <2>1, FS_Surjection
  <2> QED BY <2>2, FS_CardinalityType
<1>4. ASSUME NEW g
      PROVE  Universes(ports, g) \in SUBSET (0..511) /\ Cardinality(Universes(ports, g)) <= Cardinality(ports)
  <2> DEFINE B == In(ports, g)
             us == Universes(ports, g)
             f == [a \in B |-> a.universe]
  <2>1. us \in SUBSET (0..511)
    BY DEF Universes, In, PortAddresses
  <2>2. f \in Surjection(B, us)
    BY DEF Surjection, Universes
  <2>3. B \in SUBSET ports
    BY DEF In
  <2> HIDE DEF f, B, us
  <2>4. IsFiniteSet(B) /\ Cardinality(B) <= Cardinality(ports)
    BY <1>1, <2>3, FS_Subset
  <2>5. IsFiniteSet(us) /\ Cardinality(us) <= Cardinality(B)
    BY <2>2, <2>4, FS_Surjection
  <2>6. Cardinality(us) \in Nat /\ Cardinality(B) \in Nat
    BY <2>4, <2>5, FS_CardinalityType
  <2> QED BY <1>2, <2>1, <2>4, <2>5, <2>6 DEF us
<1> QED BY <1>1, <1>2, <1>3, <1>4

LEMMA SeqWithin ==
    ASSUME NEW S, NEW T, S \subseteq T, NEW s \in Seq(S)
    PROVE  s \in Seq(T)
<1> DEFINE n == Len(s)
<1>1. n \in Nat /\ s = [i \in 1..n |-> s[i]] /\ \A i \in 1..n : s[i] \in S
  OBVIOUS
<1>2. s \in [1..n -> T]
  <2> HIDE DEF n
  <2> QED BY <1>1
<1> HIDE DEF n
<1> QED BY <1>1, <1>2

(* The replies for one net and sub-net. *)
LEMMA OneGroup ==
    ASSUME NEW ports \in SUBSET PortAddresses, NEW g \in Pairs(ports)
    PROVE  /\ GroupList(ports, g) \in Seq({G \in [net : 0..15, sub : 0..15, universes : Seq(0..511)] : GroupOK(G, ports)})
           /\ \A a \in In(ports, g) : \E c \in DOMAIN GroupList(ports, g) : a \in AddressesIn(GroupList(ports, g)[c])
           /\ Cardinality(ports) <= 4 => Len(GroupList(ports, g)) <= 1
<1> DEFINE us == Universes(ports, g)
           m == Cardinality(us)
           s == Ascending(us)
           n == (m + 3) \div 4
           ch == Chunks(s)
           gl == GroupList(ports, g)
           S == {G \in [net : 0..15, sub : 0..15, universes : Seq(0..511)] : GroupOK(G, ports)}
<1>1. us \in SUBSET (0..511) /\ Cardinality(us) <= Cardinality(ports) /\ Cardinality(ports) \in Nat
  BY PortsFinite
<1>2. PICK b \in ports : g = <<b.net, b.sub>>
  BY DEF Pairs
<1>3. g[1] \in 0..15 /\ g[2] \in 0..15 /\ g = <<g[1], g[2]>>
  BY <1>2 DEF PortAddresses
<1>4. \A u \in us : Of(g[1], g[2], u) \in ports
  <2> SUFFICES ASSUME NEW u \in us PROVE Of(g[1], g[2], u) \in ports
    OBVIOUS
  <2>1. PICK a \in ports : <<a.net, a.sub>> = g /\ u = a.universe
    BY DEF Universes, In
  <2>2. a = Of(a.net, a.sub, a.universe)
    BY DEF PortAddresses, Of
  <2> QED BY <1>3, <2>1, <2>2
<1>5. m \in Nat /\ s \in [1..m -> us] /\ \A u \in us : \E i \in 1..m : s[i] = u
  <2> HIDE DEF us
  <2> QED BY <1>1, Ascends
<1> HIDE DEF us, m, s
<1>6. /\ ch = [c \in 1..n |-> ch[c]] /\ n \in Nat
      /\ \A c \in 1..n : ch[c] \in Seq(us) /\ Len(ch[c]) \in 1..4
      /\ \A j \in 1..m : \E c \in 1..n : \E k \in DOMAIN ch[c] : ch[c][k] = s[j]
      /\ m <= 4 => n <= 1
  BY <1>5, ChunksOf
<1> HIDE DEF n, ch
<1>7. gl = [c \in 1..n |-> [net |-> g[1], sub |-> g[2], universes |-> ch[c]]]
  BY <1>6 DEF GroupList, ch, s, us
<1> HIDE DEF gl
<1>8. ASSUME NEW c \in 1..n
      PROVE  /\ gl[c] \in S /\ gl[c].net = g[1] /\ gl[c].sub = g[2] /\ gl[c].universes = ch[c]
  <2> DEFINE us2 == ch[c]
  <2>1. gl[c] = [net |-> g[1], sub |-> g[2], universes |-> us2]
    BY <1>7
  <2>2. us2 \in Seq(us) /\ Len(us2) \in 1..4
    BY <1>6
  <2> HIDE DEF us2
  <2>3. /\ us2 \in Seq(0..511) /\ Len(us2) \in 0..4 /\ DOMAIN us2 = 1..Len(us2)
        /\ \A k \in 1..Len(us2) : us2[k] \in us
    <3>1. Len(us2) \in 0..4 /\ DOMAIN us2 = 1..Len(us2) /\ \A k \in 1..Len(us2) : us2[k] \in us
      BY <2>2
    <3>2. us2 \in Seq(0..511)
      <4> DEFINE U == 0..511
      <4>1. us \in SUBSET U
        BY <1>1
      <4>2. us2 \in Seq(us)
        BY <2>2
      <4> HIDE DEF U
      <4>3. us2 \in Seq(U)
        BY <4>1, <4>2, SeqWithin
      <4> QED BY <4>3 DEF U
    <3> QED BY <3>1, <3>2
  <2>4. \A k \in 1..Len(us2) : us2[k] \in 0..511 /\ Of(g[1], g[2], us2[k]) \in ports
    BY <1>1, <1>4, <2>3
  <2>5. gl[c].net = g[1] /\ gl[c].sub = g[2] /\ gl[c].universes = us2
    BY <2>1
  <2>6. GroupOK(gl[c], ports)
    BY <1>3, <2>3, <2>4, <2>5 DEF GroupOK
  <2>7. gl[c] \in [net : 0..15, sub : 0..15, universes : Seq(0..511)]
    BY <1>3, <2>1, <2>3
  <2> QED BY <2>5, <2>6, <2>7 DEF us2
<1>9. gl \in Seq(S) /\ Len(gl) = n /\ DOMAIN gl = 1..n
  <2>1. \A c \in 1..n : gl[c] \in S
    BY <1>8
  <2> HIDE DEF S
  <2>2. gl = [c \in 1..n |-> gl[c]]
    BY <1>7
  <2> QED BY <1>6, <2>1, <2>2
<1>10. ASSUME NEW a \in In(ports, g) PROVE \E c \in DOMAIN gl : a \in AddressesIn(gl[c])
  <2>1. a.universe \in us /\ <<a.net, a.sub>> = g /\ a \in ports
    BY DEF us, Universes, In
  <2>2. a = Of(g[1], g[2], a.universe)
    BY <1>3, <2>1 DEF PortAddresses, Of
  <2>3. PICK j \in 1..m : s[j] = a.universe
    BY <1>5, <2>1
  <2>4. PICK c \in 1..n : \E k \in DOMAIN ch[c] : ch[c][k] = s[j]
    BY <1>6
  <2>5. PICK k \in DOMAIN ch[c] : ch[c][k] = s[j]
    BY <2>4
  <2>6. a \in AddressesIn(gl[c])
    BY <1>8, <2>2, <2>3, <2>5 DEF AddressesIn
  <2> QED BY <1>9, <2>6
<1>11. Cardinality(ports) <= 4 => Len(gl) <= 1
  <2>1. m <= Cardinality(ports)
    BY <1>1 DEF m
  <2>2. Cardinality(ports) \in Nat /\ m \in Nat
    BY <1>1, <1>5
  <2> QED BY <1>6, <1>9, <2>1, <2>2
<1> QED BY <1>9, <1>10, <1>11 DEF gl, S

LEMMA GroupsOf ==
    ASSUME NEW ports \in SUBSET PortAddresses
    PROVE  /\ Len(GroupedPorts(ports)) \in Nat /\ DOMAIN GroupedPorts(ports) = 1..Len(GroupedPorts(ports))
           /\ \A i \in DOMAIN GroupedPorts(ports) : GroupOK(GroupedPorts(ports)[i], ports)
           /\ \A a \in ports : \E i \in DOMAIN GroupedPorts(ports) : a \in AddressesIn(GroupedPorts(ports)[i])
           /\ Len(Groups(ports)) = Cardinality(Pairs(ports)) /\ Cardinality(Pairs(ports)) \in Nat
           /\ Cardinality(Pairs(ports)) <= 1 /\ Cardinality(ports) <= 4 => Len(GroupedPorts(ports)) <= 1
<1> DEFINE S == {G \in [net : 0..15, sub : 0..15, universes : Seq(0..511)] : GroupOK(G, ports)}
           n == Cardinality(Pairs(ports))
           gs == Groups(ports)
           ss == [i \in 1..n |-> GroupList(ports, gs[i])]
           G4 == GroupedPorts(ports)
<1>1. IsFiniteSet(Pairs(ports)) /\ n \in Nat
  BY PortsFinite
<1>2. gs = SetToSeq(Pairs(ports))
  BY DEF Groups, Pairs
<1>3. gs \in [1..n -> Pairs(ports)] /\ \A x \in Pairs(ports) : \E i \in 1..n : gs[i] = x
  BY <1>1, <1>2, SetInSequence
<1> HIDE DEF gs
<1>4. G4 = FlattenSeq(ss)
  <2>1. G4 = FlattenSeq([i \in DOMAIN gs |-> GroupList(ports, gs[i])])
    BY DEF GroupedPorts, GroupList, UniversesOf, Universes, In, gs
  <2>2. DOMAIN gs = 1..n
    BY <1>3
  <2> QED BY <2>1, <2>2
<1> HIDE DEF n
<1>5. ASSUME NEW i \in 1..n
      PROVE  /\ ss[i] \in Seq(S)
             /\ \A a \in In(ports, gs[i]) : \E c \in DOMAIN ss[i] : a \in AddressesIn(ss[i][c])
             /\ Cardinality(ports) <= 4 => Len(ss[i]) <= 1
  <2>1. gs[i] \in Pairs(ports) /\ ss[i] = GroupList(ports, gs[i])
    BY <1>3
  <2> HIDE DEF ss
  <2>2. /\ GroupList(ports, gs[i]) \in Seq(S)
        /\ \A a \in In(ports, gs[i]) : \E c \in DOMAIN GroupList(ports, gs[i]) : a \in AddressesIn(GroupList(ports, gs[i])[c])
        /\ Cardinality(ports) <= 4 => Len(GroupList(ports, gs[i])) <= 1
    BY <2>1, OneGroup
  <2> QED BY <2>1, <2>2
<1>6. ss \in [1..n -> Seq(S)]
  <2> HIDE DEF S
  <2> QED BY <1>5
<1> HIDE DEF ss, S, G4
<1>7. /\ G4 \in Seq(S) /\ Within(G4, ss, n) /\ AllOf(G4, ss, n)
      /\ n = 0 => Len(G4) = 0
      /\ n = 1 => Len(G4) = Len(ss[1])
  BY <1>1, <1>4, <1>6, Flattened
<1>8. Len(G4) \in Nat /\ DOMAIN G4 = 1..Len(G4) /\ \A i \in 1..Len(G4) : G4[i] \in S
  BY <1>7
<1>9. \A i \in DOMAIN G4 : GroupOK(G4[i], ports)
  BY <1>8 DEF S
<1>10. ASSUME NEW a \in ports PROVE \E i \in DOMAIN G4 : a \in AddressesIn(G4[i])
  <2>1. <<a.net, a.sub>> \in Pairs(ports)
    BY DEF Pairs
  <2>2. PICK i \in 1..n : gs[i] = <<a.net, a.sub>>
    BY <1>3, <2>1
  <2>3. a \in In(ports, gs[i])
    BY <2>2 DEF In
  <2>4. PICK c \in DOMAIN ss[i] : a \in AddressesIn(ss[i][c])
    BY <1>5, <2>3
  <2>5. \E j \in DOMAIN G4 : G4[j] = ss[i][c]
    BY <1>7 DEF AllOf
  <2> QED BY <2>4, <2>5
<1>11. Len(gs) = n
  BY <1>1, <1>3
<1>12. n <= 1 /\ Cardinality(ports) <= 4 => Len(G4) <= 1
  <2>1. n = 0 \/ n = 1 \/ ~(n <= 1)
    BY <1>1
  <2>2. n = 1 /\ Cardinality(ports) <= 4 => Len(G4) <= 1
    <3>1. n = 1 => 1 \in 1..n
      OBVIOUS
    <3> QED BY <1>5, <1>7, <3>1
  <2> QED BY <1>7, <2>1, <2>2
<1> QED BY <1>1, <1>8, <1>9, <1>10, <1>11, <1>12 DEF G4, gs, n

-----------------------------------------------------------------------------
(* The network.  Every datagram in flight is a poll, diagnostics, a frame of *)
(* a universe of its sender, or one of the sender's poll replies.            *)
IsReply(w, g, i) ==
    w # NoPacket /\ \E flags \in [own[g] -> BOOLEAN] : w = WriteReply(PollReplyOf(g, i, flags))

GoodPacket(w, g) ==
    \/ \E h \in Hosts : w = PollPacket(h)
    \/ w = DiagPacket(<<128>>)
    \/ \E a \in own[g] : w = FramePacket(a)
    \/ \E i \in DOMAIN Grouped(g) : IsReply(w, g, i)

GoodDatagram(d) == d.from \in Hosts /\ d.to \in Hosts /\ GoodPacket(d.packet, d.from)

(* What a server makes of the i-th reply of another. *)
NodeOf(g, i) ==
    [ip |-> IpOf[g], bind |-> <<BindIndex(own[g], i)>>, addresses |-> AddressesIn(Grouped(g)[i])]

GoodNode(n) == \E g \in Hosts : \E i \in DOMAIN Grouped(g) : n = NodeOf(g, i)

GoodFrame(f) == f.from \in Hosts /\ \E a \in own[f.from] : f.data = Frame(a) /\ f.port = Arrives(a)

WireInv == \A d \in wire : GoodDatagram(d)

NetInv ==
    /\ losses \in 0..MaxLosses /\ faults \in 0..MaxFaults
    /\ subscribers \in [Hosts -> SUBSET Hosts] /\ delayed \in [Hosts -> SUBSET Hosts]
    /\ OfHosts(nodes)
    /\ \A h \in Hosts : \A n \in nodes[h] : GoodNode(n)
    /\ \A f \in delivered : GoodFrame(f)

(* A reply of g to h that has been sent is on its way or known. *)
Underway(g, h, i) == \E d \in wire : d.from = g /\ d.to = h /\ IsReply(d.packet, g, i)
Answered(g, h) == h \in subscribers[g] /\ h \notin delayed[g] /\ Announces(g) /\ losses = 0 /\ faults = 0
AnswerInv ==
    \A g, h \in Hosts :
        Answered(g, h) => \A i \in DOMAIN Grouped(g) : Underway(g, h, i) \/ NodeOf(g, i) \in nodes[h]

IInv == FlagInv /\ WireInv /\ NetInv /\ AnswerInv

(* Nothing of this depends on anything but the ports. *)
LEMMA SameReplies ==
    ASSUME own' = own, NEW g, NEW i
    PROVE  /\ Grouped(g)' = Grouped(g) /\ NodeOf(g, i)' = NodeOf(g, i)
           /\ \A w : IsReply(w, g, i)' <=> IsReply(w, g, i)
<1>1. Grouped(g)' = Grouped(g)
  BY DEF Grouped
<1>2. NodeOf(g, i)' = NodeOf(g, i)
  BY <1>1 DEF NodeOf
<1>3. \A flags : PollReplyOf(g, i, flags)' = PollReplyOf(g, i, flags)
  BY DEF PollReplyOf, Ports
<1>4. ASSUME NEW w PROVE IsReply(w, g, i)' <=> IsReply(w, g, i)
  <2>1. ASSUME IsReply(w, g, i) PROVE IsReply(w, g, i)'
    <3>1. PICK flags \in [own[g] -> BOOLEAN] : w = WriteReply(PollReplyOf(g, i, flags))
      BY <2>1 DEF IsReply
    <3>2. flags \in [own'[g] -> BOOLEAN] /\ w = WriteReply(PollReplyOf(g, i, flags)')
      BY <1>3, <3>1
    <3> QED BY <2>1, <3>2 DEF IsReply
  <2>2. ASSUME IsReply(w, g, i)' PROVE IsReply(w, g, i)
    <3>1. PICK flags \in [own'[g] -> BOOLEAN] : w = WriteReply(PollReplyOf(g, i, flags)')
      BY <2>2 DEF IsReply
    <3>2. flags \in [own[g] -> BOOLEAN] /\ w = WriteReply(PollReplyOf(g, i, flags))
      BY <1>3, <3>1
    <3> QED BY <2>2, <3>2 DEF IsReply
  <2> QED BY <2>1, <2>2
<1> QED BY <1>1, <1>2, <1>4

LEMMA SameGood ==
    ASSUME own' = own, NEW d, GoodDatagram(d) PROVE GoodDatagram(d)'
<1>1. \A h : PollPacket(h)' = PollPacket(h)
  BY DEF PollPacket, Ports
<1>2. \A g, i : /\ Grouped(g)' = Grouped(g)
                /\ \A w : IsReply(w, g, i)' <=> IsReply(w, g, i)
  BY SameReplies
<1>3. d.from \in Hosts /\ d.to \in Hosts /\ GoodPacket(d.packet, d.from)
  BY DEF GoodDatagram
<1>4. GoodPacket(d.packet, d.from)'
  <2>1. CASE \E h \in Hosts : d.packet = PollPacket(h)
    BY <1>1, <2>1 DEF GoodPacket
  <2>2. CASE d.packet = DiagPacket(<<128>>)
    BY <2>2 DEF GoodPacket
  <2>3. CASE \E a \in own[d.from] : d.packet = FramePacket(a)
    BY <2>3 DEF GoodPacket
  <2>4. CASE \E i \in DOMAIN Grouped(d.from) : IsReply(d.packet, d.from, i)
    <3>1. \E i \in DOMAIN Grouped(d.from)' : IsReply(d.packet, d.from, i)'
      BY <1>2, <2>4
    <3> QED BY <3>1 DEF GoodPacket
  <2> QED BY <1>3, <2>1, <2>2, <2>3, <2>4 DEF GoodPacket
<1> QED BY <1>3, <1>4 DEF GoodDatagram

(* What a packet in flight is told by its opcode. *)
LEMMA Replying ==
    ASSUME FlagInv, NEW g \in Hosts
    PROVE  \A i \in DOMAIN Grouped(g) : GroupOK(Grouped(g)[i], own[g])
<1>1. own[g] \in SUBSET PortAddresses
  BY DEF FlagInv
<1>2. \A i \in DOMAIN GroupedPorts(own[g]) : GroupOK(GroupedPorts(own[g])[i], own[g])
  BY <1>1, GroupsOf
<1> QED BY <1>2 DEF Grouped

LEMMA ReplyKnown ==
    ASSUME FlagInv, NEW g \in Hosts, NEW i \in DOMAIN Grouped(g), NEW w, IsReply(w, g, i)
    PROVE  /\ w.op = "pollReply"
           /\ [ip |-> ReadReply(w).source_ip, bind |-> ReadReply(w).bind_index,
               addresses |-> AddressesOf(ReadReply(w))] = NodeOf(g, i)
<1>1. PICK flags : w = WriteReply(PollReplyOf(g, i, flags)) /\ w # NoPacket
  BY DEF IsReply
<1>2. GroupOK(Grouped(g)[i], own[g])
  BY Replying
<1>3. /\ w.op = "pollReply" /\ ReadReply(w).source_ip = IpOf[g]
      /\ ReadReply(w).bind_index = <<BindIndex(own[g], i)>>
      /\ AddressesOf(ReadReply(w)) = AddressesIn(Grouped(g)[i])
  BY <1>1, <1>2, ReplyRead
<1> QED BY <1>3 DEF NodeOf

LEMMA Kinds ==
    ASSUME FlagInv, NEW g \in Hosts, NEW w, GoodPacket(w, g)
    PROVE  /\ w # NoPacket
           /\ w.op = "poll" => ReadPoll(w).priority = <<128>>
           /\ w.op = "dmx" => \E a \in own[g] : /\ ReadDmx(w).data = Frame(a)
                                                /\ ReadDmx(w).port_address = Arrives(a)
           /\ w.op = "pollReply" => \E i \in DOMAIN Grouped(g) : IsReply(w, g, i)
<1> DEFINE Claim == /\ w # NoPacket
                    /\ w.op = "poll" => ReadPoll(w).priority = <<128>>
                    /\ w.op = "dmx" => \E a \in own[g] : /\ ReadDmx(w).data = Frame(a)
                                                         /\ ReadDmx(w).port_address = Arrives(a)
                    /\ w.op = "pollReply" => \E i \in DOMAIN Grouped(g) : IsReply(w, g, i)
<1>1. NoPacket.op = "none"
  BY DEF NoPacket
<1>2. ASSUME NEW h \in Hosts, w = PollPacket(h) PROVE Claim
  <2>1. w.op = "poll" /\ ReadPoll(w).priority = <<128>>
    BY <1>2, PollSent
  <2> QED BY <1>1, <2>1
<1>3. CASE w = DiagPacket(<<128>>)
  <2>1. w.op = "diagData"
    BY <1>3, DiagSent
  <2> QED BY <1>1, <2>1
<1>4. ASSUME NEW a \in own[g], w = FramePacket(a) PROVE Claim
  <2>1. a \in PortAddresses
    BY DEF FlagInv
  <2>2. w.op = "dmx" /\ ReadDmx(w).data = Frame(a) /\ ReadDmx(w).port_address = Arrives(a)
    BY <1>4, <2>1, FrameRead
  <2> QED BY <1>1, <2>2
<1>5. ASSUME NEW i \in DOMAIN Grouped(g), IsReply(w, g, i) PROVE Claim
  <2>1. w.op = "pollReply"
    BY <1>5, ReplyKnown
  <2> QED BY <1>1, <1>5, <2>1
<1> HIDE DEF Claim
<1>6. Claim
  <2>1. CASE \E h \in Hosts : w = PollPacket(h)
    BY <1>2, <2>1
  <2>2. CASE \E a \in own[g] : w = FramePacket(a)
    BY <1>4, <2>2
  <2>3. CASE \E i \in DOMAIN Grouped(g) : IsReply(w, g, i)
    BY <1>5, <2>3
  <2>4. \/ \E h \in Hosts : w = PollPacket(h)
        \/ w = DiagPacket(<<128>>)
        \/ \E a \in own[g] : w = FramePacket(a)
        \/ \E i \in DOMAIN Grouped(g) : IsReply(w, g, i)
    BY DEF GoodPacket
  <2>5. CASE w = DiagPacket(<<128>>)
    BY <1>3, <2>5 DEF Claim
  <2> QED BY <2>1, <2>2, <2>3, <2>4, <2>5, Zenon
<1> QED BY <1>6 DEF Claim

(* The replies that are sent. *)
LEMMA RepliesGood ==
    ASSUME FlagInv, NEW h \in Hosts, NEW to \in Hosts, NEW flags \in [own[h] -> BOOLEAN],
           NEW d \in Replies(h, to, flags)
    PROVE  GoodDatagram(d)
<1> DEFINE packets == ReplyPackets(h, flags)
<1>1. PICK i \in DOMAIN packets : d = Datagram(h, to, packets[i]) /\ \A j \in 1..i : packets[j] # NoPacket
  BY DEF Replies, Datagrams, Writes
<1>2. i \in DOMAIN Grouped(h) /\ i \in 1..i
  <2>1. i \in DOMAIN Grouped(h)
    BY <1>1 DEF ReplyPackets, Grouped, Ports
  <2>2. own[h] \in SUBSET PortAddresses
    BY DEF FlagInv
  <2>3. DOMAIN Grouped(h) = 1..Len(Grouped(h)) /\ Len(Grouped(h)) \in Nat
    BY <2>2, GroupsOf DEF Grouped
  <2> QED BY <2>1, <2>3
<1>3. packets[i] = WriteReply(PollReplyOf(h, i, flags))
  BY <1>1 DEF ReplyPackets
<1> HIDE DEF packets
<1>4. IsReply(packets[i], h, i)
  BY <1>1, <1>2, <1>3 DEF IsReply
<1>5. d.from = h /\ d.to = to /\ d.packet = packets[i]
  BY <1>1 DEF Datagram
<1>6. GoodPacket(d.packet, h)
  BY <1>2, <1>4, <1>5 DEF GoodPacket
<1> QED BY <1>5, <1>6 DEF GoodDatagram

(* A host whose bind indices and universes are bytes can write its replies.  *)
LEMMA RepliesFit ==
    ASSUME FlagInv, NEW h \in Hosts, NEW flags \in [own[h] -> BOOLEAN], Writable(h)
    PROVE  /\ DOMAIN ReplyPackets(h, flags) = DOMAIN Grouped(h)
           /\ \A k \in DOMAIN Grouped(h) : IsReply(ReplyPackets(h, flags)[k], h, k)
           /\ Writes(ReplyPackets(h, flags)) = DOMAIN Grouped(h)
<1> DEFINE packets == ReplyPackets(h, flags)
<1>1. own[h] \in SUBSET PortAddresses
  BY DEF FlagInv
<1>2. /\ DOMAIN Grouped(h) = 1..Len(Grouped(h)) /\ Len(Grouped(h)) \in Nat
      /\ \A k \in DOMAIN Grouped(h) : GroupOK(Grouped(h)[k], own[h])
  BY <1>1, GroupsOf DEF Grouped
<1>3. Len(Grouped(h)) <= 255 /\ \A a \in own[h] : a.universe < 256
  BY DEF Writable, Grouped
<1>4. DOMAIN packets = DOMAIN Grouped(h)
  BY DEF ReplyPackets, Grouped, Ports
<1>5. ASSUME NEW k \in DOMAIN Grouped(h)
      PROVE  packets[k] = WriteReply(PollReplyOf(h, k, flags)) /\ packets[k] # NoPacket
  <2>1. k \in DOMAIN GroupedPorts(Ports(h))
    BY DEF Grouped, Ports
  <2>2. packets[k] = WriteReply(PollReplyOf(h, k, flags))
    BY <2>1 DEF ReplyPackets
  <2>3. GroupOK(Grouped(h)[k], own[h])
    BY <1>2
  <2>4. BindIndex(own[h], k) \in 0..255
    <3>1. k \in 1..Len(Grouped(h))
      BY <1>2
    <3>2. k \in 0..255 /\ 0 \in 0..255
      <4> DEFINE m == Len(Grouped(h))
      <4>1. m \in Nat /\ m <= 255 /\ k \in 1..m
        BY <1>2, <1>3, <3>1
      <4> HIDE DEF m
      <4> QED BY <4>1
    <3> QED BY <3>2 DEF BindIndex
  <2>5. ASSUME NEW j \in DOMAIN Grouped(h)[k].universes PROVE Grouped(h)[k].universes[j] <= 255
    <3> DEFINE u == Grouped(h)[k].universes[j]
    <3>1. u \in 0..511 /\ Of(Grouped(h)[k].net, Grouped(h)[k].sub, u) \in own[h]
      BY <2>3, <2>5 DEF GroupOK
    <3>2. Of(Grouped(h)[k].net, Grouped(h)[k].sub, u).universe = u
      BY DEF Of
    <3> HIDE DEF u
    <3>3. u < 256
      BY <1>3, <3>1, <3>2
    <3>4. u <= 255
      BY <3>1, <3>3
    <3> QED BY <3>4 DEF u
  <2>6. WriteReply(PollReplyOf(h, k, flags)) # NoPacket
    BY <2>3, <2>4, <2>5, ReplyFits
  <2> QED BY <2>2, <2>6
<1> HIDE DEF packets
<1>6. \A k \in DOMAIN Grouped(h) : \A j \in 1..k : j \in DOMAIN Grouped(h)
  BY <1>2
<1>7. Writes(packets) = DOMAIN Grouped(h)
  BY <1>4, <1>5, <1>6 DEF Writes
<1>8. \A k \in DOMAIN Grouped(h) : IsReply(packets[k], h, k)
  BY <1>5 DEF IsReply
<1> QED BY <1>4, <1>7, <1>8 DEF packets

LEMMA RepliesSent ==
    ASSUME FlagInv, NEW h \in Hosts, NEW to \in Hosts, NEW flags \in [own[h] -> BOOLEAN], Announces(h),
           NEW i \in DOMAIN Grouped(h)
    PROVE  \E d \in Replies(h, to, flags) : d.from = h /\ d.to = to /\ IsReply(d.packet, h, i)
<1> DEFINE packets == ReplyPackets(h, flags)
<1>1. Writable(h)
  BY DEF Announces
<1>2. Writes(packets) = DOMAIN Grouped(h) /\ IsReply(packets[i], h, i)
  BY <1>1, RepliesFit
<1>3. Replies(h, to, flags) = {Datagram(h, to, packets[k]) : k \in Writes(packets)}
  BY DEF Replies, Datagrams
<1> HIDE DEF packets
<1>4. Datagram(h, to, packets[i]) \in Replies(h, to, flags)
  BY <1>2, <1>3
<1> QED BY <1>2, <1>4 DEF Datagram

-----------------------------------------------------------------------------
(* The outcomes of send_reply and of update_subscribers.                     *)
IsOutcome(o) == o = [sent |-> o.sent, raised |-> o.raised, faulty |-> o.faulty]

LEMMA ReplyOutcomes ==
    ASSUME FlagInv, NEW h \in Hosts, NEW to, NEW flags, NEW o \in SendReply(h, to, flags)
    PROVE  /\ IsOutcome(o)
           /\ o.sent \subseteq Replies(h, to, flags)
           /\ o.raised => o.faulty \/ ~CanWrite(h, flags)
           /\ ~o.faulty => o.sent = Replies(h, to, flags)
<1> DEFINE packets == ReplyPackets(h, flags)
           writes == Writes(packets)
<1>1. Replies(h, to, flags) = Datagrams(h, to, packets, writes) /\ (CanWrite(h, flags) <=> writes = DOMAIN packets)
  BY DEF Replies, CanWrite
<1>2. \/ o = [sent |-> Datagrams(h, to, packets, writes), raised |-> writes # DOMAIN packets, faulty |-> FALSE]
      \/ \E k \in writes : o = [sent |-> Datagrams(h, to, packets, 1..(k - 1)), raised |-> TRUE, faulty |-> TRUE]
  BY DEF SendReply
<1>3. ASSUME NEW k \in writes PROVE 1..(k - 1) \subseteq writes
  <2>1. own[h] \in SUBSET PortAddresses
    BY DEF FlagInv
  <2>2. DOMAIN packets = 1..Len(Grouped(h)) /\ Len(Grouped(h)) \in Nat
    BY <2>1, GroupsOf DEF ReplyPackets, Grouped, Ports
  <2> HIDE DEF packets
  <2> QED BY <1>3, <2>2 DEF Writes
<1> HIDE DEF packets, writes
<1>4. CASE o = [sent |-> Datagrams(h, to, packets, writes), raised |-> writes # DOMAIN packets, faulty |-> FALSE]
  BY <1>1, <1>4 DEF IsOutcome
<1>5. ASSUME NEW k \in writes, o = [sent |-> Datagrams(h, to, packets, 1..(k - 1)), raised |-> TRUE, faulty |-> TRUE]
      PROVE  IsOutcome(o) /\ o.sent \subseteq Replies(h, to, flags) /\ o.faulty
  <2>1. Datagrams(h, to, packets, 1..(k - 1)) \subseteq Datagrams(h, to, packets, writes)
    BY <1>3 DEF Datagrams
  <2> QED BY <1>1, <1>5, <2>1 DEF IsOutcome
<1> QED BY <1>2, <1>4, <1>5

LEMMA UpdateOutcomes ==
    ASSUME FlagInv, subscribers \in [Hosts -> SUBSET Hosts], NEW h \in Hosts, NEW flags \in [own[h] -> BOOLEAN],
           NEW o \in UpdateSubscribers(h, flags)
    PROVE  /\ \A d \in o.sent : GoodDatagram(d)
           /\ o.raised => subscribers[h] # {} /\ (o.faulty \/ ~CanWrite(h, flags))
<1>1. ASSUME NEW gs \in SUBSET subscribers[h], NEW d \in RepliesTo(h, gs, flags) PROVE GoodDatagram(d)
  <2>1. PICK g \in gs : d \in Replies(h, g, flags)
    BY <1>1 DEF RepliesTo
  <2>2. g \in Hosts
    OBVIOUS
  <2> QED BY <2>1, <2>2, RepliesGood
<1>2. ASSUME NEW g \in subscribers[h], o \in Interrupted(h, g, flags)
      PROVE  /\ \A d \in o.sent : GoodDatagram(d)
             /\ o.faulty \/ ~CanWrite(h, flags)
  <2>1. PICK last \in SendReply(h, g, flags), done \in SUBSET (subscribers[h] \ {g}) :
           last.raised /\ o = [last EXCEPT !.sent = @ \cup RepliesTo(h, done, flags)]
    BY <1>2 DEF Interrupted
  <2>2. g \in Hosts /\ done \in SUBSET subscribers[h]
    OBVIOUS
  <2>3. /\ IsOutcome(last) /\ last.sent \subseteq Replies(h, g, flags)
        /\ last.faulty \/ ~CanWrite(h, flags)
    BY <2>1, <2>2, ReplyOutcomes
  <2>4. o.sent = last.sent \cup RepliesTo(h, done, flags) /\ o.faulty = last.faulty
    BY <2>1, <2>3 DEF IsOutcome
  <2>5. \A d \in last.sent : GoodDatagram(d)
    BY <2>2, <2>3, RepliesGood
  <2> QED BY <1>1, <2>2, <2>3, <2>4, <2>5
<1>3. CASE \E g \in subscribers[h] : o \in Interrupted(h, g, flags)
  BY <1>2, <1>3
<1>4. CASE o = [Nothing EXCEPT !.sent = RepliesTo(h, subscribers[h], flags)]
  <2>1. o.sent = RepliesTo(h, subscribers[h], flags) /\ ~o.raised
    BY <1>4 DEF Nothing
  <2>2. subscribers[h] \in SUBSET subscribers[h]
    OBVIOUS
  <2> QED BY <1>1, <2>1, <2>2
<1> DEFINE interrupted == UNION {Interrupted(h, g, flags) : g \in subscribers[h]}
           complete == [Nothing EXCEPT !.sent = RepliesTo(h, subscribers[h], flags)]
<1>5. o \in interrupted => \E g \in subscribers[h] : o \in Interrupted(h, g, flags)
  OBVIOUS
<1>6. UpdateSubscribers(h, flags) = interrupted \cup IF subscribers[h] = {} \/ CanWrite(h, flags) THEN {complete} ELSE {}
  BY DEF UpdateSubscribers
<1> HIDE DEF interrupted, complete
<1>7. o \in interrupted \/ o = complete
  BY <1>6
<1> QED BY <1>3, <1>4, <1>5, <1>7 DEF complete

LEMMA OutcomeCounted ==
    ASSUME NEW o, Counted(o), faults \in 0..MaxFaults
    PROVE  faults' \in 0..MaxFaults /\ faults' >= faults /\ (o.faulty => faults' > 0)
<1>1. Number1(o.faulty) \in {0, 1} /\ (o.faulty => Number1(o.faulty) = 1)
  BY DEF Number1
<1>2. faults' = faults + Number1(o.faulty) /\ faults' <= MaxFaults /\ MaxFaults \in Nat
  BY SetupsAssumption DEF Counted
<1> QED BY <1>1, <1>2

(* A frame arrives: unless the update of the subscribers raises, a task      *)
(* sleeps for it.                                                            *)
LEMMA FlagReceive ==
    ASSUME FlagInv, NetInv, NEW d \in wire, d.to \in Hosts, ReceiveDmx(d.to, d),
           \A g \in Hosts : MayHaveRaised(g) => MayHaveRaised(g)'
    PROVE  FlagInv'
<1> DEFINE h == d.to
           a == ReadDmx(d.packet).port_address
<1>1. own' = own /\ subscribers' = subscribers
  BY DEF ReceiveDmx
<1>2. CASE UNCHANGED input
  BY <1>1, <1>2 DEF FlagInv, PortInv, OfHosts, NoPorts, input
<1>3. CASE ~UNCHANGED input
  <2>1. /\ a \in own[h]
        /\ received' = [received EXCEPT ![h][a] = TRUE]
        /\ \E o \in IF received[h][a] THEN {Nothing} ELSE UpdateSubscribers(h, received'[h]) :
             /\ Counted(o)
             /\ IF o.raised THEN UNCHANGED <<age, flagTasks>>
                ELSE /\ age' = [age EXCEPT ![h][a] = 0]
                     /\ flagTasks' = [flagTasks EXCEPT ![h][a] = @ \cup {FlagTime}]
    BY <1>3 DEF ReceiveDmx, Ports
  <2> HIDE DEF a
  <2>2. PICK o \in IF received[h][a] THEN {Nothing} ELSE UpdateSubscribers(h, received'[h]) :
           /\ Counted(o)
           /\ IF o.raised THEN UNCHANGED <<age, flagTasks>>
              ELSE /\ age' = [age EXCEPT ![h][a] = 0]
                   /\ flagTasks' = [flagTasks EXCEPT ![h][a] = @ \cup {FlagTime}]
    BY <2>1
  <2>3. /\ received[h] \in [own[h] -> BOOLEAN] /\ age[h][a] \in 0..FlagTime /\ PortInv(h, a)
        /\ flagTasks[h][a] \in SUBSET (0..FlagTime)
        /\ OfHosts(received) /\ OfHosts(age) /\ OfHosts(flagTasks)
    BY <2>1 DEF FlagInv
  <2>4. CASE ~o.raised
    <3> DEFINE T == flagTasks[h][a] \cup {FlagTime}
    <3>1. T \in SUBSET (0..FlagTime) /\ FlagTime \in T /\ 0 \in 0..FlagTime
      BY <2>3, FlagTimeAssumption
    <3>2. age' = [age EXCEPT ![h][a] = 0] /\ flagTasks' = [flagTasks EXCEPT ![h][a] = T]
      BY <2>2, <2>4
    <3>3. \E t \in T : 0 + t >= FlagTime
      <4> HIDE DEF T
      <4>1. 0 + FlagTime >= FlagTime
        BY FlagTimeAssumption
      <4> QED BY <3>1, <4>1
    <3> HIDE DEF T
    <3> QED BY <1>1, <2>1, <3>1, <3>2, <3>3, FlagAt
  <2>5. CASE o.raised
    <3>1. ~received[h][a] /\ o \in UpdateSubscribers(h, received'[h])
      BY <2>2, <2>5 DEF Nothing
    <3>2. age[h][a] = FlagTime
      BY <2>3, <3>1, FlagTimeAssumption DEF PortInv
    <3>3. received'[h] \in [own[h] -> BOOLEAN]
      <4>1. received'[h] = [received[h] EXCEPT ![a] = TRUE]
        BY <2>1, <2>3 DEF OfHosts
      <4> QED BY <2>3, <4>1
    <3>4. subscribers \in [Hosts -> SUBSET Hosts] /\ faults \in 0..MaxFaults
      BY DEF NetInv
    <3>5. subscribers[h] # {} /\ (o.faulty \/ ~CanWrite(h, received'[h]))
      BY <2>5, <3>1, <3>3, <3>4, UpdateOutcomes
    <3>6. o.faulty => faults' > 0
      BY <2>2, <3>4, OutcomeCounted
    <3>7. Writable(h) => CanWrite(h, received'[h])
      BY <3>3, RepliesFit DEF CanWrite
    <3>8. MayHaveRaised(h)'
      <4>1. Writable(h)' <=> Writable(h)
        BY <1>1 DEF Writable
      <4> QED BY <1>1, <3>5, <3>6, <3>7, <4>1 DEF MayHaveRaised
    <3>9. /\ age' = [age EXCEPT ![h][a] = FlagTime]
          /\ flagTasks' = [flagTasks EXCEPT ![h][a] = flagTasks[h][a]]
      <4>1. age' = age /\ flagTasks' = flagTasks
        BY <2>2, <2>5
      <4>2. age[h] = [age[h] EXCEPT ![a] = FlagTime] /\ flagTasks[h] = [flagTasks[h] EXCEPT ![a] = flagTasks[h][a]]
        <5>1. age[h] \in [own[h] -> 0..FlagTime] /\ flagTasks[h] \in [own[h] -> SUBSET (0..FlagTime)]
          BY DEF FlagInv
        <5> QED BY <3>2, <5>1
      <4>3. age = [age EXCEPT ![h] = age[h]] /\ flagTasks = [flagTasks EXCEPT ![h] = flagTasks[h]]
        BY <2>3 DEF OfHosts
      <4> QED BY <4>1, <4>2, <4>3
    <3>10. FlagTime \in 0..FlagTime
      BY FlagTimeAssumption
    <3> QED BY <1>1, <2>1, <2>3, <3>8, <3>9, <3>10, FlagAt
  <2> QED BY <2>4, <2>5
<1> QED BY <1>2, <1>3

(* What a step leaves as it is. *)
AnswerAt(g, h) ==
    Answered(g, h) => \A i \in DOMAIN Grouped(g) : Underway(g, h, i) \/ NodeOf(g, i) \in nodes[h]

LEMMA FlagSame ==
    ASSUME FlagInv, own' = own, UNCHANGED input, \A g \in Hosts : MayHaveRaised(g) => MayHaveRaised(g)'
    PROVE  FlagInv'
BY DEF FlagInv, PortInv, OfHosts, NoPorts, input

LEMMA WireFrom ==
    ASSUME WireInv, own' = own, NEW sent, wire' \subseteq wire \cup sent, \A d \in sent : GoodDatagram(d)
    PROVE  WireInv'
<1> SUFFICES ASSUME NEW d \in wire' PROVE GoodDatagram(d)'
  BY DEF WireInv
<1>1. GoodDatagram(d)
  BY DEF WireInv
<1> QED BY <1>1, SameGood

LEMMA WireShrinks == ASSUME WireInv, own' = own, wire' \subseteq wire PROVE WireInv'
<1> DEFINE sent == {}
<1>1. wire' \subseteq wire \cup sent /\ \A d \in sent : GoodDatagram(d)
  OBVIOUS
<1> HIDE DEF sent
<1> QED BY <1>1, WireFrom

LEMMA SameNodes ==
    ASSUME own' = own
    PROVE  /\ \A n : GoodNode(n) => GoodNode(n)'
           /\ \A f : GoodFrame(f) => GoodFrame(f)'
<1>1. ASSUME NEW n, GoodNode(n) PROVE GoodNode(n)'
  <2>1. PICK g \in Hosts : \E i \in DOMAIN Grouped(g) : n = NodeOf(g, i)
    BY <1>1 DEF GoodNode
  <2>2. PICK i \in DOMAIN Grouped(g) : n = NodeOf(g, i)
    BY <2>1
  <2>3. Grouped(g)' = Grouped(g) /\ NodeOf(g, i)' = NodeOf(g, i)
    BY SameReplies
  <2> QED BY <2>2, <2>3 DEF GoodNode
<1>2. ASSUME NEW f, GoodFrame(f) PROVE GoodFrame(f)'
  BY <1>2 DEF GoodFrame
<1> QED BY <1>1, <1>2

LEMMA AnnouncesSame == ASSUME own' = own, NEW g PROVE Announces(g)' <=> Announces(g)
BY DEF Announces, Writable

LEMMA AnswerKept ==
    ASSUME FlagInv, own' = own, NEW g \in Hosts, NEW h \in Hosts, AnswerAt(g, h),
           Answered(g, h)' => Answered(g, h), nodes[h] \subseteq nodes'[h],
           \A d \in wire : d.packet.op = "pollReply" /\ d.to = h => d \in wire'
    PROVE  AnswerAt(g, h)'
<1> SUFFICES ASSUME Answered(g, h)' PROVE (\A i \in DOMAIN Grouped(g) : Underway(g, h, i) \/ NodeOf(g, i) \in nodes[h])'
  BY DEF AnswerAt
<1>1. \A i \in DOMAIN Grouped(g) : Underway(g, h, i) \/ NodeOf(g, i) \in nodes[h]
  BY DEF AnswerAt
<1>2. Grouped(g)' = Grouped(g)
  BY DEF Grouped
<1>3. ASSUME NEW i \in DOMAIN Grouped(g) PROVE Underway(g, h, i)' \/ NodeOf(g, i)' \in nodes'[h]
  <2>1. NodeOf(g, i)' = NodeOf(g, i) /\ \A w : IsReply(w, g, i)' <=> IsReply(w, g, i)
    BY SameReplies
  <2>2. CASE NodeOf(g, i) \in nodes[h]
    BY <2>1, <2>2
  <2>3. CASE Underway(g, h, i)
    <3>1. PICK d \in wire : d.from = g /\ d.to = h /\ IsReply(d.packet, g, i)
      BY <2>3 DEF Underway
    <3>2. d.packet.op = "pollReply"
      BY <3>1, ReplyKnown
    <3>3. d \in wire'
      BY <3>1, <3>2
    <3> QED BY <2>1, <3>1, <3>3 DEF Underway
  <2> QED BY <1>1, <2>2, <2>3
<1> QED BY <1>2, <1>3

LEMMA AnswerSplit == AnswerInv <=> \A g, h \in Hosts : AnswerAt(g, h)
BY DEF AnswerInv, AnswerAt

LEMMA AnswerSplitNext == AnswerInv' <=> \A g, h \in Hosts : AnswerAt(g, h)'
BY DEF AnswerInv, AnswerAt

(* No action but these touches the subscribers, nor loses replies. *)
LEMMA AnswersKept ==
    ASSUME FlagInv, AnswerInv, own' = own, UNCHANGED <<nodes, subscribers, delayed>>, losses' = losses,
           faults' = 0 => faults = 0, \A d \in wire : d.packet.op = "pollReply" => d \in wire'
    PROVE  AnswerInv'
<1> SUFFICES ASSUME NEW g \in Hosts, NEW h \in Hosts PROVE AnswerAt(g, h)'
  BY AnswerSplitNext
<1>1. AnswerAt(g, h)
  BY AnswerSplit
<1>2. Answered(g, h)' => Answered(g, h)
  BY AnnouncesSame DEF Answered
<1> QED BY <1>1, <1>2, AnswerKept

LEMMA NetKept ==
    ASSUME NetInv, own' = own, UNCHANGED <<losses, nodes, subscribers, delayed, delivered>>,
           faults' = faults \/ faults' \in 0..MaxFaults
    PROVE  NetInv'
BY SameNodes DEF NetInv, OfHosts

-----------------------------------------------------------------------------
LEMMA IInvInit == Init => IInv
<1> SUFFICES ASSUME Init PROVE IInv
  OBVIOUS
<1>1. WireInv
  BY DEF Init, WireInv
<1>2. NetInv
  BY SetupsAssumption DEF Init, NetInv, OfHosts
<1>3. AnswerInv
  BY DEF Init, AnswerInv, Answered
<1> QED BY <1>1, <1>2, <1>3, FlagInit DEF IInv

Rest == WireInv /\ NetInv /\ AnswerInv

LEMMA PollStep == ASSUME IInv, NEW h \in Pollers, Poll(h) PROVE Rest'
<1> USE DEF IInv
<1> DEFINE sent == {Datagram(h, g, PollPacket(h)) : g \in Hosts \ {h}}
<1>1. /\ own' = own /\ UNCHANGED <<nodes, subscribers, delayed, delivered>> /\ UNCHANGED <<losses, faults>>
      /\ wire' = wire \cup sent
  BY DEF Poll, PollPacket
<1>2. h \in Hosts
  BY SetupsAssumption
<1>3. \A d \in sent : GoodDatagram(d)
  BY <1>2 DEF GoodDatagram, GoodPacket, Datagram
<1> HIDE DEF sent
<1>4. WireInv'
  BY <1>1, <1>3, WireFrom
<1>5. NetInv'
  BY <1>1, NetKept
<1>6. AnswerInv'
  BY <1>1, AnswersKept
<1> QED BY <1>4, <1>5, <1>6 DEF Rest

LEMMA ReceivePollStep == ASSUME IInv, NEW d \in wire, ReceivePoll(d.to, d) PROVE Rest'
<1> USE DEF IInv
<1> DEFINE h == d.to
           p == ReadPoll(d.packet)
           sent == {Datagram(h, d.from, DiagPacket(p.priority))}
<1>1. GoodDatagram(d) /\ d.from \in Hosts /\ h \in Hosts /\ d.packet.op = "poll"
  BY DEF WireInv, GoodDatagram, ReceivePoll
<1>2. p.priority = <<128>>
  BY <1>1, Kinds DEF GoodDatagram
<1>3. own' = own /\ nodes' = nodes /\ UNCHANGED <<losses, faults>> /\ delivered' = delivered
  BY DEF ReceivePoll
<1>4. wire' \subseteq wire \cup sent /\ wire \ {d} \subseteq wire'
  BY DEF ReceivePoll, HandlePoll, DiagPacket
<1>5. \/ subscribers' = subscribers /\ delayed' = delayed
      \/ /\ delayed' = [delayed EXCEPT ![h] = @ \cup {d.from}]
         /\ \/ subscribers' = [subscribers EXCEPT ![h] = @ \cup {d.from}]
            \/ subscribers' = [subscribers EXCEPT ![h] = @]
  BY DEF ReceivePoll, HandlePoll
<1>6. WireInv'
  <2>1. \A e \in sent : GoodDatagram(e)
    BY <1>1, <1>2 DEF GoodDatagram, GoodPacket, Datagram
  <2> HIDE DEF sent
  <2> QED BY <1>3, <1>4, <2>1, WireFrom
<1> HIDE DEF h, p, sent
<1>7. subscribers \in [Hosts -> SUBSET Hosts] /\ delayed \in [Hosts -> SUBSET Hosts]
  BY DEF NetInv
<1>8. subscribers' \in [Hosts -> SUBSET Hosts] /\ delayed' \in [Hosts -> SUBSET Hosts]
  BY <1>1, <1>5, <1>7
<1>9. NetInv'
  BY <1>3, <1>8, SameNodes DEF NetInv, OfHosts
<1>10. ASSUME NEW g \in Hosts, NEW k \in Hosts PROVE AnswerAt(g, k)'
  <2>1. Answered(g, k)' => Answered(g, k)
    <3>1. k \in subscribers'[g] /\ k \notin delayed'[g] => k \in subscribers[g] /\ k \notin delayed[g]
      BY <1>5, <1>7
    <3> QED BY <1>3, <3>1, AnnouncesSame DEF Answered
  <2>2. AnswerAt(g, k)
    BY AnswerSplit
  <2>3. \A e \in wire : e.packet.op = "pollReply" /\ e.to = k => e \in wire'
    BY <1>1, <1>4
  <2> QED BY <1>3, <2>1, <2>2, <2>3, AnswerKept
<1>11. AnswerInv'
  BY <1>10, AnswerSplitNext
<1> QED BY <1>6, <1>9, <1>11 DEF Rest

LEMMA DelayedReplyStep ==
    ASSUME IInv, NEW h \in Hosts, NEW to \in Hosts, DelayedReply(h, to) PROVE Rest'
<1> USE DEF IInv
<1>1. /\ own' = own /\ nodes' = nodes /\ losses' = losses /\ subscribers' = subscribers /\ delivered' = delivered
      /\ delayed' = [delayed EXCEPT ![h] = @ \ {to}]
  BY DEF DelayedReply
<1>0. PICK o \in SendReply(h, to, received[h]) : Counted(o) /\ wire' = wire \cup o.sent
  BY DEF DelayedReply
<1>2. received[h] \in [own[h] -> BOOLEAN]
  BY DEF FlagInv
<1>3. o.sent \subseteq Replies(h, to, received[h]) /\ (~o.faulty => o.sent = Replies(h, to, received[h]))
  BY ReplyOutcomes
<1>4. WireInv'
  <2>1. \A d \in o.sent : GoodDatagram(d)
    BY <1>2, <1>3, RepliesGood
  <2> QED BY <1>0, <1>1, <2>1, WireFrom
<1>5. /\ subscribers \in [Hosts -> SUBSET Hosts] /\ delayed \in [Hosts -> SUBSET Hosts]
      /\ faults \in 0..MaxFaults
  BY DEF NetInv
<1>6. delayed' \in [Hosts -> SUBSET Hosts]
  BY <1>1, <1>5
<1>10. faults' \in 0..MaxFaults /\ (faults' = 0 => faults = 0 /\ ~o.faulty)
  BY <1>0, <1>5, OutcomeCounted
<1>7. NetInv'
  BY <1>1, <1>5, <1>6, <1>10, SameNodes DEF NetInv, OfHosts
<1>8. ASSUME NEW g \in Hosts, NEW k \in Hosts PROVE AnswerAt(g, k)'
  <2>1. CASE g = h /\ k = to
    <3> SUFFICES ASSUME Answered(g, k)'
                 PROVE (\A i \in DOMAIN Grouped(g) : Underway(g, k, i) \/ NodeOf(g, i) \in nodes[k])'
      BY DEF AnswerAt
    <3>1. Announces(h)
      BY <1>1, <2>1, AnnouncesSame DEF Answered
    <3>2. Grouped(h)' = Grouped(h)
      BY <1>1 DEF Grouped
    <3>4. o.sent = Replies(h, to, received[h])
      BY <1>3, <1>10 DEF Answered
    <3>3. ASSUME NEW i \in DOMAIN Grouped(h) PROVE Underway(h, to, i)'
      <4>1. PICK d \in Replies(h, to, received[h]) : d.from = h /\ d.to = to /\ IsReply(d.packet, h, i)
        BY <1>2, <3>1, RepliesSent
      <4>2. d \in wire' /\ IsReply(d.packet, h, i)'
        BY <1>0, <1>1, <3>4, <4>1, SameReplies
      <4> QED BY <4>1, <4>2 DEF Underway
    <3> QED BY <2>1, <3>2, <3>3
  <2>2. CASE ~(g = h /\ k = to)
    <3>1. Answered(g, k)' => Answered(g, k)
      <4>1. k \notin delayed'[g] => k \notin delayed[g]
        BY <1>1, <1>5, <2>2
      <4> QED BY <1>1, <1>10, <4>1, AnnouncesSame DEF Answered
    <3>2. AnswerAt(g, k)
      BY AnswerSplit
    <3> QED BY <1>0, <1>1, <3>1, <3>2, AnswerKept
  <2> QED BY <2>1, <2>2
<1>9. AnswerInv'
  BY <1>8, AnswerSplitNext
<1> QED BY <1>4, <1>7, <1>9 DEF Rest

(* Each reply has a bind index of its own: it takes no other's place.        *)
LEMMA OwnIndex ==
    ASSUME FlagInv, NEW g \in Hosts, Announces(g), NEW i \in DOMAIN Grouped(g), NEW j \in DOMAIN Grouped(g),
           BindIndex(own[g], i) = BindIndex(own[g], j)
    PROVE  i = j
<1> DEFINE pairs == Cardinality(Pairs(own[g]))
           ports == Cardinality(own[g])
           count == Len(Grouped(g))
           groups == Len(Groups(own[g]))
<1>1. own[g] \in SUBSET PortAddresses
  BY DEF FlagInv
<1>2. /\ count \in Nat /\ DOMAIN Grouped(g) = 1..count
      /\ groups = pairs /\ pairs \in Nat
      /\ pairs <= 1 /\ ports <= 4 => count <= 1
  BY <1>1, GroupsOf DEF Grouped
<1>3. pairs > 1 \/ ports <= 4
  BY DEF Announces, Pairs
<1>4. (IF groups > 1 THEN i ELSE 0) = (IF groups > 1 THEN j ELSE 0)
  BY DEF BindIndex
<1>5. i \in 1..count /\ j \in 1..count
  BY <1>2
<1> HIDE DEF pairs, ports, count, groups
<1>6. CASE groups > 1
  BY <1>4, <1>6
<1>7. CASE ~(groups > 1)
  <2>1. pairs <= 1 /\ ports <= 4
    BY <1>2, <1>3, <1>7
  <2>2. count <= 1
    BY <1>2, <2>1
  <2> QED BY <1>2, <1>5, <2>2
<1> QED BY <1>6, <1>7

LEMMA ReceiveReplyStep == ASSUME IInv, NEW d \in wire, ReceivePollReply(d.to, d) PROVE Rest'
<1> USE DEF IInv
<1> DEFINE h == d.to
           s == d.from
           w == d.packet
           new == [ip |-> ReadReply(w).source_ip, bind |-> ReadReply(w).bind_index,
                   addresses |-> AddressesOf(ReadReply(w))]
           others == {n \in nodes[h] : ~(n.ip = new.ip /\ n.bind = new.bind)}
<1>1. /\ own' = own /\ UNCHANGED <<losses, faults>> /\ subscribers' = subscribers /\ delayed' = delayed
      /\ delivered' = delivered /\ wire' = wire \ {d}
      /\ nodes' = [nodes EXCEPT ![h] = others \cup {new}]
  BY DEF ReceivePollReply
<1>2. s \in Hosts /\ h \in Hosts /\ GoodPacket(w, s) /\ w.op = "pollReply"
  BY DEF WireInv, GoodDatagram, ReceivePollReply
<1>3. PICK i \in DOMAIN Grouped(s) : IsReply(w, s, i)
  BY <1>2, Kinds
<1>4. new = NodeOf(s, i)
  BY <1>2, <1>3, ReplyKnown
<1> DEFINE old == {n \in nodes[h] : ~(n.ip = NodeOf(s, i).ip /\ n.bind = NodeOf(s, i).bind)}
<1>5. nodes' = [nodes EXCEPT ![h] = old \cup {NodeOf(s, i)}]
  BY <1>1, <1>4
<1> HIDE DEF new, others
<1>6. WireInv'
  BY <1>1, WireShrinks
<1>7. OfHosts(nodes) /\ \A g \in Hosts : \A n \in nodes[g] : GoodNode(n)
  BY DEF NetInv
<1>8. OfHosts(nodes')
  BY <1>5, <1>7 DEF OfHosts
<1>9. \A g \in Hosts : nodes'[g] = IF g = h THEN old \cup {NodeOf(s, i)} ELSE nodes[g]
  <2> HIDE DEF old, h
  <2> QED BY <1>5, <1>7 DEF OfHosts
<1>10. NetInv'
  <2>1. ASSUME NEW g \in Hosts, NEW n \in nodes'[g] PROVE GoodNode(n)'
    <3>1. GoodNode(NodeOf(s, i))
      BY <1>2, <1>3 DEF GoodNode
    <3>2. GoodNode(n)
      BY <1>7, <1>9, <2>1, <3>1
    <3> QED BY <1>1, <3>2, SameNodes
  <2>2. \A f \in delivered' : GoodFrame(f)'
    BY <1>1, SameNodes DEF NetInv
  <2> QED BY <1>1, <1>8, <2>1, <2>2 DEF NetInv, OfHosts
<1>11. ASSUME NEW g \in Hosts, NEW k \in Hosts PROVE AnswerAt(g, k)'
  <2>1. Answered(g, k)' => Answered(g, k)
    BY <1>1, AnnouncesSame DEF Answered
  <2>2. AnswerAt(g, k)
    BY AnswerSplit
  <2>3. CASE k # h
    <3>1. nodes'[k] = nodes[k]
      BY <1>9, <2>3
    <3>2. \A e \in wire : e.packet.op = "pollReply" /\ e.to = k => e \in wire'
      BY <1>1, <2>3
    <3> QED BY <1>1, <2>1, <2>2, <3>1, <3>2, AnswerKept
  <2>4. CASE k = h
    <3> SUFFICES ASSUME Answered(g, k)'
                 PROVE (\A j \in DOMAIN Grouped(g) : Underway(g, k, j) \/ NodeOf(g, j) \in nodes[k])'
      BY DEF AnswerAt
    <3>1. Announces(g) /\ \A j \in DOMAIN Grouped(g) : Underway(g, k, j) \/ NodeOf(g, j) \in nodes[k]
      BY <2>1, <2>2 DEF AnswerAt, Answered
    <3>2. Grouped(g)' = Grouped(g)
      BY <1>1 DEF Grouped
    <3>3. NodeOf(s, i) \in nodes'[h]
      BY <1>2, <1>9
    <3>4. ASSUME NEW j \in DOMAIN Grouped(g) PROVE Underway(g, k, j)' \/ NodeOf(g, j)' \in nodes'[k]
      <4>1. NodeOf(g, j)' = NodeOf(g, j) /\ \A x : IsReply(x, g, j)' <=> IsReply(x, g, j)
        BY <1>1, SameReplies
      <4>2. CASE Underway(g, k, j)
        <5>1. PICK e \in wire : e.from = g /\ e.to = k /\ IsReply(e.packet, g, j)
          BY <4>2 DEF Underway
        <5>2. CASE e # d
          BY <1>1, <4>1, <5>1, <5>2 DEF Underway
        <5>3. CASE e = d
          <6>1. g = s /\ IsReply(w, g, j)
            BY <5>1, <5>3
          <6>2. NodeOf(g, j) = NodeOf(s, i)
            BY <1>4, <6>1, ReplyKnown DEF new
          <6> QED BY <2>4, <3>3, <4>1, <6>2
        <5> QED BY <5>2, <5>3
      <4>3. CASE NodeOf(g, j) \in nodes[k]
        <5>1. CASE NodeOf(g, j).ip = NodeOf(s, i).ip /\ NodeOf(g, j).bind = NodeOf(s, i).bind
          <6>1. IpOf[g] = IpOf[s] /\ BindIndex(own[g], j) = BindIndex(own[s], i)
            BY <5>1 DEF NodeOf
          <6>2. g = s
            BY <1>2, <6>1, IpAssumption
          <6>3. j = i
            BY <1>3, <3>1, <6>1, <6>2, OwnIndex
          <6> QED BY <2>4, <3>3, <4>1, <6>2, <6>3
        <5>2. CASE ~(NodeOf(g, j).ip = NodeOf(s, i).ip /\ NodeOf(g, j).bind = NodeOf(s, i).bind)
          <6>1. NodeOf(g, j) \in old
            BY <2>4, <4>3, <5>2
          <6> HIDE DEF old
          <6> QED BY <1>9, <2>4, <4>1, <6>1
        <5> QED BY <5>1, <5>2
      <4> QED BY <3>1, <4>2, <4>3
    <3> QED BY <3>2, <3>4
  <2> QED BY <2>3, <2>4
<1>12. AnswerInv'
  BY <1>11, AnswerSplitNext
<1> QED BY <1>6, <1>10, <1>12 DEF Rest

LEMMA ReceiveDmxStep ==
    ASSUME IInv, NEW d \in wire, ReceiveDmx(d.to, d), FlagInv' PROVE Rest'
<1> USE DEF IInv
<1> DEFINE h == d.to
           dmx == ReadDmx(d.packet)
           a == dmx.port_address
           Outcomes == {Nothing} \cup UpdateSubscribers(h, received'[h])
<1>1. /\ own' = own /\ UNCHANGED <<nodes, subscribers, delayed>> /\ losses' = losses
      /\ d.packet.op = "dmx"
      /\ \/ delivered' = delivered
         \/ delivered' = {[host |-> h, port |-> a, from |-> d.from, data |-> dmx.data]}
  BY DEF ReceiveDmx
<1>2. d.from \in Hosts /\ h \in Hosts /\ GoodPacket(d.packet, d.from)
  BY DEF WireInv, GoodDatagram
<1>3. received'[h] \in [own[h] -> BOOLEAN]
  BY <1>1, <1>2 DEF FlagInv
<1>4. subscribers \in [Hosts -> SUBSET Hosts] /\ faults \in 0..MaxFaults
  BY DEF NetInv
<1>5. \A o \in Outcomes : \A e \in o.sent : GoodDatagram(e)
  BY <1>2, <1>3, <1>4, UpdateOutcomes DEF Nothing
<1>11. \/ wire' = wire \ {d} /\ faults' = faults
       \/ \E o \in Outcomes : Counted(o) /\ wire' = (wire \ {d}) \cup o.sent
  BY DEF ReceiveDmx
<1>6. \E b \in own[d.from] : dmx.data = Frame(b) /\ a = Arrives(b)
  BY <1>1, <1>2, Kinds
<1> HIDE DEF h, dmx, a, Outcomes
<1>12. faults' \in 0..MaxFaults /\ (faults' = 0 => faults = 0)
  BY <1>4, <1>11, OutcomeCounted
<1>7. WireInv'
  <2>1. CASE wire' = wire \ {d}
    BY <1>1, <2>1, WireShrinks
  <2>2. ASSUME NEW o \in Outcomes, wire' = (wire \ {d}) \cup o.sent PROVE WireInv'
    <3>1. wire' \subseteq wire \cup o.sent
      BY <2>2
    <3> QED BY <1>1, <1>5, <3>1, WireFrom
  <2> QED BY <1>11, <2>1, <2>2
<1>8. \A f \in delivered' : GoodFrame(f)
  <2>1. \A f \in delivered : GoodFrame(f)
    BY DEF NetInv
  <2>2. GoodFrame([host |-> h, port |-> a, from |-> d.from, data |-> dmx.data])
    BY <1>2, <1>6 DEF GoodFrame
  <2> QED BY <1>1, <2>1, <2>2
<1>9. NetInv'
  BY <1>1, <1>8, <1>12, SameNodes DEF NetInv, OfHosts
<1>10. AnswerInv'
  <2>1. \A e \in wire : e.packet.op = "pollReply" => e \in wire'
    BY <1>1, <1>11
  <2> QED BY <1>1, <1>12, <2>1, AnswersKept
<1> QED BY <1>7, <1>9, <1>10 DEF Rest

LEMMA DisableStep ==
    ASSUME IInv, NEW h \in Hosts, NEW a \in own[h], DisableInputFlag(h, a), FlagInv' PROVE Rest'
<1> USE DEF IInv
<1> DEFINE Outcomes == {Nothing} \cup UpdateSubscribers(h, received'[h])
<1>1. own' = own /\ UNCHANGED <<nodes, subscribers, delayed, delivered>> /\ losses' = losses
  BY DEF DisableInputFlag
<1>2. received'[h] \in [own[h] -> BOOLEAN]
  BY <1>1 DEF FlagInv
<1>3. subscribers \in [Hosts -> SUBSET Hosts] /\ faults \in 0..MaxFaults
  BY DEF NetInv
<1>4. PICK o \in Outcomes : Counted(o) /\ wire' = wire \cup o.sent
  BY DEF DisableInputFlag
<1>5. \A e \in o.sent : GoodDatagram(e)
  BY <1>2, <1>3, UpdateOutcomes DEF Nothing
<1> HIDE DEF Outcomes
<1>6. faults' \in 0..MaxFaults /\ (faults' = 0 => faults = 0)
  BY <1>3, <1>4, OutcomeCounted
<1>7. WireInv'
  BY <1>1, <1>4, <1>5, WireFrom
<1>8. NetInv'
  BY <1>1, <1>6, NetKept
<1>9. AnswerInv'
  BY <1>1, <1>4, <1>6, AnswersKept
<1> QED BY <1>7, <1>8, <1>9 DEF Rest

LEMMA SendDmxStep == ASSUME IInv, NEW h \in Senders, NEW a \in own[h], SendDmx(h, a), h \in Hosts PROVE Rest'
<1> USE DEF IInv
<1> DEFINE Outcomes == {Nothing} \cup UpdateSubscribers(h, received[h])
<1>1. own' = own /\ UNCHANGED <<nodes, subscribers, delayed, delivered>> /\ losses' = losses
  BY DEF SendDmx
<1>2. received[h] \in [own[h] -> BOOLEAN]
  BY DEF FlagInv
<1>3. subscribers \in [Hosts -> SUBSET Hosts] /\ faults \in 0..MaxFaults
  BY DEF NetInv
<1>4. PICK o \in Outcomes : /\ Counted(o)
                           /\ wire' = wire \cup o.sent \cup (IF o.raised THEN {} ELSE Frames(h, a))
  BY DEF SendDmx
<1>5. \A e \in o.sent : GoodDatagram(e)
  BY <1>2, <1>3, UpdateOutcomes DEF Nothing
<1>6. \A e \in Frames(h, a) : GoodDatagram(e)
  <2>1. Frames(h, a) = {Datagram(h, g, FramePacket(a)) : g \in Listeners(h, a)}
    BY DEF Frames, FramePacket
  <2> QED BY <2>1 DEF GoodDatagram, GoodPacket, Datagram, Listeners
<1> HIDE DEF Outcomes
<1>7. faults' \in 0..MaxFaults /\ (faults' = 0 => faults = 0)
  BY <1>3, <1>4, OutcomeCounted
<1>8. WireInv'
  <2> DEFINE sent == o.sent \cup Frames(h, a)
  <2>1. wire' \subseteq wire \cup sent /\ \A e \in sent : GoodDatagram(e)
    BY <1>4, <1>5, <1>6
  <2> HIDE DEF sent
  <2> QED BY <1>1, <2>1, WireFrom
<1>9. NetInv'
  BY <1>1, <1>7, NetKept
<1>10. AnswerInv'
  BY <1>1, <1>4, <1>7, AnswersKept
<1> QED BY <1>8, <1>9, <1>10 DEF Rest

LEMMA ReceiveDiagStep == ASSUME IInv, NEW d \in wire, ReceiveDiag(d.to, d) PROVE Rest'
<1> USE DEF IInv
<1>1. /\ own' = own /\ UNCHANGED <<nodes, subscribers, delayed, delivered>> /\ UNCHANGED <<losses, faults>>
      /\ wire' = wire \ {d} /\ d.packet.op = "diagData"
  BY DEF ReceiveDiag
<1>2. wire' \subseteq wire /\ \A e \in wire : e.packet.op = "pollReply" => e \in wire'
  BY <1>1
<1>3. WireInv'
  BY <1>1, <1>2, WireShrinks
<1> QED BY <1>1, <1>2, <1>3, NetKept, AnswersKept DEF Rest

LEMMA LoseStep == ASSUME IInv, NEW d \in wire, Lose(d) PROVE Rest'
<1> USE DEF IInv
<1>1. /\ own' = own /\ UNCHANGED <<nodes, subscribers, delayed, delivered>> /\ losses' = losses + 1
      /\ wire' = wire \ {d} /\ losses < MaxLosses /\ faults' = faults
  BY DEF Lose
<1>2. losses \in 0..MaxLosses /\ MaxLosses \in Nat
  BY SetupsAssumption DEF NetInv
<1>3. losses' \in 0..MaxLosses /\ losses' # 0
  BY <1>1, <1>2
<1>4. WireInv'
  BY <1>1, WireShrinks
<1>5. NetInv'
  BY <1>1, <1>3, SameNodes DEF NetInv, OfHosts
<1>6. AnswerInv'
  BY <1>3 DEF AnswerInv, Answered
<1> QED BY <1>4, <1>5, <1>6 DEF Rest

LEMMA StillStep ==
    ASSUME IInv, own' = own, UNCHANGED <<wire, losses, faults, nodes, subscribers, delayed, delivered>>
    PROVE  Rest'
<1> USE DEF IInv
<1>1. WireInv'
  BY WireShrinks
<1> QED BY <1>1, NetKept, AnswersKept DEF Rest

(* What raised once may have raised. *)
LEMMA RaisedStep == ASSUME IInv, [Next]_vars, NEW g \in Hosts PROVE MayHaveRaised(g) => MayHaveRaised(g)'
<1>1. faults \in 0..MaxFaults /\ subscribers \in [Hosts -> SUBSET Hosts] /\ \A d \in wire : d.to \in Hosts
  BY DEF IInv, NetInv, WireInv, GoodDatagram
<1> DEFINE Kept == own' = own /\ subscribers[g] \subseteq subscribers'[g] /\ (faults > 0 => faults' > 0)
<1>2. own' = own /\ UNCHANGED <<subscribers, faults>> => Kept
  OBVIOUS
<1>3. ASSUME NEW o, Counted(o), own' = own, subscribers' = subscribers PROVE Kept
  <2>1. faults' >= faults /\ faults' \in 0..MaxFaults
    BY <1>1, <1>3, OutcomeCounted
  <2> QED BY <1>1, <1>3, <2>1
<1>4. ASSUME NEW d \in wire, ReceivePoll(d.to, d) PROVE Kept
  <2> DEFINE h == d.to
  <2>1. own' = own /\ faults' = faults
    BY <1>4 DEF ReceivePoll
  <2>2. \/ subscribers' = subscribers
        \/ subscribers' = [subscribers EXCEPT ![h] = @ \cup {d.from}]
        \/ subscribers' = [subscribers EXCEPT ![h] = @]
    BY <1>4 DEF ReceivePoll, HandlePoll
  <2> HIDE DEF h
  <2> QED BY <1>1, <2>1, <2>2
<1>5. \/ own' = own /\ UNCHANGED <<subscribers, faults>>
      \/ \E o : Counted(o) /\ own' = own /\ subscribers' = subscribers
      \/ \E d \in wire : ReceivePoll(d.to, d)
  <2>1. CASE \E h, to \in Hosts : DelayedReply(h, to)
    BY <2>1 DEF DelayedReply
  <2>2. CASE \E d \in wire : ReceiveDmx(d.to, d)
    BY <2>2 DEF ReceiveDmx
  <2>3. CASE \E h \in Hosts : \E a \in own[h] : DisableInputFlag(h, a)
    BY <2>3 DEF DisableInputFlag
  <2>4. CASE \E h \in Senders : \E a \in own[h] : SendDmx(h, a)
    BY <2>4 DEF SendDmx
  <2> QED BY <2>1, <2>2, <2>3, <2>4
          DEF Next, vars, Poll, ReceivePollReply, ReceiveDiag, Lose, Tick, OtherPacket
<1> HIDE DEF Kept
<1>6. Kept
  BY <1>2, <1>3, <1>4, <1>5 DEF Kept
<1>7. own' = own /\ subscribers[g] \subseteq subscribers'[g] /\ (faults > 0 => faults' > 0)
  BY <1>6 DEF Kept
<1>8. Writable(g)' <=> Writable(g)
  BY <1>7 DEF Writable
<1> QED BY <1>7, <1>8 DEF MayHaveRaised

LEMMA FlagStep == ASSUME IInv, [Next]_vars PROVE FlagInv'
<1> USE DEF IInv
<1>1. \A d \in wire : d.to \in Hosts
  BY DEF WireInv, GoodDatagram
<1>7. \A g \in Hosts : MayHaveRaised(g) => MayHaveRaised(g)'
  BY RaisedStep
<1>2. CASE \E d \in wire : ReceiveDmx(d.to, d)
  BY <1>1, <1>2, <1>7, FlagReceive
<1>3. CASE \E h \in Hosts : \E a \in own[h] : DisableInputFlag(h, a)
  BY <1>3, <1>7, FlagWake
<1>4. CASE Tick
  BY <1>4, <1>7, FlagTick
<1>5. CASE own' = own /\ UNCHANGED input
  BY <1>5, <1>7, FlagSame
<1>6. \/ \E d \in wire : ReceiveDmx(d.to, d)
      \/ \E h \in Hosts : \E a \in own[h] : DisableInputFlag(h, a)
      \/ Tick
      \/ own' = own /\ UNCHANGED input
  BY DEF Next, vars, Poll, ReceivePoll, ReceivePollReply, ReceiveDiag, Lose, DelayedReply, SendDmx, OtherPacket
<1> QED BY <1>2, <1>3, <1>4, <1>5, <1>6

LEMMA IInvStep == IInv /\ [Next]_vars => IInv'
<1> SUFFICES ASSUME IInv, [Next]_vars PROVE IInv'
  OBVIOUS
<1>1. FlagInv'
  BY FlagStep
<1> SUFFICES Rest'
  BY <1>1 DEF IInv, Rest
<1>2. CASE \E h \in Pollers : Poll(h)
  BY <1>2, PollStep
<1>3. CASE \E d \in wire : ReceivePoll(d.to, d)
  BY <1>3, ReceivePollStep
<1>4. CASE \E d \in wire : ReceivePollReply(d.to, d)
  BY <1>4, ReceiveReplyStep
<1>5. CASE \E d \in wire : ReceiveDmx(d.to, d)
  BY <1>1, <1>5, ReceiveDmxStep
<1>6. CASE \E d \in wire : ReceiveDiag(d.to, d)
  BY <1>6, ReceiveDiagStep
<1>7. CASE \E d \in wire : Lose(d)
  BY <1>7, LoseStep
<1>8. CASE \E h, g \in Hosts : DelayedReply(h, g)
  BY <1>8, DelayedReplyStep
<1>9. CASE \E h \in Senders : \E a \in own[h] : SendDmx(h, a)
  <2>1. PICK h \in Senders : \E a \in own[h] : SendDmx(h, a)
    BY <1>9
  <2>2. h \in Hosts
    BY SetupsAssumption
  <2> QED BY <2>1, <2>2, SendDmxStep
<1>10. CASE \E h \in Hosts : \E a \in own[h] : DisableInputFlag(h, a)
  BY <1>1, <1>10, DisableStep
<1>11. CASE Tick \/ OtherPacket \/ UNCHANGED vars
  <2>1. own' = own /\ UNCHANGED <<wire, losses, faults, nodes, subscribers, delayed, delivered>>
    BY <1>11 DEF Tick, OtherPacket, vars
  <2> QED BY <2>1, StillStep
<1> QED BY <1>2, <1>3, <1>4, <1>5, <1>6, <1>7, <1>8, <1>9, <1>10, <1>11 DEF Next

LEMMA Invariance == Spec => []IInv
<1> QED BY IInvInit, IInvStep, PTL DEF Spec

-----------------------------------------------------------------------------
LEMMA NodesOwnPorts == IInv => NodesHaveTheirPorts
<1> SUFFICES ASSUME IInv, NEW h \in Hosts, NEW n \in nodes[h], NEW g \in Hosts, n.ip = IpOf[g]
             PROVE  n.addresses \subseteq own[g]
  BY DEF NodesHaveTheirPorts
<1>1. FlagInv
  BY DEF IInv
<1>2. GoodNode(n)
  BY DEF IInv, NetInv
<1>3. PICK s \in Hosts : \E i \in DOMAIN Grouped(s) : n = NodeOf(s, i)
  BY <1>2 DEF GoodNode
<1>4. PICK i \in DOMAIN Grouped(s) : n = NodeOf(s, i)
  BY <1>3
<1>5. s = g
  BY <1>4, IpAssumption DEF NodeOf
<1>6. GroupOK(Grouped(s)[i], own[s])
  BY <1>1, Replying
<1>7. n.addresses = AddressesIn(Grouped(s)[i])
  BY <1>4 DEF NodeOf
<1>8. AddressesIn(Grouped(s)[i]) \subseteq own[s]
  BY <1>6 DEF AddressesIn, GroupOK
<1> QED BY <1>5, <1>7, <1>8

(* The variables are of their types, and the nodes a server knows have       *)
(* addresses that PortAddress accepts, although they are read from bytes.    *)
THEOREM TypeCorrect == Spec => []TypeOK
<1>1. IInv => TypeOK
  <2> SUFFICES ASSUME IInv PROVE TypeOK
    OBVIOUS
  <2>1. FlagInv /\ WireInv /\ NetInv
    BY DEF IInv
  <2>2. \A d \in wire : d.from \in Hosts /\ d.to \in Hosts /\ d.packet # NoPacket
    <3> SUFFICES ASSUME NEW d \in wire PROVE d.from \in Hosts /\ d.to \in Hosts /\ d.packet # NoPacket
      OBVIOUS
    <3>1. d.from \in Hosts /\ d.to \in Hosts /\ GoodPacket(d.packet, d.from)
      BY <2>1 DEF WireInv, GoodDatagram
    <3>2. d.packet # NoPacket
      BY <2>1, <3>1, Kinds
    <3> QED BY <3>1, <3>2
  <2>3. ASSUME NEW h \in Hosts, NEW n \in nodes[h] PROVE n.addresses \subseteq PortAddresses
    <3>1. PICK g \in Hosts : \E i \in DOMAIN Grouped(g) : n = NodeOf(g, i)
      BY <2>1 DEF NetInv, GoodNode
    <3>2. n.ip = IpOf[g]
      BY <3>1 DEF NodeOf
    <3>3. n.addresses \subseteq own[g]
      BY <3>2, NodesOwnPorts DEF NodesHaveTheirPorts
    <3>4. own[g] \subseteq PortAddresses
      BY <2>1 DEF FlagInv
    <3> QED BY <3>3, <3>4
  <2>4. \A h \in Hosts : subscribers[h] \subseteq Hosts /\ delayed[h] \subseteq Hosts
    BY <2>1 DEF NetInv
  <2>5. own \in Setups \cup {NoPorts} /\ losses \in 0..MaxLosses /\ faults \in 0..MaxFaults
    BY <2>1 DEF FlagInv, NetInv
  <2>6. \A h \in Hosts : /\ received[h] \in [own[h] -> BOOLEAN]
                         /\ age[h] \in [own[h] -> 0..FlagTime]
                         /\ flagTasks[h] \in [own[h] -> SUBSET (0..FlagTime)]
    BY <2>1 DEF FlagInv
  <2> QED BY <2>2, <2>3, <2>4, <2>5, <2>6 DEF TypeOK
<1> QED BY <1>1, Invariance, PTL

(* Whatever polls, replies and frames cross, get lost or overtake each other, *)
(* a server knows another under ports that one really has: an ArtPollReply    *)
(* brings the addresses of the ports it was made from, through grouping,      *)
(* serialize, deserialize and get_addresses.                                  *)
THEOREM OnlyTheirPorts == Spec => []NodesHaveTheirPorts
<1> QED BY Invariance, NodesOwnPorts, PTL

(* Frames of a sender whose addresses the two bytes of ArtDmx can carry are  *)
(* passed on by handle_dmx at the port of the universe they are data of.     *)
THEOREM FramesArrive == Spec => []FramesReachTheirPort
<1>1. IInv => FramesReachTheirPort
  <2> SUFFICES ASSUME IInv, NEW f \in delivered, \A a \in own[f.from] : Carried(a)
               PROVE  f.data = Frame(f.port)
    BY DEF FramesReachTheirPort
  <2>1. PICK a \in own[f.from] : f.data = Frame(a) /\ f.port = Arrives(a)
    BY DEF IInv, NetInv, GoodFrame
  <2>2. f.from \in Hosts
    BY DEF IInv, NetInv, GoodFrame
  <2>3. a \in PortAddresses
    BY <2>2 DEF IInv, FlagInv
  <2>4. Arrives(a) = a
    BY <2>3, CarriedArrive
  <2> QED BY <2>1, <2>4
<1> QED BY <1>1, Invariance, PTL

(* The input flag is up while frames arrive, and as long as it is up a task  *)
(* of disable_input_flag sleeps that will find the port silent.  What only   *)
(* an update of the subscribers that raises can bring about is a flag that   *)
(* is up with no task, of a port without input for the flag time.            *)
THEOREM FlagIsRight == Spec => []FlagShowsInput
<1>1. IInv => FlagShowsInput
  BY DEF IInv, FlagInv, PortInv, FlagShowsInput
<1> QED BY <1>1, Invariance, PTL

(* A server that has answered a poll is known with every port it has, once   *)
(* its replies have arrived, however many groups of ports it announces.      *)
THEOREM EveryPortIsKnown == Spec => []AnsweredIsKnown
<1>1. IInv => AnsweredIsKnown
  <2> SUFFICES ASSUME IInv, NEW g \in Hosts, NEW h \in Hosts, Answered(g, h),
                      \A d \in wire : ~(d.from = g /\ d.packet.op = "pollReply")
               PROVE  KnownOf(h, g) = own[g]
    BY DEF AnsweredIsKnown, Answered
  <2>1. FlagInv /\ NodesHaveTheirPorts
    BY NodesOwnPorts DEF IInv
  <2>2. ASSUME NEW i \in DOMAIN Grouped(g) PROVE NodeOf(g, i) \in nodes[h]
    <3>1. Underway(g, h, i) \/ NodeOf(g, i) \in nodes[h]
      BY DEF IInv, AnswerInv
    <3>2. ~Underway(g, h, i)
      BY <2>1, ReplyKnown DEF Underway
    <3> QED BY <3>1, <3>2
  <2>3. KnownOf(h, g) \subseteq own[g]
    BY <2>1 DEF KnownOf, NodesHaveTheirPorts
  <2>4. ASSUME NEW a \in own[g] PROVE a \in KnownOf(h, g)
    <3>1. own[g] \in SUBSET PortAddresses
      BY <2>1 DEF FlagInv
    <3>2. PICK i \in DOMAIN Grouped(g) : a \in AddressesIn(Grouped(g)[i])
      BY <3>1, GroupsOf DEF Grouped
    <3>3. NodeOf(g, i) \in nodes[h] /\ NodeOf(g, i).ip = IpOf[g] /\ a \in NodeOf(g, i).addresses
      BY <2>2, <3>2 DEF NodeOf
    <3> QED BY <3>3 DEF KnownOf
  <2> QED BY <2>3, <2>4
<1> QED BY <1>1, Invariance, PTL

-----------------------------------------------------------------------------
(* Flags: a byte has the bits that are up.                                   *)
IsUp(bits, up, k) == Number1(\E n \in up : bits[n] = k)

LEMMA SumOfFlags ==
    ASSUME NEW bits, NEW up
    PROVE  /\ \A k : IsUp(bits, up, k) \in {0, 1}
           /\ FlagByte(bits, up) =
                <<IsUp(bits, up, 0) + 2 * IsUp(bits, up, 1) + 4 * IsUp(bits, up, 2) + 8 * IsUp(bits, up, 3)
                  + 16 * IsUp(bits, up, 4) + 32 * IsUp(bits, up, 5) + 64 * IsUp(bits, up, 6) + 128 * IsUp(bits, up, 7)>>
<1> DEFINE b(k) == IsUp(bits, up, k)
<1>1. \A k : b(k) \in {0, 1}
  BY DEF IsUp, Number1
<1>2. FlagByte(bits, up) = <<(2^0 * b(0)) + (2^1 * b(1)) + (2^2 * b(2)) + (2^3 * b(3)) + (2^4 * b(4))
                             + (2^5 * b(5)) + (2^6 * b(6)) + (2^7 * b(7))>>
  BY DEF FlagByte, IsUp
<1> HIDE DEF b
<1>3. 2^0 = 1 /\ 2^1 = 2 /\ 2^2 = 4 /\ 2^3 = 8 /\ 2^4 = 16 /\ 2^5 = 32 /\ 2^6 = 64 /\ 2^7 = 128
  BY SMT
<1>4. FlagByte(bits, up) = <<b(0) + 2 * b(1) + 4 * b(2) + 8 * b(3) + 16 * b(4) + 32 * b(5) + 64 * b(6) + 128 * b(7)>>
  BY <1>1, <1>2, <1>3
<1> QED BY <1>1, <1>4 DEF b

LEMMA BitsOfSum ==
    ASSUME NEW a \in {0, 1}, NEW b \in {0, 1}, NEW c \in {0, 1}, NEW d \in {0, 1},
           NEW e \in {0, 1}, NEW f \in {0, 1}, NEW g \in {0, 1}, NEW h \in {0, 1}
    PROVE  LET n == a + 2 * b + 4 * c + 8 * d + 16 * e + 32 * f + 64 * g + 128 * h
           IN  /\ n \in 0..255
               /\ Bit(n, 0) = (a = 1) /\ Bit(n, 1) = (b = 1) /\ Bit(n, 2) = (c = 1) /\ Bit(n, 3) = (d = 1)
               /\ Bit(n, 4) = (e = 1) /\ Bit(n, 5) = (f = 1) /\ Bit(n, 6) = (g = 1) /\ Bit(n, 7) = (h = 1)
<1> DEFINE n == a + 2 * b + 4 * c + 8 * d + 16 * e + 32 * f + 64 * g + 128 * h
<1>1. 2^0 = 1 /\ 2^1 = 2 /\ 2^2 = 4 /\ 2^3 = 8 /\ 2^4 = 16 /\ 2^5 = 32 /\ 2^6 = 64 /\ 2^7 = 128
  BY SMT
<1>2. n \in 0..255
  OBVIOUS
<1>3. /\ (n \div 1) % 2 = a /\ (n \div 2) % 2 = b /\ (n \div 4) % 2 = c /\ (n \div 8) % 2 = d
  BY SMT
<1>4. /\ (n \div 16) % 2 = e /\ (n \div 32) % 2 = f /\ (n \div 64) % 2 = g /\ (n \div 128) % 2 = h
  BY SMT
<1> HIDE DEF n
<1>5. /\ Bit(n, 0) = (a = 1) /\ Bit(n, 1) = (b = 1) /\ Bit(n, 2) = (c = 1) /\ Bit(n, 3) = (d = 1)
      /\ Bit(n, 4) = (e = 1) /\ Bit(n, 5) = (f = 1) /\ Bit(n, 6) = (g = 1) /\ Bit(n, 7) = (h = 1)
  BY <1>1, <1>3, <1>4 DEF Bit
<1> QED BY <1>2, <1>5 DEF n

(* The table of flags: each has a bit of its own. *)
FlagTable(bits) ==
    /\ \A n \in DOMAIN bits : bits[n] \in 0..7
    /\ \A m, n \in DOMAIN bits : bits[m] = bits[n] => m = n

LEMMA FlagsBack ==
    ASSUME NEW bits, FlagTable(bits), NEW up \in SUBSET DOMAIN bits
    PROVE  /\ Flags(bits, FlagByte(bits, up)) = up
           /\ FlagByte(bits, up)[1] \in 0..255 /\ FlagByte(bits, up) = <<FlagByte(bits, up)[1]>>
<1> DEFINE b(k) == IsUp(bits, up, k)
           n == b(0) + 2 * b(1) + 4 * b(2) + 8 * b(3) + 16 * b(4) + 32 * b(5) + 64 * b(6) + 128 * b(7)
<1>1. (\A k : b(k) \in {0, 1}) /\ FlagByte(bits, up) = <<n>>
  BY SumOfFlags
<1>2. \A m \in DOMAIN bits : b(bits[m]) = 1 <=> m \in up
  BY DEF FlagTable, IsUp, Number1
<1> HIDE DEF b
<1>3. /\ n \in 0..255
      /\ Bit(n, 0) = (b(0) = 1) /\ Bit(n, 1) = (b(1) = 1) /\ Bit(n, 2) = (b(2) = 1) /\ Bit(n, 3) = (b(3) = 1)
      /\ Bit(n, 4) = (b(4) = 1) /\ Bit(n, 5) = (b(5) = 1) /\ Bit(n, 6) = (b(6) = 1) /\ Bit(n, 7) = (b(7) = 1)
  BY <1>1, BitsOfSum
<1> HIDE DEF n
<1>4. \A k \in 0..7 : Bit(n, k) = (b(k) = 1)
  <2>1. \A k \in 0..7 : k = 0 \/ k = 1 \/ k = 2 \/ k = 3 \/ k = 4 \/ k = 5 \/ k = 6 \/ k = 7
    OBVIOUS
  <2> QED BY <1>3, <2>1
<1>5. Flags(bits, <<n>>) = up
  BY <1>2, <1>4 DEF Flags, FlagTable
<1> QED BY <1>1, <1>3, <1>5

LEMMA FlagTables ==
    /\ FlagTable(PollBits) /\ FlagTable(TypeBits) /\ FlagTable(GoodInputBits) /\ FlagTable(GoodOutputABits)
    /\ FlagTable(GoodOutputBBits) /\ FlagTable(Status2Bits) /\ FlagTable(IpProgBits)
<1>1. FlagTable(PollBits)
  BY DEF FlagTable, PollBits
<1>2. FlagTable(TypeBits)
  BY DEF FlagTable, TypeBits
<1>3. FlagTable(GoodInputBits)
  BY DEF FlagTable, GoodInputBits
<1>4. FlagTable(GoodOutputABits)
  BY DEF FlagTable, GoodOutputABits
<1>5. FlagTable(GoodOutputBBits)
  BY DEF FlagTable, GoodOutputBBits
<1>6. FlagTable(Status2Bits)
  BY DEF FlagTable, Status2Bits
<1>7. FlagTable(IpProgBits)
  BY DEF FlagTable, IpProgBits
<1> QED BY <1>1, <1>2, <1>3, <1>4, <1>5, <1>6, <1>7

(* Two flags above the type of the port. *)
LEMMA TypesBack ==
    ASSUME NEW up \in SUBSET DOMAIN TypeBits, NEW type \in 0..6
    PROVE  LET n == FlagByte(TypeBits, up)[1] + type
           IN  n \in 0..255 /\ Flags(TypeBits, <<n>>) = up /\ n % 64 = type
<1> DEFINE b(k) == IsUp(TypeBits, up, k)
           m == FlagByte(TypeBits, up)[1]
           n == m + type
<1>1. \A k : b(k) \in {0, 1}
  BY SumOfFlags
<1>2. m = b(0) + 2 * b(1) + 4 * b(2) + 8 * b(3) + 16 * b(4) + 32 * b(5) + 64 * b(6) + 128 * b(7)
  BY SumOfFlags
<1>3. TypeBits["output"] = 7 /\ TypeBits["input"] = 6 /\ DOMAIN TypeBits = {"output", "input"}
  BY DEF TypeBits
<1>4. /\ b(0) = 0 /\ b(1) = 0 /\ b(2) = 0 /\ b(3) = 0 /\ b(4) = 0 /\ b(5) = 0
      /\ (b(6) = 1 <=> "input" \in up) /\ (b(7) = 1 <=> "output" \in up)
  BY <1>3 DEF IsUp, Number1
<1> HIDE DEF b
<1>5. m = 64 * b(6) + 128 * b(7)
  BY <1>1, <1>2, <1>4
<1> HIDE DEF m
<1>6. n \in 0..255 /\ n % 64 = type /\ (n \div 64) % 2 = b(6) /\ (n \div 128) % 2 = b(7)
  <2>2. CASE b(6) = 0 /\ b(7) = 0
    <3>1. n = type
      BY <1>5, <2>2
    <3>2. type \in 0..255 /\ type % 64 = type /\ (type \div 64) % 2 = 0 /\ (type \div 128) % 2 = 0
      OBVIOUS
    <3> HIDE DEF n
    <3> QED BY <2>2, <3>1, <3>2
  <2>3. CASE b(6) = 1 /\ b(7) = 0
    BY <1>5, <2>3
  <2>4. CASE b(6) = 0 /\ b(7) = 1
    BY <1>5, <2>4
  <2>5. CASE b(6) = 1 /\ b(7) = 1
    BY <1>5, <2>5
  <2> QED BY <1>1, <2>2, <2>3, <2>4, <2>5
<1> HIDE DEF n
<1>7. 2^7 = 128 /\ 2^6 = 64
  BY SMT
<1>8. Bit(n, 6) = (b(6) = 1) /\ Bit(n, 7) = (b(7) = 1)
  BY <1>6, <1>7 DEF Bit
<1>9. Flags(TypeBits, <<n>>) = up
  BY <1>3, <1>4, <1>8 DEF Flags
<1> QED BY <1>6, <1>9 DEF n, m

(* The last bytes of a reply. *)
LEMMA Status3Back ==
    ASSUME NEW p, p.failsafe \in 0..3, p.status3 \in SUBSET DOMAIN Status3Bits
    PROVE  /\ Status3(p) \in 0..255 /\ Status3(p) \div 64 = p.failsafe
           /\ Flags(Status3Bits, <<Status3(p)>>) = p.status3
<1> DEFINE up == p.status3
           b(k) == IsUp(Status3Bits, up, k)
           m == FlagByte(Status3Bits, up)[1]
           f == p.failsafe
           n == 64 * f + m + 1
<1>1. \A k : b(k) \in {0, 1}
  BY SumOfFlags
<1>2. m = b(0) + 2 * b(1) + 4 * b(2) + 8 * b(3) + 16 * b(4) + 32 * b(5) + 64 * b(6) + 128 * b(7)
  BY SumOfFlags
<1>3. Status3Bits["failover"] = 5 /\ Status3Bits["llrp"] = 4 /\ DOMAIN Status3Bits = {"failover", "llrp"}
  BY DEF Status3Bits
<1>4. /\ b(0) = 0 /\ b(1) = 0 /\ b(2) = 0 /\ b(3) = 0 /\ b(6) = 0 /\ b(7) = 0
      /\ (b(5) = 1 <=> "failover" \in up) /\ (b(4) = 1 <=> "llrp" \in up)
  BY <1>3 DEF IsUp, Number1
<1>5. Status3(p) = n
  BY DEF Status3
<1> HIDE DEF b
<1>6. m = 16 * b(4) + 32 * b(5)
  BY <1>1, <1>2, <1>4
<1> HIDE DEF m
<1>7. f \in 0..3 /\ up \in SUBSET {"failover", "llrp"}
  BY <1>3
<1> HIDE DEF f, up
<1>8. n \in 0..255 /\ n \div 64 = f /\ (n \div 16) % 2 = b(4) /\ (n \div 32) % 2 = b(5)
  <2>1. CASE b(4) = 0 /\ b(5) = 0
    BY <1>6, <1>7, <2>1
  <2>2. CASE b(4) = 1 /\ b(5) = 0
    BY <1>6, <1>7, <2>2
  <2>3. CASE b(4) = 0 /\ b(5) = 1
    BY <1>6, <1>7, <2>3
  <2>4. CASE b(4) = 1 /\ b(5) = 1
    BY <1>6, <1>7, <2>4
  <2> QED BY <1>1, <2>1, <2>2, <2>3, <2>4
<1> HIDE DEF n
<1>9. 2^5 = 32 /\ 2^4 = 16
  BY SMT
<1>10. Bit(n, 5) = (b(5) = 1) /\ Bit(n, 4) = (b(4) = 1)
  BY <1>8, <1>9 DEF Bit
<1>11. Flags(Status3Bits, <<n>>) = up
  BY <1>3, <1>4, <1>7, <1>10 DEF Flags
<1> QED BY <1>5, <1>8, <1>11 DEF f, up

LEMMA Status1Back ==
    ASSUME NEW p, p.indicator \in 0..3, p.authority \in 0..2, p.rom \in BOOLEAN
    PROVE  Status1(p) \in 0..255 /\ Bit(Status1(p), 2) = p.rom
<1> DEFINE r == Number1(p.rom)
           q == Number1(~p.rdm) + Number1(p.ubea_present)
           n == 64 * p.indicator + 16 * p.authority + 4 * r + q
<1>1. r \in {0, 1} /\ (r = 1 <=> p.rom) /\ q \in 0..2
  BY DEF Number1
<1>2. Status1(p) = n
  BY DEF Status1, Number1
<1> HIDE DEF r, q
<1>3. n \in 0..255 /\ (n \div 4) % 2 = r
  BY <1>1
<1> HIDE DEF n
<1>4. 2^2 = 4
  BY SMT
<1>5. Bit(n, 2) = (r = 1)
  BY <1>3, <1>4 DEF Bit
<1>6. (r = 1) = p.rom
  BY <1>1
<1> QED BY <1>2, <1>3, <1>5, <1>6

-----------------------------------------------------------------------------
(* Attributes that fit their fields arrive.                                  *)
LEMMA SingleIs ==
    ASSUME NEW S, NEW v \in Single(S) PROVE v[1] \in S /\ v = <<v[1]>>
<1>1. v = [i \in 1..1 |-> v[i]] /\ v[1] \in S
  BY DEF Single
<1>2. v = <<v[1]>>
  <2>1. \A i \in 1..1 : i = 1
    OBVIOUS
  <2> QED BY <1>1, <2>1
<1> QED BY <1>1, <1>2

LEMMA OctetsFit ==
    /\ \A n \in Nat : \A v \in Octets(n) : ByteSeq(v)
    /\ \A S : S \subseteq 0..255 => \A v \in Single(S) : ByteSeq(v)
    /\ \A k \in 0..255 : \A v \in Single(0..k) : ByteSeq(v)
    /\ \A v \in Single(DiagnosticsPriority) : ByteSeq(v)
    /\ \A b \in 0..255 : ByteSeq(<<b>>)
<1>1. ASSUME NEW n \in Nat, NEW v \in Octets(n) PROVE ByteSeq(v)
  BY DEF Octets, Octet, ByteSeq
<1>2. ASSUME NEW S, S \subseteq 0..255, NEW v \in Single(S) PROVE ByteSeq(v)
  BY <1>2 DEF Single, ByteSeq
<1>3. ASSUME NEW b \in 0..255 PROVE ByteSeq(<<b>>)
  BY DEF ByteSeq
<1>4. ASSUME NEW k \in 0..255, NEW v \in Single(0..k) PROVE ByteSeq(v)
  BY DEF Single, ByteSeq
<1>5. DiagnosticsPriority \subseteq 0..255
  BY DEF DiagnosticsPriority
<1> QED BY <1>1, <1>2, <1>3, <1>4, <1>5

LEMMA TakenWhole ==
    ASSUME NEW field
    PROVE  /\ field.form \in {"byte", "raw"} => \A v : Taken(field, v) = v
           /\ field.form \in {"lsb", "msb"} => \A v \in Word : Taken(field, v) = v
           /\ field.form = "text" /\ field.width \in Nat =>
                \A v \in TextBelow(field.width) : Taken(field, v) = IF v = <<0>> THEN Nuls ELSE v
<1>1. field.form \in {"byte", "raw"} => \A v : Taken(field, v) = v
  BY DEF Taken, Appended
<1>2. ASSUME field.form \in {"lsb", "msb"}, NEW v \in Word PROVE Taken(field, v) = v
  <2>1. v[1] \in Nat /\ v[1] < 65536 /\ v = <<v[1]>>
    BY SingleIs DEF Word
  <2>2. v[1] % 65536 = v[1]
    BY <2>1
  <2>3. Appended(field, v) = v
    BY <1>2, <2>1, <2>2 DEF Appended
  <2> QED BY <1>2, <2>3 DEF Taken
<1>3. ASSUME field.form = "text", field.width \in Nat, NEW v \in TextBelow(field.width)
      PROVE  Taken(field, v) = IF v = <<0>> THEN Nuls ELSE v
  <2>1. v[1] \in 0..field.width - 1 /\ v = <<v[1]>>
    BY SingleIs DEF TextBelow
  <2>2. v[1] < field.width
    BY <1>3, <2>1
  <2>3. Appended(field, v) = v
    BY <1>3, <2>1, <2>2 DEF Appended
  <2> QED BY <1>3, <2>3 DEF Taken
<1> QED BY <1>1, <1>2, <1>3

LEMMA VersionFits == <<14>> \in Word
<1>1. <<14>> \in Single(Nat) /\ <<14>>[1] = 14 /\ 14 < 65536
  BY DEF Single
<1> QED BY <1>1 DEF Word

LEMMA FitsIf ==
    ASSUME NEW field, NEW v, field.form \notin {"byte", "raw"} \/ ByteSeq(v) PROVE Fits(field, v)
BY DEF Fits, ByteSeq

LEMMA WholePacket ==
    ASSUME NEW op, NEW L, NEW p PROVE CutTo(Write(op, L, p), Write(op, L, p).size) = Write(op, L, p)
<1>1. \E s, size, fields : Write(op, L, p) = [op |-> s, size |-> size, fields |-> fields]
  BY DEF Write, NoPacket
<1> QED BY <1>1 DEF CutTo

ReadWhole(w, op, R, p) ==
    /\ w.op = op /\ CutTo(w, w.size) = w
    /\ \A j \in 1..Len(R) :
          Gapless(R, j) => R[j].name \in DOMAIN Read(R, w) /\ Read(R, w)[R[j].name] = Taken(R[j], p[R[j].name])

LEMMA Sent ==
    ASSUME NEW op, NEW L, Layout(L), NEW p, AllFit(L, p), NEW R, Beginning(R, L)
    PROVE  ReadWhole(Write(op, L, p), op, R, p)
<1> DEFINE w == Write(op, L, p)
<1>1. w.op = op /\ ReadAlong(Read(R, w), R, p)
  BY RoundTrip
<1>2. CutTo(w, w.size) = w
  BY WholePacket
<1> QED BY <1>1, <1>2 DEF ReadAlong, ReadWhole

(* What shall be shown of every packet; those other than replies are simply whole. *)
AsMeant(op, p) ==
    LET w == Written(op, p)
    IN  /\ w.op = op /\ CutTo(w, w.size) = w
        /\ \A n \in DOMAIN p \ NotCarried(op) : Same(op, n, Meant(op, p, n, w.size), Deserialized(w)[n])

Whole(op, p) ==
    LET w == Written(op, p)
    IN  w.op = op /\ CutTo(w, w.size) = w /\ \A n \in DOMAIN p \ NotCarried(op) : Same(op, n, p[n], Deserialized(w)[n])

LEMMA WholeAsMeant == ASSUME NEW op, op # "pollReply", NEW p, Whole(op, p) PROVE AsMeant(op, p)
<1>1. \A n, size : Meant(op, p, n, size) = p[n]
  BY DEF Meant
<1> QED BY <1>1 DEF Whole, AsMeant

LEMMA TimeCodeLayout ==
    LET L == TimeCodeWritten
    IN  /\ TimeCodeRead = L /\ Layout(L) /\ Beginning(L, L) /\ Len(L) = 7 /\ DOMAIN L = 1..7
        /\ L[1] = Msb("version") /\ L[2] = Gap(2) /\ L[3] = U8("frames") /\ L[4] = U8("seconds")
        /\ L[5] = U8("minutes") /\ L[6] = U8("hours") /\ L[7] = U8("type")
        /\ \A j \in 1..7 : j = 1 \/ j = 2 \/ j = 3 \/ j = 4 \/ j = 5 \/ j = 6 \/ j = 7
<1> DEFINE L == TimeCodeWritten
<1>1. /\ TimeCodeRead = L /\ Len(L) = 7 /\ DOMAIN L = 1..7
      /\ L[1] = Msb("version") /\ L[2] = Gap(2) /\ L[3] = U8("frames") /\ L[4] = U8("seconds")
      /\ L[5] = U8("minutes") /\ L[6] = U8("hours") /\ L[7] = U8("type")
      /\ \A j \in 1..7 : j = 1 \/ j = 2 \/ j = 3 \/ j = 4 \/ j = 5 \/ j = 6 \/ j = 7
  BY DEF TimeCodeWritten, TimeCodeRead
<1> HIDE DEF L
<1>2. \A j \in 1..7 : L[j].width \in Nat \ {0}
  BY <1>1 DEF Msb, Gap, U8, F
<1>3. \A i, j \in 1..7 : Gapless(L, i) /\ Gapless(L, j) /\ L[i].name = L[j].name => i = j
  BY <1>1 DEF Gapless, Msb, Gap, U8, F
<1> QED BY <1>1, <1>2, <1>3 DEF L, Layout, Beginning, Distinct

LEMMA TimeCodeArrives == ASSUME NEW p \in TimeCodes PROVE Whole("timeCode", p)
<1> DEFINE L == TimeCodeWritten
           w == Write("timeCode", L, p)
           got == Read(L, w)
<1>1. /\ DOMAIN p = {"version", "frames", "seconds", "minutes", "hours", "type"}
      /\ p.version = <<14>> /\ p.frames \in Single(0..29) /\ p.seconds \in Single(0..59)
      /\ p.minutes \in Single(0..59) /\ p.hours \in Single(0..23) /\ p.type \in Single(0..3)
  BY DEF TimeCodes, Version14, PROTOCOL_VERSION
<1>2. ByteSeq(p.frames) /\ ByteSeq(p.seconds) /\ ByteSeq(p.minutes) /\ ByteSeq(p.hours) /\ ByteSeq(p.type)
  <2>1. /\ \A n \in Nat : \A v \in Octets(n) : ByteSeq(v)
        /\ \A k \in 0..255 : \A v \in Single(0..k) : ByteSeq(v)
        /\ \A v \in Single(DiagnosticsPriority) : ByteSeq(v)
    BY OctetsFit
  <2> QED BY <1>1, <2>1
<1>3. /\ Layout(L) /\ Beginning(L, L) /\ Len(L) = 7 /\ DOMAIN L = 1..7
      /\ \A j \in 1..7 : j = 1 \/ j = 2 \/ j = 3 \/ j = 4 \/ j = 5 \/ j = 6 \/ j = 7
  BY TimeCodeLayout
<1>4. /\ L[1].name = "version" /\ L[3].name = "frames" /\ L[4].name = "seconds" /\ L[5].name = "minutes"
      /\ L[6].name = "hours" /\ L[7].name = "type" /\ L[1].form = "msb" /\ L[2].form = "gap"
      /\ L[3].form = "byte" /\ L[4].form = "byte" /\ L[5].form = "byte" /\ L[6].form = "byte"
      /\ L[7].form = "byte"
  BY TimeCodeLayout DEF Msb, Gap, U8, F
<1> HIDE DEF L
<1>5. AllFit(L, p)
  BY <1>2, <1>3, <1>4, FitsIf DEF AllFit
<1>6. /\ w.op = "timeCode" /\ CutTo(w, w.size) = w
      /\ \A j \in 1..7 : Gapless(L, j) => L[j].name \in DOMAIN got /\ got[L[j].name] = Taken(L[j], p[L[j].name])
  <2>1. ReadWhole(w, "timeCode", L, p)
    BY <1>3, <1>5, Sent
  <2> HIDE DEF w
  <2> QED BY <1>3, <2>1 DEF ReadWhole
<1>7. Gapless(L, 1) /\ Gapless(L, 3) /\ Gapless(L, 4) /\ Gapless(L, 5) /\ Gapless(L, 6) /\ Gapless(L, 7)
  BY <1>4 DEF Gapless
<1>8. /\ Taken(L[1], p.version) = p.version /\ Taken(L[3], p.frames) = p.frames
      /\ Taken(L[4], p.seconds) = p.seconds /\ Taken(L[5], p.minutes) = p.minutes
      /\ Taken(L[6], p.hours) = p.hours /\ Taken(L[7], p.type) = p.type
  BY <1>1, <1>4, TakenWhole, VersionFits
<1>9. Written("timeCode", p) = w /\ Deserialized(w) = got
  BY <1>6, TimeCodeLayout DEF Written, WriteTimeCode, Deserialized, ReadTimeCode, L
<1> HIDE DEF w, got
<1>10. \A n \in DOMAIN p : got[n] = p[n]
  BY <1>1, <1>4, <1>6, <1>7, <1>8
<1>11. \A n \in DOMAIN p : n \notin TextsOf("timeCode")
  BY <1>1 DEF TextsOf
<1>12. \A n \in DOMAIN p : Same("timeCode", n, p[n], got[n])
  BY <1>10, <1>11 DEF Same, SameText
<1> QED BY <1>6, <1>9, <1>12 DEF Whole

LEMMA CommandLayout ==
    LET L == CommandWritten
    IN  /\ CommandRead = L /\ Layout(L) /\ Beginning(L, L) /\ Len(L) = 3 /\ DOMAIN L = 1..3
        /\ L[1] = Msb("version") /\ L[2] = Msb("esta") /\ L[3] = Text("command", 512)
        /\ \A j \in 1..3 : j = 1 \/ j = 2 \/ j = 3
<1> DEFINE L == CommandWritten
<1>1. /\ CommandRead = L /\ Len(L) = 3 /\ DOMAIN L = 1..3
      /\ L[1] = Msb("version") /\ L[2] = Msb("esta") /\ L[3] = Text("command", 512)
      /\ \A j \in 1..3 : j = 1 \/ j = 2 \/ j = 3
  BY DEF CommandWritten, CommandRead
<1> HIDE DEF L
<1>2. \A j \in 1..3 : L[j].width \in Nat \ {0}
  BY <1>1 DEF Msb, Text, F
<1>3. \A i, j \in 1..3 : Gapless(L, i) /\ Gapless(L, j) /\ L[i].name = L[j].name => i = j
  BY <1>1 DEF Gapless, Msb, Text, F
<1> QED BY <1>1, <1>2, <1>3 DEF L, Layout, Beginning, Distinct

LEMMA CommandArrives == ASSUME NEW p \in Commands PROVE Whole("command", p)
<1> DEFINE L == CommandWritten
           w == Write("command", L, p)
           got == Read(L, w)
<1>1. /\ DOMAIN p = {"version", "esta", "command"}
      /\ p.version = <<14>> /\ p.esta \in Word /\ p.command \in TextBelow(512)
  BY DEF Commands, Version14, PROTOCOL_VERSION
<1>2. TRUE
  <2>1. /\ \A n \in Nat : \A v \in Octets(n) : ByteSeq(v)
        /\ \A k \in 0..255 : \A v \in Single(0..k) : ByteSeq(v)
        /\ \A v \in Single(DiagnosticsPriority) : ByteSeq(v)
    BY OctetsFit
  <2> QED BY <1>1, <2>1
<1>3. /\ Layout(L) /\ Beginning(L, L) /\ Len(L) = 3 /\ DOMAIN L = 1..3
      /\ \A j \in 1..3 : j = 1 \/ j = 2 \/ j = 3
  BY CommandLayout
<1>4. /\ L[1].name = "version" /\ L[2].name = "esta" /\ L[3].name = "command" /\ L[1].form = "msb"
      /\ L[2].form = "msb" /\ L[3].form = "text" /\ L[3].width = 512
  BY CommandLayout DEF Msb, Text, F
<1> HIDE DEF L
<1>5. AllFit(L, p)
  BY <1>2, <1>3, <1>4, FitsIf DEF AllFit
<1>6. /\ w.op = "command" /\ CutTo(w, w.size) = w
      /\ \A j \in 1..3 : Gapless(L, j) => L[j].name \in DOMAIN got /\ got[L[j].name] = Taken(L[j], p[L[j].name])
  <2>1. ReadWhole(w, "command", L, p)
    BY <1>3, <1>5, Sent
  <2> HIDE DEF w
  <2> QED BY <1>3, <2>1 DEF ReadWhole
<1>7. Gapless(L, 1) /\ Gapless(L, 2) /\ Gapless(L, 3)
  BY <1>4 DEF Gapless
<1>8. /\ Taken(L[1], p.version) = p.version /\ Taken(L[2], p.esta) = p.esta
      /\ Taken(L[3], p.command) = (IF p.command = <<0>> THEN Nuls ELSE p.command)
  BY <1>1, <1>4, TakenWhole, VersionFits
<1>9. Written("command", p) = w /\ Deserialized(w) = got
  BY <1>6, CommandLayout DEF Written, WriteCommand, Deserialized, ReadCommand, L
<1> HIDE DEF w, got
<1>10. /\ \A n \in DOMAIN p \ {"command"} : got[n] = p[n]
       /\ got["command"] = (IF p.command = <<0>> THEN Nuls ELSE p.command)
  BY <1>1, <1>4, <1>6, <1>7, <1>8
<1>11. \A n \in DOMAIN p : n \in TextsOf("command") <=> n \in {"command"}
  BY <1>1 DEF TextsOf
<1>12. \A n \in DOMAIN p : Same("command", n, p[n], got[n])
  BY <1>1, <1>10, <1>11 DEF Same, SameText
<1> QED BY <1>6, <1>9, <1>12 DEF Whole

LEMMA TriggerLayout ==
    LET L == TriggerWritten
    IN  /\ TriggerRead = L /\ Layout(L) /\ Beginning(L, L) /\ Len(L) = 6 /\ DOMAIN L = 1..6
        /\ L[1] = Msb("version") /\ L[2] = Gap(2) /\ L[3] = Msb("oem") /\ L[4] = U8("key")
        /\ L[5] = U8("sub_key") /\ L[6] = Raw("payload", 512)
        /\ \A j \in 1..6 : j = 1 \/ j = 2 \/ j = 3 \/ j = 4 \/ j = 5 \/ j = 6
<1> DEFINE L == TriggerWritten
<1>1. /\ TriggerRead = L /\ Len(L) = 6 /\ DOMAIN L = 1..6
      /\ L[1] = Msb("version") /\ L[2] = Gap(2) /\ L[3] = Msb("oem") /\ L[4] = U8("key") /\ L[5] = U8("sub_key")
      /\ L[6] = Raw("payload", 512)
      /\ \A j \in 1..6 : j = 1 \/ j = 2 \/ j = 3 \/ j = 4 \/ j = 5 \/ j = 6
  BY DEF TriggerWritten, TriggerRead
<1> HIDE DEF L
<1>2. \A j \in 1..6 : L[j].width \in Nat \ {0}
  BY <1>1 DEF Msb, Gap, U8, Raw, F
<1>3. \A i, j \in 1..6 : Gapless(L, i) /\ Gapless(L, j) /\ L[i].name = L[j].name => i = j
  BY <1>1 DEF Gapless, Msb, Gap, U8, Raw, F
<1> QED BY <1>1, <1>2, <1>3 DEF L, Layout, Beginning, Distinct

LEMMA TriggerArrives == ASSUME NEW p \in Triggers PROVE Whole("trigger", p)
<1> DEFINE L == TriggerWritten
           w == Write("trigger", L, p)
           got == Read(L, w)
<1>1. /\ DOMAIN p = {"version", "oem", "key", "sub_key", "payload"}
      /\ p.version = <<14>> /\ p.oem \in Word /\ p.key \in Octets(1) /\ p.sub_key \in Octets(1)
      /\ p.payload \in Octets(512)
  BY DEF Triggers, Version14, PROTOCOL_VERSION
<1>2. ByteSeq(p.key) /\ ByteSeq(p.sub_key) /\ ByteSeq(p.payload)
  <2>1. /\ \A n \in Nat : \A v \in Octets(n) : ByteSeq(v)
        /\ \A k \in 0..255 : \A v \in Single(0..k) : ByteSeq(v)
        /\ \A v \in Single(DiagnosticsPriority) : ByteSeq(v)
    BY OctetsFit
  <2> QED BY <1>1, <2>1
<1>3. /\ Layout(L) /\ Beginning(L, L) /\ Len(L) = 6 /\ DOMAIN L = 1..6
      /\ \A j \in 1..6 : j = 1 \/ j = 2 \/ j = 3 \/ j = 4 \/ j = 5 \/ j = 6
  BY TriggerLayout
<1>4. /\ L[1].name = "version" /\ L[3].name = "oem" /\ L[4].name = "key" /\ L[5].name = "sub_key"
      /\ L[6].name = "payload" /\ L[1].form = "msb" /\ L[2].form = "gap" /\ L[3].form = "msb"
      /\ L[4].form = "byte" /\ L[5].form = "byte" /\ L[6].form = "raw"
  BY TriggerLayout DEF Msb, Gap, U8, Raw, F
<1> HIDE DEF L
<1>5. AllFit(L, p)
  BY <1>2, <1>3, <1>4, FitsIf DEF AllFit
<1>6. /\ w.op = "trigger" /\ CutTo(w, w.size) = w
      /\ \A j \in 1..6 : Gapless(L, j) => L[j].name \in DOMAIN got /\ got[L[j].name] = Taken(L[j], p[L[j].name])
  <2>1. ReadWhole(w, "trigger", L, p)
    BY <1>3, <1>5, Sent
  <2> HIDE DEF w
  <2> QED BY <1>3, <2>1 DEF ReadWhole
<1>7. Gapless(L, 1) /\ Gapless(L, 3) /\ Gapless(L, 4) /\ Gapless(L, 5) /\ Gapless(L, 6)
  BY <1>4 DEF Gapless
<1>8. /\ Taken(L[1], p.version) = p.version /\ Taken(L[3], p.oem) = p.oem /\ Taken(L[4], p.key) = p.key
      /\ Taken(L[5], p.sub_key) = p.sub_key /\ Taken(L[6], p.payload) = p.payload
  BY <1>1, <1>4, TakenWhole, VersionFits
<1>9. Written("trigger", p) = w /\ Deserialized(w) = got
  BY <1>6, TriggerLayout DEF Written, WriteTrigger, Deserialized, ReadTrigger, L
<1> HIDE DEF w, got
<1>10. \A n \in DOMAIN p : got[n] = p[n]
  BY <1>1, <1>4, <1>6, <1>7, <1>8
<1>11. \A n \in DOMAIN p : n \notin TextsOf("trigger")
  BY <1>1 DEF TextsOf
<1>12. \A n \in DOMAIN p : Same("trigger", n, p[n], got[n])
  BY <1>10, <1>11 DEF Same, SameText
<1> QED BY <1>6, <1>9, <1>12 DEF Whole

LEMMA IpProgLayout ==
    LET L == IpProgWritten
    IN  /\ IpProgRead = L /\ Layout(L) /\ Beginning(L, L) /\ Len(L) = 9 /\ DOMAIN L = 1..9
        /\ L[1] = Msb("version") /\ L[2] = Gap(2) /\ L[3] = U8("command") /\ L[4] = Gap(1)
        /\ L[5] = Raw("prog_ip", 4) /\ L[6] = Raw("prog_subnet", 4) /\ L[7] = Gap(2)
        /\ L[8] = Raw("prog_gateway", 4) /\ L[9] = Gap(4)
        /\ \A j \in 1..9 : j = 1 \/ j = 2 \/ j = 3 \/ j = 4 \/ j = 5 \/ j = 6 \/ j = 7 \/ j = 8 \/ j = 9
<1> DEFINE L == IpProgWritten
<1>1. /\ IpProgRead = L /\ Len(L) = 9 /\ DOMAIN L = 1..9
      /\ L[1] = Msb("version") /\ L[2] = Gap(2) /\ L[3] = U8("command") /\ L[4] = Gap(1)
      /\ L[5] = Raw("prog_ip", 4) /\ L[6] = Raw("prog_subnet", 4) /\ L[7] = Gap(2)
      /\ L[8] = Raw("prog_gateway", 4) /\ L[9] = Gap(4)
      /\ \A j \in 1..9 : j = 1 \/ j = 2 \/ j = 3 \/ j = 4 \/ j = 5 \/ j = 6 \/ j = 7 \/ j = 8 \/ j = 9
  BY DEF IpProgWritten, IpProgRead
<1> HIDE DEF L
<1>2. \A j \in 1..9 : L[j].width \in Nat \ {0}
  BY <1>1 DEF Msb, Gap, U8, Raw, F
<1>3. \A i, j \in 1..9 : Gapless(L, i) /\ Gapless(L, j) /\ L[i].name = L[j].name => i = j
  BY <1>1 DEF Gapless, Msb, Gap, U8, Raw, F
<1> QED BY <1>1, <1>2, <1>3 DEF L, Layout, Beginning, Distinct

LEMMA IpProgArrives == ASSUME NEW p \in IpProgs PROVE Whole("ipProg", p)
<1> DEFINE L == IpProgWritten
           e == [p EXCEPT !.command = FlagByte(IpProgBits, @)]
           w == Write("ipProg", L, e)
           got == Read(L, w)
<1>1. /\ DOMAIN p = {"version", "command", "prog_ip", "prog_subnet", "prog_gateway"}
      /\ p.version = <<14>> /\ p.command \in SUBSET DOMAIN IpProgBits /\ p.prog_ip \in Octets(4)
      /\ p.prog_subnet \in Octets(4) /\ p.prog_gateway \in Octets(4)
  BY DEF IpProgs, Version14, PROTOCOL_VERSION
<1>2. /\ ByteSeq(p.prog_ip) /\ ByteSeq(p.prog_subnet) /\ ByteSeq(p.prog_gateway)
      /\ ByteSeq(FlagByte(IpProgBits, p.command)) /\ Flags(IpProgBits, FlagByte(IpProgBits, p.command)) = p.command
  <2>1. \A v \in Octets(4) : ByteSeq(v)
    BY OctetsFit
  <2>2. /\ Flags(IpProgBits, FlagByte(IpProgBits, p.command)) = p.command
        /\ FlagByte(IpProgBits, p.command)[1] \in 0..255
        /\ FlagByte(IpProgBits, p.command) = <<FlagByte(IpProgBits, p.command)[1]>>
    BY <1>1, FlagTables, FlagsBack
  <2>3. ByteSeq(FlagByte(IpProgBits, p.command))
    BY <2>2, OctetsFit
  <2> QED BY <1>1, <2>1, <2>2, <2>3
<1>3. /\ e["version"] = <<14>> /\ e["command"] = FlagByte(IpProgBits, p.command) /\ e["prog_ip"] = p.prog_ip
      /\ e["prog_subnet"] = p.prog_subnet /\ e["prog_gateway"] = p.prog_gateway
  BY <1>1
<1>4. /\ Layout(L) /\ Beginning(L, L) /\ Len(L) = 9 /\ DOMAIN L = 1..9
      /\ \A j \in 1..9 : j = 1 \/ j = 2 \/ j = 3 \/ j = 4 \/ j = 5 \/ j = 6 \/ j = 7 \/ j = 8 \/ j = 9
  BY IpProgLayout
<1>5. /\ L[1].name = "version" /\ L[3].name = "command" /\ L[5].name = "prog_ip" /\ L[6].name = "prog_subnet"
      /\ L[8].name = "prog_gateway" /\ L[1].form = "msb" /\ L[2].form = "gap" /\ L[3].form = "byte"
      /\ L[4].form = "gap" /\ L[5].form = "raw" /\ L[6].form = "raw" /\ L[7].form = "gap" /\ L[8].form = "raw"
      /\ L[9].form = "gap"
  BY IpProgLayout DEF Msb, Gap, U8, Raw, F
<1>6. Written("ipProg", p) = w
  BY DEF Written, WriteIpProg
<1> HIDE DEF L, e
<1>7. AllFit(L, e)
  BY <1>2, <1>3, <1>4, <1>5, FitsIf DEF AllFit
<1>8. /\ w.op = "ipProg" /\ CutTo(w, w.size) = w
      /\ \A j \in 1..9 : Gapless(L, j) => L[j].name \in DOMAIN got /\ got[L[j].name] = Taken(L[j], e[L[j].name])
  <2>1. ReadWhole(w, "ipProg", L, e)
    BY <1>4, <1>7, Sent
  <2> HIDE DEF w
  <2> QED BY <1>4, <2>1 DEF ReadWhole
<1>9. Gapless(L, 1) /\ Gapless(L, 3) /\ Gapless(L, 5) /\ Gapless(L, 6) /\ Gapless(L, 8)
  BY <1>5 DEF Gapless
<1>10. /\ Taken(L[1], <<14>>) = <<14>>
       /\ Taken(L[3], FlagByte(IpProgBits, p.command)) = FlagByte(IpProgBits, p.command)
       /\ Taken(L[5], p.prog_ip) = p.prog_ip /\ Taken(L[6], p.prog_subnet) = p.prog_subnet
       /\ Taken(L[8], p.prog_gateway) = p.prog_gateway
  BY <1>1, <1>2, <1>5, TakenWhole, VersionFits
<1>11. Deserialized(w) = [got EXCEPT !.command = Flags(IpProgBits, @)]
  BY <1>8, IpProgLayout DEF Deserialized, ReadIpProg, L
<1> HIDE DEF w, got
<1>12. /\ {"version", "command", "prog_ip", "prog_subnet", "prog_gateway"} \subseteq DOMAIN got
       /\ got["version"] = <<14>> /\ got["command"] = FlagByte(IpProgBits, p.command)
       /\ got["prog_ip"] = p.prog_ip /\ got["prog_subnet"] = p.prog_subnet
       /\ got["prog_gateway"] = p.prog_gateway
  BY <1>3, <1>5, <1>8, <1>9, <1>10
<1>13. \A n \in DOMAIN p : [got EXCEPT !.command = Flags(IpProgBits, @)][n] = p[n]
  BY <1>1, <1>2, <1>12
<1>14. \A n \in DOMAIN p : n \notin TextsOf("ipProg")
  BY <1>1 DEF TextsOf
<1>15. \A n \in DOMAIN p : Same("ipProg", n, p[n], Deserialized(w)[n])
  BY <1>11, <1>13, <1>14 DEF Same, SameText
<1> QED BY <1>6, <1>8, <1>11, <1>15 DEF Whole

LEMMA IpProgReplyLayout ==
    LET L == IpProgReplyWritten
    IN  /\ IpProgReplyRead = L /\ Layout(L) /\ Beginning(L, L) /\ Len(L) = 9 /\ DOMAIN L = 1..9
        /\ L[1] = Msb("version") /\ L[2] = Gap(4) /\ L[3] = Raw("prog_ip", 4) /\ L[4] = Raw("prog_subnet", 4)
        /\ L[5] = Gap(2) /\ L[6] = U8("dhcp_enabled") /\ L[7] = Gap(1) /\ L[8] = Raw("prog_gateway", 4)
        /\ L[9] = Gap(2)
        /\ \A j \in 1..9 : j = 1 \/ j = 2 \/ j = 3 \/ j = 4 \/ j = 5 \/ j = 6 \/ j = 7 \/ j = 8 \/ j = 9
<1> DEFINE L == IpProgReplyWritten
<1>1. /\ IpProgReplyRead = L /\ Len(L) = 9 /\ DOMAIN L = 1..9
      /\ L[1] = Msb("version") /\ L[2] = Gap(4) /\ L[3] = Raw("prog_ip", 4) /\ L[4] = Raw("prog_subnet", 4)
      /\ L[5] = Gap(2) /\ L[6] = U8("dhcp_enabled") /\ L[7] = Gap(1) /\ L[8] = Raw("prog_gateway", 4)
      /\ L[9] = Gap(2)
      /\ \A j \in 1..9 : j = 1 \/ j = 2 \/ j = 3 \/ j = 4 \/ j = 5 \/ j = 6 \/ j = 7 \/ j = 8 \/ j = 9
  BY DEF IpProgReplyWritten, IpProgReplyRead
<1> HIDE DEF L
<1>2. \A j \in 1..9 : L[j].width \in Nat \ {0}
  BY <1>1 DEF Msb, Gap, Raw, U8, F
<1>3. \A i, j \in 1..9 : Gapless(L, i) /\ Gapless(L, j) /\ L[i].name = L[j].name => i = j
  BY <1>1 DEF Gapless, Msb, Gap, Raw, U8, F
<1> QED BY <1>1, <1>2, <1>3 DEF L, Layout, Beginning, Distinct

LEMMA IpProgReplyArrives == ASSUME NEW p \in IpProgReplies PROVE Whole("ipProgReply", p)
<1> DEFINE L == IpProgReplyWritten
           e == [p EXCEPT !.dhcp_enabled = <<64 * Number1(@)>>]
           w == Write("ipProgReply", L, e)
           got == Read(L, w)
<1>1. /\ DOMAIN p = {"version", "dhcp_enabled", "prog_ip", "prog_subnet", "prog_gateway"}
      /\ p.version = <<14>> /\ p.dhcp_enabled \in BOOLEAN /\ p.prog_ip \in Octets(4)
      /\ p.prog_subnet \in Octets(4) /\ p.prog_gateway \in Octets(4)
  BY DEF IpProgReplies, Version14, PROTOCOL_VERSION
<1>2. /\ ByteSeq(p.prog_ip) /\ ByteSeq(p.prog_subnet) /\ ByteSeq(p.prog_gateway)
      /\ ByteSeq(<<64 * Number1(p.dhcp_enabled)>>) /\ Bit(64 * Number1(p.dhcp_enabled), 6) = p.dhcp_enabled
  <2>1. \A v \in Octets(4) : ByteSeq(v)
    BY OctetsFit
  <2>2. Number1(p.dhcp_enabled) = (IF p.dhcp_enabled THEN 1 ELSE 0)
    BY DEF Number1
  <2>3. ByteSeq(<<64 * Number1(p.dhcp_enabled)>>)
    <3>1. 64 * Number1(p.dhcp_enabled) \in 0..255
      BY <1>1, <2>2
    <3> QED BY <3>1, OctetsFit
  <2>4. Bit(64 * Number1(p.dhcp_enabled), 6) <=> p.dhcp_enabled
    <3>1. 2^6 = 64 /\ (64 \div 64) % 2 = 1 /\ (0 \div 64) % 2 = 0
      BY SMT
    <3>2. 64 * Number1(p.dhcp_enabled) = (IF p.dhcp_enabled THEN 64 ELSE 0)
      BY <1>1, <2>2
    <3> QED BY <1>1, <3>1, <3>2 DEF Bit
  <2>5. Bit(64 * Number1(p.dhcp_enabled), 6) \in BOOLEAN
    BY DEF Bit
  <2> QED BY <1>1, <2>1, <2>3, <2>4, <2>5
<1>3. /\ e["version"] = <<14>> /\ e["prog_ip"] = p.prog_ip /\ e["prog_subnet"] = p.prog_subnet
      /\ e["dhcp_enabled"] = <<64 * Number1(p.dhcp_enabled)>> /\ e["prog_gateway"] = p.prog_gateway
  BY <1>1
<1>4. /\ Layout(L) /\ Beginning(L, L) /\ Len(L) = 9 /\ DOMAIN L = 1..9
      /\ \A j \in 1..9 : j = 1 \/ j = 2 \/ j = 3 \/ j = 4 \/ j = 5 \/ j = 6 \/ j = 7 \/ j = 8 \/ j = 9
  BY IpProgReplyLayout
<1>5. /\ L[1].name = "version" /\ L[3].name = "prog_ip" /\ L[4].name = "prog_subnet"
      /\ L[6].name = "dhcp_enabled" /\ L[8].name = "prog_gateway" /\ L[1].form = "msb" /\ L[2].form = "gap"
      /\ L[3].form = "raw" /\ L[4].form = "raw" /\ L[5].form = "gap" /\ L[6].form = "byte" /\ L[7].form = "gap"
      /\ L[8].form = "raw" /\ L[9].form = "gap"
  BY IpProgReplyLayout DEF Msb, Gap, Raw, U8, F
<1>6. Written("ipProgReply", p) = w
  BY DEF Written, WriteIpProgReply
<1> HIDE DEF L, e
<1>7. AllFit(L, e)
  BY <1>2, <1>3, <1>4, <1>5, FitsIf DEF AllFit
<1>8. /\ w.op = "ipProgReply" /\ CutTo(w, w.size) = w
      /\ \A j \in 1..9 : Gapless(L, j) => L[j].name \in DOMAIN got /\ got[L[j].name] = Taken(L[j], e[L[j].name])
  <2>1. ReadWhole(w, "ipProgReply", L, e)
    BY <1>4, <1>7, Sent
  <2> HIDE DEF w
  <2> QED BY <1>4, <2>1 DEF ReadWhole
<1>9. Gapless(L, 1) /\ Gapless(L, 3) /\ Gapless(L, 4) /\ Gapless(L, 6) /\ Gapless(L, 8)
  BY <1>5 DEF Gapless
<1>10. /\ Taken(L[1], <<14>>) = <<14>> /\ Taken(L[3], p.prog_ip) = p.prog_ip
       /\ Taken(L[4], p.prog_subnet) = p.prog_subnet
       /\ Taken(L[6], <<64 * Number1(p.dhcp_enabled)>>) = <<64 * Number1(p.dhcp_enabled)>>
       /\ Taken(L[8], p.prog_gateway) = p.prog_gateway
  BY <1>1, <1>2, <1>5, TakenWhole, VersionFits
<1>11. Deserialized(w) = [got EXCEPT !.dhcp_enabled = Bit(@[1], 6)]
  BY <1>8, IpProgReplyLayout DEF Deserialized, ReadIpProgReply, L
<1> HIDE DEF w, got
<1>12. /\ {"version", "prog_ip", "prog_subnet", "dhcp_enabled", "prog_gateway"} \subseteq DOMAIN got
       /\ got["version"] = <<14>> /\ got["prog_ip"] = p.prog_ip /\ got["prog_subnet"] = p.prog_subnet
       /\ got["dhcp_enabled"] = <<64 * Number1(p.dhcp_enabled)>> /\ got["prog_gateway"] = p.prog_gateway
  BY <1>3, <1>5, <1>8, <1>9, <1>10
<1>13. \A n \in DOMAIN p : [got EXCEPT !.dhcp_enabled = Bit(@[1], 6)][n] = p[n]
  BY <1>1, <1>2, <1>12
<1>14. \A n \in DOMAIN p : n \notin TextsOf("ipProgReply")
  BY <1>1 DEF TextsOf
<1>15. \A n \in DOMAIN p : Same("ipProgReply", n, p[n], Deserialized(w)[n])
  BY <1>11, <1>13, <1>14 DEF Same, SameText
<1> QED BY <1>6, <1>8, <1>11, <1>15 DEF Whole

(* A value with its action, and a command whose port has no index.           *)
LEMMA ActionsBack ==
    ASSUME NEW va \in ValuesAndActions
    PROVE  ValueAndAction(va) \in 0..255 /\ SameAction(va, FromValueAndAction(ValueAndAction(va)))
<1> DEFINE b == ValueAndAction(va)
           v == va.value
<1>1. v \in 0..127 /\ va.action \in {"reset", "ignore", "write"} /\ (va.action = "ignore" => v # 0)
  BY DEF ValuesAndActions
<1>2. /\ va.action = "reset" => b = 0
      /\ va.action = "write" => b = 128 + v
      /\ va.action = "ignore" => b = v
  BY <1>1 DEF ValueAndAction
<1>3. FromValueAndAction(b).value = b
      /\ FromValueAndAction(b).action = IF b = 0 THEN "reset" ELSE IF Bit(b, 7) THEN "write" ELSE "ignore"
  BY DEF FromValueAndAction
<1> HIDE DEF b, v
<1>4. Bit(b, 7) <=> (b \div 128) % 2 = 1
  <2>1. 2^7 = 128
    BY SMT
  <2> QED BY <2>1 DEF Bit
<1>5. CASE va.action = "reset"
  <2>1. b = 0
    BY <1>2, <1>5
  <2> QED BY <1>3, <1>5, <2>1 DEF SameAction, b
<1>6. CASE va.action = "write"
  <2>1. b = 128 + v /\ b \in 0..255 /\ b # 0 /\ (b \div 128) % 2 = 1 /\ b % 128 = v
    BY <1>1, <1>2, <1>6
  <2> QED BY <1>3, <1>4, <1>6, <2>1 DEF SameAction, b, v
<1>7. CASE va.action = "ignore"
  <2>1. b = v /\ b \in 0..255 /\ b # 0 /\ (b \div 128) % 2 = 0 /\ b % 128 = v
    BY <1>1, <1>2, <1>7
  <2> QED BY <1>3, <1>4, <1>7, <2>1 DEF SameAction, b, v
<1> QED BY <1>1, <1>5, <1>6, <1>7

LEMMA CommandsBack ==
    ASSUME NEW c \in [command : ArtAddressCommand, index : 0..3]
    PROVE  LET n == WithPortIndex(c.command, c.index)
           IN  n \in 0..255 /\ (c.index = 0 => FromPortIndex(n) = c)
<1> DEFINE k == c.command
           i == c.index
           n == WithPortIndex(k, i)
<1>1. k \in ArtAddressCommand /\ i \in 0..3 /\ c = [command |-> k, index |-> i]
  OBVIOUS
<1>2. n = IF k >= 16 THEN k ELSE k + i
  BY DEF WithPortIndex
<1>3. k \in 0..12 \/ k \in {16, 32, 48, 80, 96, 112, 144, 160, 176, 192, 208}
  BY <1>1 DEF ArtAddressCommand
<1> HIDE DEF k, i, n
<1>4. k \in 0..12 => n \in 0..255 /\ n = k + i /\ ~(k >= 16)
  BY <1>1, <1>2
<1>5. k \in {16, 32, 48, 80, 96, 112, 144, 160, 176, 192, 208} => n \in 0..255 /\ n = k /\ k >= 16 /\ k % 16 = 0
  BY <1>2
<1>6. ASSUME i = 0 PROVE FromPortIndex(n) = [command |-> k, index |-> 0]
  <2>1. k \in Int /\ n = k
    BY <1>3, <1>4, <1>5, <1>6
  <2>2. k >= 16 => k % 16 = 0 /\ k - 0 = k
    BY <1>3, <1>4, <1>5, <2>1
  <2> QED BY <2>1, <2>2 DEF FromPortIndex
<1> QED BY <1>1, <1>3, <1>4, <1>5, <1>6 DEF k, i, n

LEMMA AddressLayout ==
    LET L == AddressWritten
    IN  /\ AddressRead = L /\ Layout(L) /\ Beginning(L, L) /\ Len(L) = 10 /\ DOMAIN L = 1..10
        /\ L[1] = Msb("version") /\ L[2] = U8("net_switch") /\ L[3] = U8("bind_index")
        /\ L[4] = Text("short_name", 18) /\ L[5] = Text("long_name", 64) /\ L[6] = Raw("sw_in", 4)
        /\ L[7] = Raw("sw_out", 4) /\ L[8] = U8("sub_switch") /\ L[9] = U8("acn_priority")
        /\ L[10] = U8("command")
        /\ \A j \in 1..10 : j = 1 \/ j = 2 \/ j = 3 \/ j = 4 \/ j = 5 \/ j = 6 \/ j = 7 \/ j = 8 \/ j = 9 \/ j = 10
<1> DEFINE L == AddressWritten
<1>1. /\ AddressRead = L /\ Len(L) = 10 /\ DOMAIN L = 1..10
      /\ L[1] = Msb("version") /\ L[2] = U8("net_switch") /\ L[3] = U8("bind_index")
      /\ L[4] = Text("short_name", 18) /\ L[5] = Text("long_name", 64) /\ L[6] = Raw("sw_in", 4)
      /\ L[7] = Raw("sw_out", 4) /\ L[8] = U8("sub_switch") /\ L[9] = U8("acn_priority")
      /\ L[10] = U8("command")
      /\ \A j \in 1..10 : j = 1 \/ j = 2 \/ j = 3 \/ j = 4 \/ j = 5 \/ j = 6 \/ j = 7 \/ j = 8 \/ j = 9 \/ j = 10
  BY DEF AddressWritten, AddressRead
<1> HIDE DEF L
<1>2. \A j \in 1..10 : L[j].width \in Nat \ {0}
  BY <1>1 DEF Msb, U8, Text, Raw, F
<1>3. \A i, j \in 1..10 : Gapless(L, i) /\ Gapless(L, j) /\ L[i].name = L[j].name => i = j
  BY <1>1 DEF Gapless, Msb, U8, Text, Raw, F
<1> QED BY <1>1, <1>2, <1>3 DEF L, Layout, Beginning, Distinct

LEMMA AddressArrives == ASSUME NEW p \in Addresses PROVE Whole("address", p)
<1> DEFINE L == AddressWritten
           e == [p EXCEPT !.net_switch = <<ValueAndAction(@)>>, !.sub_switch = <<ValueAndAction(@)>>,
                        !.sw_in = [i \in 1..4 |-> ValueAndAction(@[i])],
                        !.sw_out = [i \in 1..4 |-> ValueAndAction(@[i])],
                        !.command = <<WithPortIndex(@.command, @.index)>>]
           w == Write("address", L, e)
           got == Read(L, w)
<1>1. /\ DOMAIN p = {"version", "net_switch", "bind_index", "short_name", "long_name", "sw_in", "sw_out", "sub_switch", "acn_priority", "command"}
      /\ p.version = <<14>> /\ p.net_switch \in ValuesAndActions /\ p.bind_index \in Octets(1)
      /\ p.short_name \in TextBelow(18) /\ p.long_name \in TextBelow(64)
      /\ p.sw_in \in [1..4 -> ValuesAndActions] /\ p.sw_out \in [1..4 -> ValuesAndActions]
      /\ p.sub_switch \in ValuesAndActions /\ p.acn_priority \in Octets(1)
      /\ p.command \in [command : ArtAddressCommand, index : 0..3]
  BY DEF Addresses, Version14, PROTOCOL_VERSION
<1>2. /\ ByteSeq(<<ValueAndAction(p.net_switch)>>) /\ ByteSeq(<<ValueAndAction(p.sub_switch)>>)
      /\ ByteSeq([i \in 1..4 |-> ValueAndAction(p.sw_in[i])])
      /\ ByteSeq([i \in 1..4 |-> ValueAndAction(p.sw_out[i])])
      /\ ByteSeq(p.bind_index) /\ ByteSeq(p.acn_priority)
      /\ ByteSeq(<<WithPortIndex(p.command.command, p.command.index)>>)
  <2>1. \A va \in ValuesAndActions : ValueAndAction(va) \in 0..255
    BY ActionsBack
  <2>2. \A f \in [1..4 -> ValuesAndActions] : ByteSeq([i \in 1..4 |-> ValueAndAction(f[i])])
    BY <2>1 DEF ByteSeq
  <2>3. WithPortIndex(p.command.command, p.command.index) \in 0..255
    BY <1>1, CommandsBack
  <2> QED BY <1>1, <2>1, <2>2, <2>3, OctetsFit
<1>3. /\ e["version"] = <<14>> /\ e["net_switch"] = <<ValueAndAction(p.net_switch)>>
      /\ e["bind_index"] = p.bind_index /\ e["short_name"] = p.short_name /\ e["long_name"] = p.long_name
      /\ e["sw_in"] = [i \in 1..4 |-> ValueAndAction(p.sw_in[i])]
      /\ e["sw_out"] = [i \in 1..4 |-> ValueAndAction(p.sw_out[i])]
      /\ e["sub_switch"] = <<ValueAndAction(p.sub_switch)>> /\ e["acn_priority"] = p.acn_priority
      /\ e["command"] = <<WithPortIndex(p.command.command, p.command.index)>>
  BY <1>1
<1>4. /\ Layout(L) /\ Beginning(L, L) /\ Len(L) = 10 /\ DOMAIN L = 1..10
      /\ \A j \in 1..10 : j = 1 \/ j = 2 \/ j = 3 \/ j = 4 \/ j = 5 \/ j = 6 \/ j = 7 \/ j = 8 \/ j = 9 \/ j = 10
  BY AddressLayout
<1>5. /\ L[1].name = "version" /\ L[2].name = "net_switch" /\ L[3].name = "bind_index"
      /\ L[4].name = "short_name" /\ L[5].name = "long_name" /\ L[6].name = "sw_in" /\ L[7].name = "sw_out"
      /\ L[8].name = "sub_switch" /\ L[9].name = "acn_priority" /\ L[10].name = "command" /\ L[1].form = "msb"
      /\ L[2].form = "byte" /\ L[3].form = "byte" /\ L[4].form = "text" /\ L[5].form = "text"
      /\ L[6].form = "raw" /\ L[7].form = "raw" /\ L[8].form = "byte" /\ L[9].form = "byte"
      /\ L[10].form = "byte" /\ L[4].width = 18 /\ L[5].width = 64
  BY AddressLayout DEF Msb, U8, Text, Raw, F
<1>6. Written("address", p) = w
  BY DEF Written, WriteAddress
<1> HIDE DEF L, e
<1>7. AllFit(L, e)
  BY <1>2, <1>3, <1>4, <1>5, FitsIf DEF AllFit
<1>8. /\ w.op = "address" /\ CutTo(w, w.size) = w
      /\ \A j \in 1..10 : Gapless(L, j) => L[j].name \in DOMAIN got /\ got[L[j].name] = Taken(L[j], e[L[j].name])
  <2>1. ReadWhole(w, "address", L, e)
    BY <1>4, <1>7, Sent
  <2> HIDE DEF w
  <2> QED BY <1>4, <2>1 DEF ReadWhole
<1>9. Gapless(L, 1) /\ Gapless(L, 2) /\ Gapless(L, 3) /\ Gapless(L, 4) /\ Gapless(L, 5) /\ Gapless(L, 6) /\ Gapless(L, 7) /\ Gapless(L, 8) /\ Gapless(L, 9) /\ Gapless(L, 10)
  BY <1>5 DEF Gapless
<1>10. /\ Taken(L[1], <<14>>) = <<14>>
       /\ Taken(L[2], <<ValueAndAction(p.net_switch)>>) = <<ValueAndAction(p.net_switch)>>
       /\ Taken(L[3], p.bind_index) = p.bind_index
       /\ Taken(L[4], p.short_name) = (IF p.short_name = <<0>> THEN Nuls ELSE p.short_name)
       /\ Taken(L[5], p.long_name) = (IF p.long_name = <<0>> THEN Nuls ELSE p.long_name)
       /\ Taken(L[6], [i \in 1..4 |-> ValueAndAction(p.sw_in[i])]) = [i \in 1..4 |-> ValueAndAction(p.sw_in[i])]
       /\ Taken(L[7], [i \in 1..4 |-> ValueAndAction(p.sw_out[i])]) = [i \in 1..4 |-> ValueAndAction(p.sw_out[i])]
       /\ Taken(L[8], <<ValueAndAction(p.sub_switch)>>) = <<ValueAndAction(p.sub_switch)>>
       /\ Taken(L[9], p.acn_priority) = p.acn_priority
       /\ Taken(L[10], <<WithPortIndex(p.command.command, p.command.index)>>) = <<WithPortIndex(p.command.command, p.command.index)>>
  BY <1>1, <1>2, <1>5, TakenWhole, VersionFits
<1>11. Deserialized(w) = [got EXCEPT !.net_switch = FromValueAndAction(@[1]), !.sub_switch = FromValueAndAction(@[1]),
                                !.sw_in = [i \in 1..4 |-> FromValueAndAction(@[i])],
                                !.sw_out = [i \in 1..4 |-> FromValueAndAction(@[i])],
                                !.command = FromPortIndex(@[1])]
  BY <1>8, AddressLayout DEF Deserialized, ReadAddress, L
<1> HIDE DEF w, got
<1>12. /\ {"version", "net_switch", "bind_index", "short_name", "long_name", "sw_in", "sw_out", "sub_switch", "acn_priority", "command"} \subseteq DOMAIN got
       /\ got["version"] = <<14>> /\ got["net_switch"] = <<ValueAndAction(p.net_switch)>>
       /\ got["bind_index"] = p.bind_index
       /\ got["short_name"] = (IF p.short_name = <<0>> THEN Nuls ELSE p.short_name)
       /\ got["long_name"] = (IF p.long_name = <<0>> THEN Nuls ELSE p.long_name)
       /\ got["sw_in"] = [i \in 1..4 |-> ValueAndAction(p.sw_in[i])]
       /\ got["sw_out"] = [i \in 1..4 |-> ValueAndAction(p.sw_out[i])]
       /\ got["sub_switch"] = <<ValueAndAction(p.sub_switch)>> /\ got["acn_priority"] = p.acn_priority
       /\ got["command"] = <<WithPortIndex(p.command.command, p.command.index)>>
  BY <1>3, <1>5, <1>8, <1>9, <1>10
<1> DEFINE r == Deserialized(w)
<1>13. /\ r["version"] = <<14>> /\ r["bind_index"] = p.bind_index /\ r["acn_priority"] = p.acn_priority
       /\ r["net_switch"] = FromValueAndAction(ValueAndAction(p.net_switch))
       /\ r["sub_switch"] = FromValueAndAction(ValueAndAction(p.sub_switch))
       /\ r["sw_in"] = [i \in 1..4 |-> FromValueAndAction(ValueAndAction(p.sw_in[i]))]
       /\ r["sw_out"] = [i \in 1..4 |-> FromValueAndAction(ValueAndAction(p.sw_out[i]))]
       /\ r["short_name"] = (IF p.short_name = <<0>> THEN Nuls ELSE p.short_name)
       /\ r["long_name"] = (IF p.long_name = <<0>> THEN Nuls ELSE p.long_name)
       /\ r["command"] = FromPortIndex(WithPortIndex(p.command.command, p.command.index))
  BY <1>11, <1>12
<1> HIDE DEF r
<1>14. /\ \A va \in ValuesAndActions : SameAction(va, FromValueAndAction(ValueAndAction(va)))
       /\ p.command.index = 0 => p.command = FromPortIndex(WithPortIndex(p.command.command, p.command.index))
  BY <1>1, ActionsBack, CommandsBack
<1>15. \A n \in DOMAIN p : Same("address", n, p[n], r[n])
  <2>1. \A n \in {"version", "bind_index", "acn_priority"} : Same("address", n, p[n], r[n])
    BY <1>1, <1>13 DEF Same, SameText, TextsOf
  <2>2. \A n \in {"net_switch", "sub_switch"} : Same("address", n, p[n], r[n])
    BY <1>1, <1>13, <1>14 DEF Same
  <2>3. \A n \in {"sw_in", "sw_out"} : Same("address", n, p[n], r[n])
    BY <1>1, <1>13, <1>14 DEF Same
  <2>4. \A n \in {"short_name", "long_name"} : Same("address", n, p[n], r[n])
    BY <1>13 DEF Same, SameText, TextsOf
  <2>5. Same("address", "command", p["command"], r["command"])
    BY <1>13, <1>14 DEF Same
  <2> QED BY <1>1, <2>1, <2>2, <2>3, <2>4, <2>5
<1> QED BY <1>6, <1>8, <1>15 DEF Whole, r

LEMMA PollArrives == ASSUME NEW p \in Polls PROVE Whole("poll", p)
<1> DEFINE L == PollWritten
           e == [p EXCEPT !.flags = FlagByte(PollBits, p.flags), !.top = <<Number(@)>>, !.bottom = <<Number(@)>>]
           w == Write("poll", L, e)
           got == Read(L, w)
           t == Number(p.top)
           b == Number(p.bottom)
<1>1. /\ DOMAIN p = {"version", "flags", "priority", "top", "bottom"}
      /\ p.version = <<14>> /\ p.flags \in SUBSET DOMAIN PollBits /\ p.priority \in Single(DiagnosticsPriority)
      /\ p.top \in PortAddresses /\ p.bottom \in PortAddresses
      /\ "targeted" \in p.flags \/ (p.top = ArtPoll.top /\ p.bottom = ArtPoll.bottom)
  BY DEF Polls, Version14, PROTOCOL_VERSION
<1>2. /\ ByteSeq(p.priority) /\ ByteSeq(FlagByte(PollBits, p.flags))
      /\ Flags(PollBits, FlagByte(PollBits, p.flags)) = p.flags
  <2>1. /\ Flags(PollBits, FlagByte(PollBits, p.flags)) = p.flags
        /\ FlagByte(PollBits, p.flags)[1] \in 0..255
        /\ FlagByte(PollBits, p.flags) = <<FlagByte(PollBits, p.flags)[1]>>
    BY <1>1, FlagTables, FlagsBack
  <2>2. ByteSeq(FlagByte(PollBits, p.flags))
    BY <2>1, OctetsFit
  <2> QED BY <1>1, <2>1, <2>2, OctetsFit
<1>3. /\ e["version"] = <<14>> /\ e["flags"] = FlagByte(PollBits, p.flags) /\ e["priority"] = p.priority
      /\ e["top"] = <<t>> /\ e["bottom"] = <<b>>
  BY <1>1
<1>4. /\ Layout(L) /\ Beginning(L, L) /\ Len(L) = 5 /\ DOMAIN L = 1..5 /\ PollRead = L
      /\ \A j \in 1..5 : j = 1 \/ j = 2 \/ j = 3 \/ j = 4 \/ j = 5
  <2>1. PollRead = L
    BY DEF PollRead, PollWritten
  <2>2. \A j \in 1..5 : j = 1 \/ j = 2 \/ j = 3 \/ j = 4 \/ j = 5
    OBVIOUS
  <2> QED BY <2>1, <2>2, PollLayouts DEF Layout
<1>5. /\ L[1].name = "version" /\ L[2].name = "flags" /\ L[3].name = "priority" /\ L[4].name = "top"
      /\ L[5].name = "bottom" /\ L[1].form = "msb" /\ L[2].form = "byte" /\ L[3].form = "byte"
      /\ L[4].form = "msb" /\ L[5].form = "msb"
  BY DEF PollWritten, Msb, U8, F
<1>6. Written("poll", p) = w
  BY DEF Written, WritePoll
<1> HIDE DEF L, e, t, b
<1>7. AllFit(L, e)
  BY <1>2, <1>3, <1>4, <1>5, FitsIf DEF AllFit
<1>8. /\ w.op = "poll" /\ CutTo(w, w.size) = w
      /\ \A j \in 1..5 : Gapless(L, j) => L[j].name \in DOMAIN got /\ got[L[j].name] = Taken(L[j], e[L[j].name])
  <2>1. ReadWhole(w, "poll", L, e)
    BY <1>4, <1>7, Sent
  <2> HIDE DEF w
  <2> QED BY <1>4, <2>1 DEF ReadWhole
<1>9. Gapless(L, 1) /\ Gapless(L, 2) /\ Gapless(L, 3) /\ Gapless(L, 4) /\ Gapless(L, 5)
  BY <1>5 DEF Gapless
<1>10. /\ Taken(L[1], <<14>>) = <<14>> /\ Taken(L[2], FlagByte(PollBits, p.flags)) = FlagByte(PollBits, p.flags)
       /\ Taken(L[3], p.priority) = p.priority
  BY <1>1, <1>5, TakenWhole, VersionFits
<1>11. Taken(L[4], <<t>>) = <<t % 65536>> /\ Taken(L[5], <<b>>) = <<b % 65536>>
  BY <1>5 DEF Taken, Appended
<1> HIDE DEF w, got
<1>12. /\ {"version", "flags", "priority", "top", "bottom"} \subseteq DOMAIN got
       /\ got["version"] = <<14>> /\ got["flags"] = FlagByte(PollBits, p.flags) /\ got["priority"] = p.priority
       /\ got["top"] = <<t % 65536>> /\ got["bottom"] = <<b % 65536>>
  BY <1>3, <1>5, <1>8, <1>9, <1>10, <1>11
<1> DEFINE r == Deserialized(w)
           a == With(ArtPoll, got)
           c == [a EXCEPT !.flags = Flags(PollBits, @), !.top = Parse(@[1]), !.bottom = Parse(@[1])]
<1>13. r = IF "targeted" \in c.flags THEN c ELSE [c EXCEPT !.top = ArtPoll.top, !.bottom = ArtPoll.bottom]
  <2>1. Deserialized(w) = ReadPoll(w)
    BY <1>8 DEF Deserialized
  <2> QED BY <1>4, <2>1 DEF ReadPoll, got, L
<1>14. /\ {"version", "flags", "priority", "top", "bottom"} \subseteq DOMAIN a
       /\ a["version"] = <<14>> /\ a["flags"] = FlagByte(PollBits, p.flags) /\ a["priority"] = p.priority
       /\ a["top"] = <<t % 65536>> /\ a["bottom"] = <<b % 65536>>
  BY <1>12 DEF With
<1> HIDE DEF a, r
<1>15. /\ {"version", "flags", "priority", "top", "bottom"} \subseteq DOMAIN c
       /\ c["version"] = <<14>> /\ c["flags"] = p.flags /\ c["priority"] = p.priority
       /\ c["top"] = Parse(t % 65536) /\ c["bottom"] = Parse(b % 65536)
  BY <1>2, <1>14
<1> HIDE DEF c
<1>16. /\ r["version"] = p.version /\ r["flags"] = p.flags /\ r["priority"] = p.priority
       /\ r["top"] = IF "targeted" \in p.flags THEN Parse(t % 65536) ELSE p.top
       /\ r["bottom"] = IF "targeted" \in p.flags THEN Parse(b % 65536) ELSE p.bottom
  BY <1>1, <1>13, <1>15
<1>17. /\ t < 65536 => Parse(t % 65536) = p.top
       /\ b < 65536 => Parse(b % 65536) = p.bottom
  <2>1. ASSUME NEW x \in PortAddresses PROVE Number(x) \in Nat
    <3>1. \A i, j, k \in Nat : i * 8192 + j * 512 + k \in Nat
      OBVIOUS
    <3>2. x.net \in Nat /\ x.sub \in Nat /\ x.universe \in Nat
      BY DEF PortAddresses
    <3> QED BY <3>1, <3>2 DEF Number
  <2>2. \A n \in Nat : n < 65536 => n % 65536 = n
    OBVIOUS
  <2> QED BY <1>1, <2>1, <2>2, ParseNumber DEF t, b
<1>18. \A n \in DOMAIN p : Same("poll", n, p[n], r[n])
  <2>1. \A n \in {"version", "flags", "priority"} : Same("poll", n, p[n], r[n])
    BY <1>16 DEF Same, SameText, TextsOf
  <2>2. Same("poll", "top", p["top"], r["top"]) /\ Same("poll", "bottom", p["bottom"], r["bottom"])
    BY <1>16, <1>17 DEF Same, t, b
  <2> QED BY <1>1, <2>1, <2>2
<1> QED BY <1>6, <1>8, <1>18 DEF Whole, r

LEMMA DiagArrives == ASSUME NEW p \in Diagnoses PROVE Whole("diagData", p)
<1> DEFINE n == p.text[1]
           R == DiagReadHead
           L == <<Msb("version"), Gap(1), U8("priority"), U8("logical_port"), Gap(1), Msb("length"), Text("text", n + 1)>>
           e == With(p, [length |-> p.text])
           w == Write("diagData", L, e)
           got == Read(L, w)
<1>1. /\ DOMAIN p = {"version", "priority", "logical_port", "text"}
      /\ p.version = <<14>> /\ p.priority \in Single(DiagnosticsPriority) /\ p.logical_port \in Octets(1)
      /\ p.text \in TextBelow(512)
  BY DEF Diagnoses, Version14, PROTOCOL_VERSION
<1>2. n \in Nat /\ n < 512 /\ p.text = <<n>>
  <2>1. n \in 0..512 - 1 /\ p.text = <<n>>
    BY <1>1, SingleIs DEF TextBelow
  <2> QED BY <2>1
<1>3. ByteSeq(p.priority) /\ ByteSeq(p.logical_port)
  <2>1. 1 \in Nat
    OBVIOUS
  <2> QED BY <1>1, <2>1, OctetsFit
<1> HIDE DEF n
<1>4. /\ e["version"] = <<14>> /\ e["priority"] = p.priority /\ e["logical_port"] = p.logical_port
      /\ e["length"] = <<n>> /\ e["text"] = <<n>>
  BY <1>1, <1>2 DEF With
<1>5. DiagWritten(n) = L /\ R \o <<Text("text", n + 1)>> = L
  BY Concat7 DEF DiagWritten, DiagHead, DiagReadHead
<1>6. /\ DOMAIN L = 1..7 /\ Len(L) = 7 /\ Len(R) = 6 /\ DOMAIN R = 1..6
      /\ \A j \in 1..7 : j = 1 \/ j = 2 \/ j = 3 \/ j = 4 \/ j = 5 \/ j = 6 \/ j = 7
      /\ L[1] = Msb("version") /\ L[2] = Gap(1) /\ L[3] = U8("priority") /\ L[4] = U8("logical_port")
      /\ L[5] = Gap(1) /\ L[6] = Msb("length") /\ L[7] = Text("text", n + 1)
  BY DEF DiagReadHead
<1>7. \A j \in 1..6 : j \in 1..7 /\ R[j] = L[j]
  BY DEF DiagReadHead
<1>8. Written("diagData", p) = w
  BY <1>5 DEF Written, WriteDiag, n
<1> HIDE DEF L, R, e
<1>9. /\ L[1].name = "version" /\ L[3].name = "priority" /\ L[4].name = "logical_port" /\ L[6].name = "length"
      /\ L[7].name = "text" /\ L[1].form = "msb" /\ L[2].form = "gap" /\ L[3].form = "byte" /\ L[4].form = "byte"
      /\ L[5].form = "gap" /\ L[6].form = "msb" /\ L[7].form = "text" /\ L[7].width = n + 1
  BY <1>6 DEF Msb, Gap, U8, Text, F
<1>10. \A j \in 1..7 : L[j].width \in Nat \ {0}
  BY <1>2, <1>6 DEF Msb, Gap, U8, Text, F
<1>11. \A i, j \in 1..7 : Gapless(L, i) /\ Gapless(L, j) /\ L[i].name = L[j].name => i = j
  BY <1>6, <1>9 DEF Gapless
<1>12. Layout(L) /\ Beginning(L, L) /\ Beginning(R, L)
  BY <1>6, <1>7, <1>10, <1>11 DEF Layout, Beginning, Distinct, Gapless
<1>13. AllFit(L, e)
  BY <1>3, <1>4, <1>6, <1>9, FitsIf DEF AllFit
<1>14. ReadWhole(w, "diagData", L, e) /\ ReadWhole(w, "diagData", R, e)
  BY <1>12, <1>13, Sent
<1> HIDE DEF w, got
<1>15. Gapless(L, 1) /\ Gapless(L, 3) /\ Gapless(L, 4) /\ Gapless(L, 6) /\ Gapless(L, 7) /\ Gapless(R, 6)
  BY <1>6, <1>7, <1>9 DEF Gapless
<1>16. /\ Taken(L[1], <<14>>) = <<14>> /\ Taken(L[3], p.priority) = p.priority
       /\ Taken(L[4], p.logical_port) = p.logical_port /\ Taken(L[6], <<n>>) = <<n>>
       /\ Taken(L[7], <<n>>) = IF <<n>> = <<0>> THEN Nuls ELSE <<n>>
  <2>1. <<n>> \in Word
    <3>1. <<n>> \in Single(Nat) /\ <<n>>[1] = n /\ n < 65536
      BY <1>2 DEF Single
    <3> QED BY <3>1 DEF Word
  <2>2. <<n>> \in TextBelow(n + 1) /\ n + 1 \in Nat
    BY <1>2 DEF TextBelow, Single
  <2> QED BY <1>9, <2>1, <2>2, TakenWhole, VersionFits
<1>17. /\ {"version", "priority", "logical_port", "text"} \subseteq DOMAIN got
       /\ got["version"] = <<14>> /\ got["priority"] = p.priority /\ got["logical_port"] = p.logical_port
       /\ got["text"] = IF <<n>> = <<0>> THEN Nuls ELSE <<n>>
  BY <1>4, <1>6, <1>9, <1>14, <1>15, <1>16 DEF ReadWhole, got
<1>18. Read(R, w)["length"] = <<n>>
  BY <1>4, <1>6, <1>7, <1>9, <1>14, <1>15, <1>16 DEF ReadWhole
<1>19. w.op = "diagData" /\ CutTo(w, w.size) = w
  BY <1>14 DEF ReadWhole
<1>20. Deserialized(w) = got
  <2>1. Deserialized(w) = ReadDiag(w)
    BY <1>19 DEF Deserialized
  <2>2. Read(DiagReadHead, w).length[1] = n
    BY <1>18 DEF R
  <2> QED BY <1>5, <2>1, <2>2 DEF ReadDiag, got, R
<1>21. \A m \in DOMAIN p : Same("diagData", m, p[m], got[m])
  <2>1. \A m \in {"version", "priority", "logical_port"} : Same("diagData", m, p[m], got[m])
    BY <1>1, <1>17 DEF Same, SameText, TextsOf
  <2>2. Same("diagData", "text", p["text"], got["text"])
    BY <1>2, <1>17 DEF Same, SameText, TextsOf
  <2> QED BY <1>1, <2>1, <2>2
<1> QED BY <1>8, <1>19, <1>20, <1>21 DEF Whole

(* A port of a reply, and its bytes. *)
GoodInputOf(q) == FlagByte(GoodInputBits, q.good_input)[1]
GoodOutputAOf(q) == FlagByte(GoodOutputABits, q.good_output_a)[1]
GoodOutputBOf(q) == FlagByte(GoodOutputBBits, q.good_output_b)[1]

LEMMA PortBack ==
    ASSUME NEW q \in NodePorts
    PROVE  /\ PortTypes(q) \in 0..255 /\ Flags(TypeBits, <<PortTypes(q)>>) = q.direction
           /\ PortTypes(q) % 64 = q.type
           /\ GoodInputOf(q) \in 0..255 /\ Flags(GoodInputBits, <<GoodInputOf(q)>>) = q.good_input
           /\ GoodOutputAOf(q) \in 0..255 /\ Flags(GoodOutputABits, <<GoodOutputAOf(q)>>) = q.good_output_a
           /\ GoodOutputBOf(q) \in 0..255 /\ Flags(GoodOutputBBits, <<GoodOutputBOf(q)>>) = q.good_output_b
           /\ q.sw_in \in 0..255 /\ q.sw_out \in 0..255
<1>1. /\ q.direction \in SUBSET DOMAIN TypeBits /\ q.type \in 0..6
      /\ q.good_input \in SUBSET DOMAIN GoodInputBits /\ q.good_output_a \in SUBSET DOMAIN GoodOutputABits
      /\ q.good_output_b \in SUBSET DOMAIN GoodOutputBBits /\ q.sw_in \in 0..255 /\ q.sw_out \in 0..255
  BY DEF NodePorts, Octet
<1>2. /\ PortTypes(q) \in 0..255 /\ Flags(TypeBits, <<PortTypes(q)>>) = q.direction
      /\ PortTypes(q) % 64 = q.type
  BY <1>1, TypesBack DEF PortTypes
<1>3. GoodInputOf(q) \in 0..255 /\ Flags(GoodInputBits, <<GoodInputOf(q)>>) = q.good_input
  BY <1>1, FlagTables, FlagsBack DEF GoodInputOf
<1>4. GoodOutputAOf(q) \in 0..255 /\ Flags(GoodOutputABits, <<GoodOutputAOf(q)>>) = q.good_output_a
  BY <1>1, FlagTables, FlagsBack DEF GoodOutputAOf
<1>5. GoodOutputBOf(q) \in 0..255 /\ Flags(GoodOutputBBits, <<GoodOutputBOf(q)>>) = q.good_output_b
  BY <1>1, FlagTables, FlagsBack DEF GoodOutputBOf
<1> QED BY <1>1, <1>2, <1>3, <1>4, <1>5

(* The attributes that are written as they are, and those a short reply lacks. *)
Plain == {"source_ip", "port", "firmware_version", "net_switch", "sub_switch", "oem", "esta", "short_name",
          "long_name", "node_report", "acn_priority", "sw_macro_bitmap", "sw_remote_bitmap", "style",
          "mac_address", "bind_ip", "bind_index"}

LEMMA ReplyAttributes ==
    ASSUME NEW p \in PollReplies
    PROVE  /\ DOMAIN p = DOMAIN ArtPollReply
           /\ p.source_ip \in Octets(4) /\ p.port = <<6454>> /\ p.firmware_version \in Word
           /\ p.net_switch \in Octets(1) /\ p.sub_switch \in Octets(1) /\ p.oem \in Word /\ p.ubea \in Octets(1)
           /\ p.indicator \in 0..3 /\ p.authority \in 0..2 /\ p.rom \in BOOLEAN /\ p.esta \in Word
           /\ p.short_name \in TextBelow(18) /\ p.long_name \in TextBelow(64) /\ p.node_report \in TextBelow(64)
           /\ p.ports \in [1..4 -> NodePorts] /\ p.acn_priority \in Octets(1) /\ p.sw_macro_bitmap \in Octets(1)
           /\ p.sw_remote_bitmap \in Octets(1) /\ p.style \in Single(0..6) /\ p.mac_address \in Octets(6)
           /\ p.bind_ip \in Octets(4) /\ p.bind_index \in Octets(1) /\ p.status2 \in SUBSET DOMAIN Status2Bits
           /\ p.failsafe \in 0..3 /\ p.status3 \in SUBSET DOMAIN Status3Bits /\ p.default_resp_uid \in Octets(6)
           /\ \E count \in 0..4 :
                 \A i \in 1..4 : IF i <= count THEN p.ports[i].direction # {} ELSE p.ports[i] = Port
           /\ "llrp" \in p.status3 \/ p.default_resp_uid = <<0, 0, 0, 0, 0, 0>>
<1>1. DOMAIN p = DOMAIN ArtPollReply
  BY DEF PollReplies, ArtPollReply
<1> QED BY <1>1 DEF PollReplies

LEMMA ReplyAttributeNames ==
    DOMAIN ArtPollReply = Plain \cup {"ubea", "indicator", "authority", "rom", "rdm", "ubea_present", "ports",
                                      "status2", "failsafe", "status3", "direction", "default_resp_uid"}
BY DEF ArtPollReply, Plain

LEMMA ReplyBytes ==
    ASSUME NEW p \in PollReplies, NEW count \in 0..4,
           \A i \in 1..4 : IF i <= count THEN p.ports[i].direction # {} ELSE p.ports[i] = Port
    PROVE  LET e == ReplyRecord(p)
           IN  /\ \A n \in Plain : e[n] = p[n]
               /\ e["status1"] = <<Status1(p)>> /\ e["port_count"] = <<count>>
               /\ e["status2"] = FlagByte(Status2Bits, p.status2) /\ e["status3"] = <<Status3(p)>>
               /\ e["default_resp_uid"] = p.default_resp_uid /\ ByteSeq(e["ubea"])
               /\ e["port_types"] = [i \in 1..4 |-> PortTypes(p.ports[i])]
               /\ e["good_input"] = [i \in 1..4 |-> GoodInputOf(p.ports[i])]
               /\ e["good_output_a"] = [i \in 1..4 |-> GoodOutputAOf(p.ports[i])]
               /\ e["good_output_b"] = [i \in 1..4 |-> GoodOutputBOf(p.ports[i])]
               /\ e["sw_in"] = [i \in 1..4 |-> p.ports[i].sw_in]
               /\ e["sw_out"] = [i \in 1..4 |-> p.ports[i].sw_out]
<1> DEFINE e == ReplyRecord(p)
           p1 == [p EXCEPT !.ubea = IF p.ubea_present THEN @ ELSE <<0>>,
                           !.status2 = FlagByte(Status2Bits, @), !.status3 = <<Status3(p)>>,
                           !.default_resp_uid = IF "llrp" \in p.status3 THEN @ ELSE <<0, 0, 0, 0, 0, 0>>]
           more == [status1 |-> <<Status1(p)>>,
                    port_count |-> <<Cardinality({j \in 1..4 : p.ports[j].direction # {}})>>,
                    port_types |-> BytesOf(p.ports, PortTypes),
                    good_input |-> BytesOf(p.ports, LAMBDA r : FlagByte(GoodInputBits, r.good_input)[1]),
                    good_output_a |-> BytesOf(p.ports, LAMBDA r : FlagByte(GoodOutputABits, r.good_output_a)[1]),
                    sw_in |-> BytesOf(p.ports, LAMBDA r : r.sw_in), sw_out |-> BytesOf(p.ports, LAMBDA r : r.sw_out),
                    good_output_b |-> BytesOf(p.ports, LAMBDA r : FlagByte(GoodOutputBBits, r.good_output_b)[1])]
<1>1. e = With(p1, more)
  BY DEF ReplyRecord
<1>2. DOMAIN more = {"status1", "port_count", "port_types", "good_input", "good_output_a", "sw_in", "sw_out",
                     "good_output_b"}
  OBVIOUS
<1>3. /\ more["status1"] = <<Status1(p)>>
      /\ more["port_count"] = <<Cardinality({j \in 1..4 : p.ports[j].direction # {}})>>
      /\ more["port_types"] = [i \in 1..4 |-> PortTypes(p.ports[i])]
      /\ more["good_input"] = [i \in 1..4 |-> GoodInputOf(p.ports[i])]
      /\ more["good_output_a"] = [i \in 1..4 |-> GoodOutputAOf(p.ports[i])]
      /\ more["good_output_b"] = [i \in 1..4 |-> GoodOutputBOf(p.ports[i])]
      /\ more["sw_in"] = [i \in 1..4 |-> p.ports[i].sw_in]
      /\ more["sw_out"] = [i \in 1..4 |-> p.ports[i].sw_out]
  BY DEF BytesOf, GoodInputOf, GoodOutputAOf, GoodOutputBOf
<1> HIDE DEF e, more
<1>4. /\ DOMAIN p = DOMAIN ArtPollReply /\ p.ubea \in Octets(1)
      /\ "llrp" \in p.status3 \/ p.default_resp_uid = <<0, 0, 0, 0, 0, 0>>
  BY ReplyAttributes
<1>5. /\ Plain \subseteq DOMAIN p /\ {"ubea", "status2", "status3", "default_resp_uid"} \subseteq DOMAIN p
      /\ Plain \cap {"ubea", "status2", "status3", "default_resp_uid"} = {} /\ Plain \cap DOMAIN more = {}
  <2>1. Plain \cap {"ubea", "status2", "status3", "default_resp_uid"} = {} /\ Plain \cap DOMAIN more = {}
    BY <1>2 DEF Plain
  <2> QED BY <1>4, <2>1, ReplyAttributeNames
<1>6. /\ DOMAIN p1 = DOMAIN p
      /\ \A n \in DOMAIN p \ {"ubea", "status2", "status3", "default_resp_uid"} : p1[n] = p[n]
      /\ p1["ubea"] = (IF p.ubea_present THEN p.ubea ELSE <<0>>)
      /\ p1["status2"] = FlagByte(Status2Bits, p.status2) /\ p1["status3"] = <<Status3(p)>>
      /\ p1["default_resp_uid"] = (IF "llrp" \in p.status3 THEN p.default_resp_uid ELSE <<0, 0, 0, 0, 0, 0>>)
  BY <1>5
<1> HIDE DEF p1
<1>7. /\ \A n \in DOMAIN more : e[n] = more[n]
      /\ \A n \in DOMAIN p1 \ DOMAIN more : e[n] = p1[n]
  BY <1>1 DEF With
<1>8. \A n \in Plain : e[n] = p[n]
  BY <1>5, <1>6, <1>7
<1>9. /\ e["ubea"] = p1["ubea"] /\ e["status2"] = p1["status2"] /\ e["status3"] = p1["status3"]
      /\ e["default_resp_uid"] = p1["default_resp_uid"]
  BY <1>2, <1>5, <1>6, <1>7
<1>10. ByteSeq(e["ubea"])
  <2>1. 0 \in 0..255 /\ 1 \in Nat
    OBVIOUS
  <2>2. ByteSeq(<<0>>) /\ ByteSeq(p.ubea)
    BY <1>4, <2>1, OctetsFit, Zenon
  <2> QED BY <1>6, <1>9, <2>2
<1>11. more["port_count"] = <<count>>
  <2>1. \A i \in 1..4 : p.ports[i].direction # {} <=> i <= count
    BY EmptyPortIs
  <2>2. {i \in 1..4 : p.ports[i].direction # {}} = 1..count
    BY <2>1
  <2>3. count \in Nat
    OBVIOUS
  <2> QED BY <1>3, <2>2, <2>3, CountedTo
<1>12. /\ e["status1"] = more["status1"] /\ e["port_count"] = more["port_count"]
       /\ e["port_types"] = more["port_types"] /\ e["good_input"] = more["good_input"]
       /\ e["good_output_a"] = more["good_output_a"] /\ e["good_output_b"] = more["good_output_b"]
       /\ e["sw_in"] = more["sw_in"] /\ e["sw_out"] = more["sw_out"]
  BY <1>2, <1>7
<1>13. e["default_resp_uid"] = p.default_resp_uid
  BY <1>4, <1>6, <1>9
<1>14. e["status2"] = FlagByte(Status2Bits, p.status2) /\ e["status3"] = <<Status3(p)>>
  BY <1>6, <1>9
<1> QED BY <1>3, <1>8, <1>10, <1>11, <1>12, <1>13, <1>14 DEF e

(* Every byte of a reply fits. *)
LEMMA ReplyFitsWhole ==
    ASSUME NEW p \in PollReplies PROVE AllFit(ReplyWritten, ReplyRecord(p))
<1> DEFINE e == ReplyRecord(p)
           L == ReplyWritten
<1>1. PICK count \in 0..4 : \A i \in 1..4 : IF i <= count THEN p.ports[i].direction # {} ELSE p.ports[i] = Port
  BY ReplyAttributes
<1>2. /\ \A n \in Plain : e[n] = p[n]
      /\ e["status1"] = <<Status1(p)>> /\ e["status2"] = FlagByte(Status2Bits, p.status2)
      /\ e["status3"] = <<Status3(p)>> /\ e["default_resp_uid"] = p.default_resp_uid /\ ByteSeq(e["ubea"])
      /\ e["port_types"] = [i \in 1..4 |-> PortTypes(p.ports[i])]
      /\ e["good_input"] = [i \in 1..4 |-> GoodInputOf(p.ports[i])]
      /\ e["good_output_a"] = [i \in 1..4 |-> GoodOutputAOf(p.ports[i])]
      /\ e["good_output_b"] = [i \in 1..4 |-> GoodOutputBOf(p.ports[i])]
      /\ e["sw_in"] = [i \in 1..4 |-> p.ports[i].sw_in]
      /\ e["sw_out"] = [i \in 1..4 |-> p.ports[i].sw_out]
  BY <1>1, ReplyBytes, Zenon
<1> HIDE DEF e
<1>3. /\ e["source_ip"] = p.source_ip /\ e["net_switch"] = p.net_switch /\ e["sub_switch"] = p.sub_switch
      /\ e["acn_priority"] = p.acn_priority /\ e["sw_macro_bitmap"] = p.sw_macro_bitmap
      /\ e["sw_remote_bitmap"] = p.sw_remote_bitmap /\ e["style"] = p.style /\ e["mac_address"] = p.mac_address
      /\ e["bind_ip"] = p.bind_ip /\ e["bind_index"] = p.bind_index
  BY <1>2 DEF Plain
<1>4. /\ p.source_ip \in Octets(4) /\ p.net_switch \in Octets(1) /\ p.sub_switch \in Octets(1)
      /\ p.acn_priority \in Octets(1) /\ p.sw_macro_bitmap \in Octets(1) /\ p.sw_remote_bitmap \in Octets(1)
      /\ p.style \in Single(0..6) /\ p.mac_address \in Octets(6) /\ p.bind_ip \in Octets(4)
      /\ p.bind_index \in Octets(1) /\ p.default_resp_uid \in Octets(6) /\ p.ports \in [1..4 -> NodePorts]
      /\ p.status2 \in SUBSET DOMAIN Status2Bits /\ p.status3 \in SUBSET DOMAIN Status3Bits
      /\ p.failsafe \in 0..3 /\ p.indicator \in 0..3 /\ p.authority \in 0..2 /\ p.rom \in BOOLEAN
  BY ReplyAttributes
<1>5. /\ ByteSeq(e["source_ip"]) /\ ByteSeq(e["net_switch"]) /\ ByteSeq(e["sub_switch"])
      /\ ByteSeq(e["acn_priority"]) /\ ByteSeq(e["sw_macro_bitmap"]) /\ ByteSeq(e["sw_remote_bitmap"])
      /\ ByteSeq(e["style"]) /\ ByteSeq(e["mac_address"]) /\ ByteSeq(e["bind_ip"]) /\ ByteSeq(e["bind_index"])
      /\ ByteSeq(e["default_resp_uid"])
  <2>1. 1 \in Nat /\ 4 \in Nat /\ 6 \in Nat /\ 6 \in 0..255
    OBVIOUS
  <2>2. \A v : v \in Octets(1) \/ v \in Octets(4) \/ v \in Octets(6) \/ v \in Single(0..6) => ByteSeq(v)
    BY <2>1, OctetsFit, Zenon
  <2> QED BY <1>2, <1>3, <1>4, <2>2, Zenon
<1>6. ByteSeq(e["status1"]) /\ ByteSeq(e["status2"]) /\ ByteSeq(e["status3"])
  <2>1. Status1(p) \in 0..255 /\ Status3(p) \in 0..255
    BY <1>4, Status1Back, Status3Back, Zenon
  <2>2. PICK b \in 0..255 : FlagByte(Status2Bits, p.status2) = <<b>>
    BY ByteOfFlags
  <2>3. ByteSeq(<<Status1(p)>>) /\ ByteSeq(<<Status3(p)>>) /\ ByteSeq(FlagByte(Status2Bits, p.status2))
    BY <2>1, <2>2, OctetsFit
  <2> QED BY <1>2, <2>3
<1>7. /\ ByteSeq(e["port_types"]) /\ ByteSeq(e["good_input"]) /\ ByteSeq(e["good_output_a"])
      /\ ByteSeq(e["good_output_b"]) /\ ByteSeq(e["sw_in"]) /\ ByteSeq(e["sw_out"])
  <2> DEFINE a(i) == PortTypes(p.ports[i])
             b(i) == GoodInputOf(p.ports[i])
             c(i) == GoodOutputAOf(p.ports[i])
             d(i) == GoodOutputBOf(p.ports[i])
             in(i) == p.ports[i].sw_in
             out(i) == p.ports[i].sw_out
  <2>1. p.ports \in [1..4 -> NodePorts]
    BY <1>4
  <2>5. ASSUME NEW i \in 1..4
        PROVE  /\ a(i) \in 0..255 /\ b(i) \in 0..255 /\ c(i) \in 0..255 /\ d(i) \in 0..255
               /\ in(i) \in 0..255 /\ out(i) \in 0..255
    <3> DEFINE q == p.ports[i]
    <3>1. q \in NodePorts
      BY <2>1
    <3> HIDE DEF q
    <3>2. /\ PortTypes(q) \in 0..255 /\ GoodInputOf(q) \in 0..255
          /\ GoodOutputAOf(q) \in 0..255 /\ GoodOutputBOf(q) \in 0..255
          /\ q.sw_in \in 0..255 /\ q.sw_out \in 0..255
      BY <3>1, PortBack
    <3> QED BY <3>2 DEF q
  <2>6. /\ e["port_types"] = [i \in 1..4 |-> a(i)] /\ e["good_input"] = [i \in 1..4 |-> b(i)]
        /\ e["good_output_a"] = [i \in 1..4 |-> c(i)] /\ e["good_output_b"] = [i \in 1..4 |-> d(i)]
        /\ e["sw_in"] = [i \in 1..4 |-> in(i)] /\ e["sw_out"] = [i \in 1..4 |-> out(i)]
    BY <1>2
  <2> HIDE DEF a, b, c, d, in, out
  <2>2. ByteSeq(e["port_types"]) /\ ByteSeq(e["good_input"])
    BY <2>5, <2>6 DEF ByteSeq
  <2>3. ByteSeq(e["good_output_a"]) /\ ByteSeq(e["good_output_b"])
    BY <2>5, <2>6 DEF ByteSeq
  <2>4. ByteSeq(e["sw_in"]) /\ ByteSeq(e["sw_out"])
    BY <2>5, <2>6 DEF ByteSeq
  <2> QED BY <2>2, <2>3, <2>4
<1> HIDE DEF L
<1>8. \A f, v : f.form \notin {"byte", "raw"} \/ ByteSeq(v) => Fits(f, v)
  BY FitsIf
<1>9. /\ Fits(L[1], e[L[1].name]) /\ Fits(L[2], e[L[2].name]) /\ Fits(L[3], e[L[3].name]) /\ Fits(L[4], e[L[4].name])
      /\ Fits(L[5], e[L[5].name]) /\ Fits(L[6], e[L[6].name]) /\ Fits(L[7], e[L[7].name]) /\ Fits(L[8], e[L[8].name])
      /\ Fits(L[9], e[L[9].name]) /\ Fits(L[10], e[L[10].name]) /\ Fits(L[11], e[L[11].name])
      /\ Fits(L[12], e[L[12].name]) /\ Fits(L[13], e[L[13].name])
  BY <1>2, <1>5, <1>6, <1>8, ReplyNames, ReplyForms DEF L
<1>10. /\ Fits(L[14], e[L[14].name]) /\ Fits(L[15], e[L[15].name]) /\ Fits(L[16], e[L[16].name])
      /\ Fits(L[17], e[L[17].name]) /\ Fits(L[18], e[L[18].name]) /\ Fits(L[19], e[L[19].name])
      /\ Fits(L[20], e[L[20].name]) /\ Fits(L[21], e[L[21].name]) /\ L[22].form = "gap" /\ L[31].form = "gap"
  BY <1>5, <1>7, <1>8, ReplyNames, ReplyForms DEF L
<1>11. /\ Fits(L[23], e[L[23].name]) /\ Fits(L[24], e[L[24].name]) /\ Fits(L[25], e[L[25].name])
      /\ Fits(L[26], e[L[26].name]) /\ Fits(L[27], e[L[27].name]) /\ Fits(L[28], e[L[28].name])
      /\ Fits(L[29], e[L[29].name]) /\ Fits(L[30], e[L[30].name])
  BY <1>5, <1>6, <1>7, <1>8, ReplyNames, ReplyForms DEF L
<1>12. \A k \in 1..31 : L[k].form = "gap" \/ Fits(L[k], e[L[k].name])
  BY <1>9, <1>10, <1>11
<1>13. DOMAIN L = 1..31
  BY ReplyFields DEF L
<1> QED BY <1>12, <1>13 DEF AllFit, L, e

(* Where the fields of a reply end. *)
LEMMA ReplyOffsets ==
    ASSUME NEW off, Offsets(off, ReplyWritten)
    PROVE  /\ off[21] = 197 /\ off[23] = 201 /\ off[24] = 207 /\ off[25] = 211 /\ off[26] = 212
           /\ off[27] = 213 /\ off[28] = 217 /\ off[29] = 218 /\ off[30] = 224 /\ off[31] = 239
<1> DEFINE w(j) == ReplyWritten[j].width
<1>1. off[0] = 10 /\ \A j \in 1..31 : off[j] = off[j - 1] + w(j)
  BY ReplyFields DEF Offsets, Header
<1>2. /\ w(1) = 4 /\ w(2) = 2 /\ w(3) = 2 /\ w(4) = 1 /\ w(5) = 1 /\ w(6) = 2 /\ w(7) = 1 /\ w(8) = 1 /\ w(9) = 2
      /\ w(10) = 18 /\ w(11) = 64 /\ w(12) = 64 /\ w(13) = 2 /\ w(14) = 4 /\ w(15) = 4 /\ w(16) = 4 /\ w(17) = 4
      /\ w(18) = 4 /\ w(19) = 1 /\ w(20) = 1 /\ w(21) = 1 /\ w(22) = 3 /\ w(23) = 1 /\ w(24) = 6 /\ w(25) = 4
      /\ w(26) = 1 /\ w(27) = 1 /\ w(28) = 4 /\ w(29) = 1 /\ w(30) = 6 /\ w(31) = 15
  BY ReplyWidths
<1> HIDE DEF w
<1>3. /\ off[1] = 14 /\ off[2] = 16 /\ off[3] = 18 /\ off[4] = 19 /\ off[5] = 20 /\ off[6] = 22 /\ off[7] = 23
      /\ off[8] = 24 /\ off[9] = 26 /\ off[10] = 44
  BY <1>1, <1>2
<1>4. /\ off[11] = 108 /\ off[12] = 172 /\ off[13] = 174 /\ off[14] = 178 /\ off[15] = 182
      /\ off[16] = 186 /\ off[17] = 190 /\ off[18] = 194 /\ off[19] = 195 /\ off[20] = 196 /\ off[21] = 197
  BY <1>1, <1>2, <1>3
<1>5. /\ off[22] = 200 /\ off[23] = 201 /\ off[24] = 207 /\ off[25] = 211 /\ off[26] = 212
      /\ off[27] = 213 /\ off[28] = 217 /\ off[29] = 218 /\ off[30] = 224 /\ off[31] = 239
  BY <1>1, <1>2, <1>4
<1> QED BY <1>4, <1>5

(* What is read of a reply that ends with its m-th field. *)
GotUpTo(got, p, m) ==
    \A j \in 1..30 : ReplyWritten[j].form # "gap" =>
        IF j <= m THEN /\ ReplyWritten[j].name \in DOMAIN got
                       /\ got[ReplyWritten[j].name] = Taken(ReplyWritten[j], ReplyRecord(p)[ReplyWritten[j].name])
        ELSE ReplyWritten[j].name \notin DOMAIN got

NoOther(got) == \A x \in DOMAIN got : \E j \in 1..30 : ReplyWritten[j].form # "gap" /\ ReplyWritten[j].name = x

LEMMA ReplyGot ==
    ASSUME NEW p, NEW off, NEW w, WrittenAlong(w, ReplyWritten, ReplyRecord(p), off),
           NEW m \in 0..31, NEW u, u.fields = w.fields, u.size = off[m]
    PROVE  GotUpTo(Read(ReplyLayout, u), p, m) /\ NoOther(Read(ReplyLayout, u))
<1> DEFINE L == ReplyWritten
           R == ReplyLayout
           e == ReplyRecord(p)
           got == Read(R, u)
<1> HIDE DEF L, R, e
<1>1. Layout(L) /\ Beginning(R, L) /\ Distinct(R) /\ Len(L) = 31 /\ Len(R) = 30 /\ \A j \in 1..30 : R[j] = L[j]
  BY ReplyLayouts, ReplyFields, ReplyPrefix DEF L, R
<1>2. ReadUpTo(got, R, e, m)
  BY <1>1, CutFields, ZenonT(60) DEF L, R, e
<1> HIDE DEF got
<1>3. ASSUME NEW j \in 1..30, L[j].form # "gap"
      PROVE  IF j <= m THEN L[j].name \in DOMAIN got /\ got[L[j].name] = Taken(L[j], e[L[j].name])
             ELSE L[j].name \notin DOMAIN got
  <2>1. R[j] = L[j] /\ Gapless(R, j) /\ j \in 1..Len(R)
    BY <1>1, <1>3 DEF Gapless
  <2>2. CASE j <= m
    BY <1>2, <2>1, <2>2 DEF ReadUpTo
  <2>3. CASE ~(j <= m)
    <3>1. SUFFICES ASSUME L[j].name \in DOMAIN got PROVE FALSE
      BY <2>3
    <3>2. PICK i \in 1..Len(R) : i <= m /\ Gapless(R, i) /\ R[i].name = L[j].name
      BY <1>2, <3>1 DEF ReadUpTo
    <3>3. i = j
      BY <1>1, <2>1, <3>2 DEF Distinct
    <3> QED BY <2>3, <3>2, <3>3
  <2> QED BY <2>2, <2>3
<1>4. ASSUME NEW x \in DOMAIN got PROVE \E j \in 1..30 : L[j].form # "gap" /\ L[j].name = x
  <2>1. PICK j \in 1..Len(R) : Gapless(R, j) /\ R[j].name = x
    BY <1>2 DEF ReadUpTo
  <2> QED BY <1>1, <2>1 DEF Gapless
<1> QED BY <1>3, <1>4 DEF GotUpTo, NoOther, L, R, e, got

(* The attributes every reply has, and the place of those that came later. *)
Early == {"source_ip", "port", "firmware_version", "net_switch", "sub_switch", "oem", "esta", "short_name",
          "long_name", "node_report", "acn_priority", "sw_macro_bitmap", "sw_remote_bitmap"}
Late == {"style", "mac_address", "bind_ip", "bind_index", "default_resp_uid"}
PlaceOf == [style |-> 23, mac_address |-> 24, bind_ip |-> 25, bind_index |-> 26, status2 |-> 27,
            failsafe |-> 29, status3 |-> 29, default_resp_uid |-> 30]

GotEarly(got, p) ==
    /\ \A n \in Early : n \in DOMAIN got /\ SameText("pollReply", n, p[n], got[n])
    /\ "status1" \in DOMAIN got /\ got["status1"] = <<Status1(p)>>
    /\ got["port_types"] = [i \in 1..4 |-> PortTypes(p.ports[i])]
    /\ got["good_input"] = [i \in 1..4 |-> GoodInputOf(p.ports[i])]
    /\ got["good_output_a"] = [i \in 1..4 |-> GoodOutputAOf(p.ports[i])]
    /\ got["sw_in"] = [i \in 1..4 |-> p.ports[i].sw_in]
    /\ got["sw_out"] = [i \in 1..4 |-> p.ports[i].sw_out]

GotLate(got, p, m) ==
    /\ \A n \in Late : IF PlaceOf[n] <= m THEN n \in DOMAIN got /\ got[n] = p[n] ELSE n \notin DOMAIN got
    /\ IF 27 <= m THEN "status2" \in DOMAIN got /\ got["status2"] = FlagByte(Status2Bits, p.status2)
       ELSE "status2" \notin DOMAIN got
    /\ IF 28 <= m THEN "good_output_b" \in DOMAIN got
                       /\ got["good_output_b"] = [i \in 1..4 |-> GoodOutputBOf(p.ports[i])]
       ELSE "good_output_b" \notin DOMAIN got
    /\ IF 29 <= m THEN "status3" \in DOMAIN got /\ got["status3"] = <<Status3(p)>>
       ELSE "status3" \notin DOMAIN got
    /\ "failsafe" \notin DOMAIN got

LEMMA GotValues ==
    ASSUME NEW p \in PollReplies, NEW got, NEW m \in 21..31, GotUpTo(got, p, m), NoOther(got),
           NEW count \in 0..4, \A i \in 1..4 : IF i <= count THEN p.ports[i].direction # {} ELSE p.ports[i] = Port
    PROVE  GotEarly(got, p) /\ GotLate(got, p, m) /\ "port_count" \in DOMAIN got /\ got["port_count"] = <<count>>
<1> DEFINE e == ReplyRecord(p)
           L == ReplyWritten
           Has(j) == L[j].name \in DOMAIN got /\ got[L[j].name] = Taken(L[j], e[L[j].name])
<1>1. /\ \A n \in Plain : e[n] = p[n]
      /\ e["status1"] = <<Status1(p)>> /\ e["port_count"] = <<count>>
      /\ e["status2"] = FlagByte(Status2Bits, p.status2) /\ e["status3"] = <<Status3(p)>>
      /\ e["default_resp_uid"] = p.default_resp_uid
      /\ e["port_types"] = [i \in 1..4 |-> PortTypes(p.ports[i])]
      /\ e["good_input"] = [i \in 1..4 |-> GoodInputOf(p.ports[i])]
      /\ e["good_output_a"] = [i \in 1..4 |-> GoodOutputAOf(p.ports[i])]
      /\ e["good_output_b"] = [i \in 1..4 |-> GoodOutputBOf(p.ports[i])]
      /\ e["sw_in"] = [i \in 1..4 |-> p.ports[i].sw_in]
      /\ e["sw_out"] = [i \in 1..4 |-> p.ports[i].sw_out]
  BY ReplyBytes, Zenon
<1>2. \A j \in 1..30 : L[j].form # "gap" => IF j <= m THEN Has(j) ELSE L[j].name \notin DOMAIN got
  BY DEF GotUpTo
<1> HIDE DEF e, L, Has
<1>3. /\ Has(1) /\ Has(2) /\ Has(3) /\ Has(4) /\ Has(5) /\ Has(6) /\ Has(8) /\ Has(9) /\ Has(10) /\ Has(11)
      /\ Has(12) /\ Has(13) /\ Has(14) /\ Has(15) /\ Has(16) /\ Has(17) /\ Has(18) /\ Has(19) /\ Has(20) /\ Has(21)
  <2>1. \A j \in 1..21 : j \in 1..30 /\ j <= m
    OBVIOUS
  <2>2. \A j \in 1..21 : L[j].form # "gap" => Has(j)
    BY <1>2, <2>1
  <2> QED BY <2>2, ReplyForms DEF L
<1>4. /\ \A j \in {1, 4, 5, 8, 14, 15, 16, 17, 18, 19, 20, 21, 23, 24, 25, 26, 27, 28, 29, 30} :
            \A v : Taken(L[j], v) = v
      /\ \A j \in {2, 3, 6, 9, 13} : \A v \in Word : Taken(L[j], v) = v
      /\ \A v \in TextBelow(18) : Taken(L[10], v) = IF v = <<0>> THEN Nuls ELSE v
      /\ \A v \in TextBelow(64) : /\ Taken(L[11], v) = IF v = <<0>> THEN Nuls ELSE v
                                  /\ Taken(L[12], v) = IF v = <<0>> THEN Nuls ELSE v
  <2>1. \A j \in {1, 4, 5, 8, 14, 15, 16, 17, 18, 19, 20, 21, 23, 24, 25, 26, 27, 28, 29, 30} :
            L[j].form \in {"byte", "raw"}
    BY ReplyForms DEF L
  <2>2. \A j \in {2, 3, 6, 9, 13} : L[j].form \in {"lsb", "msb"}
    BY ReplyForms DEF L
  <2>3. L[10].form = "text" /\ L[11].form = "text" /\ L[12].form = "text"
    BY ReplyForms DEF L
  <2>4. L[10].width = 18 /\ L[11].width = 64 /\ L[12].width = 64 /\ 18 \in Nat /\ 64 \in Nat
    BY ReplyWidths DEF L
  <2>5. \A j \in {1, 4, 5, 8, 14, 15, 16, 17, 18, 19, 20, 21, 23, 24, 25, 26, 27, 28, 29, 30} :
            \A v : Taken(L[j], v) = v
    BY <2>1, TakenWhole, Zenon
  <2>6. \A j \in {2, 3, 6, 9, 13} : \A v \in Word : Taken(L[j], v) = v
    BY <2>2, TakenWhole, Zenon
  <2>7. /\ \A v \in TextBelow(L[10].width) : Taken(L[10], v) = IF v = <<0>> THEN Nuls ELSE v
        /\ \A v \in TextBelow(L[11].width) : Taken(L[11], v) = IF v = <<0>> THEN Nuls ELSE v
        /\ \A v \in TextBelow(L[12].width) : Taken(L[12], v) = IF v = <<0>> THEN Nuls ELSE v
    BY <2>3, <2>4, TakenWhole, Zenon
  <2> QED BY <2>4, <2>5, <2>6, <2>7, Zenon
<1>5. /\ p.port \in Word /\ p.firmware_version \in Word /\ p.oem \in Word /\ p.esta \in Word
      /\ p.short_name \in TextBelow(18) /\ p.long_name \in TextBelow(64) /\ p.node_report \in TextBelow(64)
      /\ <<count>> \in Word
  <2>1. <<6454>> \in Word
    <3>1. <<6454>> \in Single(Nat) /\ <<6454>>[1] = 6454 /\ 6454 < 65536
      BY DEF Single
    <3> QED BY <3>1 DEF Word
  <2>2. <<count>> \in Word
    <3>1. <<count>> \in Single(Nat) /\ <<count>>[1] = count /\ count < 65536
      BY DEF Single
    <3> QED BY <3>1 DEF Word
  <2> QED BY <2>1, <2>2, ReplyAttributes
<1>6. /\ L[1].name = "source_ip" /\ L[2].name = "port" /\ L[3].name = "firmware_version" /\ L[4].name = "net_switch"
      /\ L[5].name = "sub_switch" /\ L[6].name = "oem" /\ L[8].name = "status1" /\ L[9].name = "esta"
      /\ L[10].name = "short_name" /\ L[11].name = "long_name" /\ L[12].name = "node_report"
      /\ L[13].name = "port_count" /\ L[14].name = "port_types" /\ L[15].name = "good_input"
      /\ L[16].name = "good_output_a" /\ L[17].name = "sw_in" /\ L[18].name = "sw_out" /\ L[19].name = "acn_priority"
      /\ L[20].name = "sw_macro_bitmap" /\ L[21].name = "sw_remote_bitmap"
  BY ReplyNames DEF L
<1>7. /\ e["source_ip"] = p.source_ip /\ e["port"] = p.port /\ e["firmware_version"] = p.firmware_version
      /\ e["net_switch"] = p.net_switch /\ e["sub_switch"] = p.sub_switch /\ e["oem"] = p.oem /\ e["esta"] = p.esta
      /\ e["short_name"] = p.short_name /\ e["long_name"] = p.long_name /\ e["node_report"] = p.node_report
      /\ e["acn_priority"] = p.acn_priority /\ e["sw_macro_bitmap"] = p.sw_macro_bitmap
      /\ e["sw_remote_bitmap"] = p.sw_remote_bitmap /\ e["style"] = p.style /\ e["mac_address"] = p.mac_address
      /\ e["bind_ip"] = p.bind_ip /\ e["bind_index"] = p.bind_index
  BY <1>1 DEF Plain
<1>8. /\ Early \subseteq DOMAIN got /\ {"status1", "port_count"} \subseteq DOMAIN got
      /\ got["source_ip"] = p.source_ip /\ got["port"] = p.port /\ got["firmware_version"] = p.firmware_version
      /\ got["net_switch"] = p.net_switch /\ got["sub_switch"] = p.sub_switch /\ got["oem"] = p.oem
      /\ got["esta"] = p.esta /\ got["acn_priority"] = p.acn_priority
      /\ got["sw_macro_bitmap"] = p.sw_macro_bitmap /\ got["sw_remote_bitmap"] = p.sw_remote_bitmap
      /\ got["short_name"] = (IF p.short_name = <<0>> THEN Nuls ELSE p.short_name)
      /\ got["long_name"] = (IF p.long_name = <<0>> THEN Nuls ELSE p.long_name)
      /\ got["node_report"] = (IF p.node_report = <<0>> THEN Nuls ELSE p.node_report)
  <2>1. /\ got["source_ip"] = p.source_ip /\ got["port"] = p.port /\ got["firmware_version"] = p.firmware_version
        /\ got["net_switch"] = p.net_switch /\ got["sub_switch"] = p.sub_switch /\ got["oem"] = p.oem
        /\ got["esta"] = p.esta /\ got["acn_priority"] = p.acn_priority
        /\ got["sw_macro_bitmap"] = p.sw_macro_bitmap /\ got["sw_remote_bitmap"] = p.sw_remote_bitmap
    BY <1>3, <1>4, <1>5, <1>6, <1>7 DEF Has
  <2>2. /\ got["short_name"] = (IF p.short_name = <<0>> THEN Nuls ELSE p.short_name)
        /\ got["long_name"] = (IF p.long_name = <<0>> THEN Nuls ELSE p.long_name)
        /\ got["node_report"] = (IF p.node_report = <<0>> THEN Nuls ELSE p.node_report)
    BY <1>3, <1>4, <1>5, <1>6, <1>7 DEF Has
  <2>3. Early \subseteq DOMAIN got /\ {"status1", "port_count"} \subseteq DOMAIN got
    BY <1>3, <1>6 DEF Has, Early
  <2> QED BY <2>1, <2>2, <2>3
<1>9. \A n \in Early : SameText("pollReply", n, p[n], got[n])
  <2>1. \A n \in Early \ {"short_name", "long_name", "node_report"} : got[n] = p[n] /\ n \notin TextsOf("pollReply")
    BY <1>8 DEF Early, TextsOf
  <2>2. \A n \in {"short_name", "long_name", "node_report"} :
           got[n] = (IF p[n] = <<0>> THEN Nuls ELSE p[n]) /\ n \in TextsOf("pollReply")
    BY <1>8 DEF TextsOf
  <2> QED BY <2>1, <2>2 DEF SameText
<1>10. /\ got["status1"] = e["status1"] /\ got["port_count"] = <<count>> /\ got["port_types"] = e["port_types"]
       /\ got["good_input"] = e["good_input"] /\ got["good_output_a"] = e["good_output_a"]
       /\ got["sw_in"] = e["sw_in"] /\ got["sw_out"] = e["sw_out"]
  BY <1>1, <1>3, <1>4, <1>5, <1>6 DEF Has
<1>11. GotEarly(got, p)
  BY <1>1, <1>8, <1>9, <1>10 DEF GotEarly
<1>12. /\ L[23].name = "style" /\ L[24].name = "mac_address" /\ L[25].name = "bind_ip" /\ L[26].name = "bind_index"
       /\ L[27].name = "status2" /\ L[28].name = "good_output_b" /\ L[29].name = "status3"
       /\ L[30].name = "default_resp_uid"
  BY ReplyNames DEF L
<1>13. \A j \in {23, 24, 25, 26, 27, 28, 29, 30} :
          IF j <= m THEN L[j].name \in DOMAIN got /\ got[L[j].name] = e[L[j].name] ELSE L[j].name \notin DOMAIN got
  <2>1. \A j \in {23, 24, 25, 26, 27, 28, 29, 30} : L[j].form # "gap" /\ j \in 1..30
    BY ReplyForms DEF L
  <2> QED BY <1>2, <1>4, <2>1 DEF Has
<1>14. \A n \in Late : IF PlaceOf[n] <= m THEN n \in DOMAIN got /\ got[n] = p[n] ELSE n \notin DOMAIN got
  <2>1. /\ PlaceOf["style"] = 23 /\ PlaceOf["mac_address"] = 24 /\ PlaceOf["bind_ip"] = 25
        /\ PlaceOf["bind_index"] = 26 /\ PlaceOf["default_resp_uid"] = 30
    BY DEF PlaceOf
  <2>2. \A n \in Late : e[n] = p[n]
    BY <1>1, <1>7 DEF Late
  <2>3. \A n \in Late : PlaceOf[n] \in {23, 24, 25, 26, 27, 28, 29, 30} /\ L[PlaceOf[n]].name = n
    BY <1>12, <2>1 DEF Late
  <2> QED BY <1>13, <2>2, <2>3
<1>15. "failsafe" \notin DOMAIN got
  <2>1. \A j \in 1..21 : j \in 1..30
    OBVIOUS
  <2>2. \A j \in 1..30 : L[j].form # "gap" => L[j].name # "failsafe"
    BY ReplyNames DEF L
  <2> QED BY <2>2 DEF NoOther, L
<1>16. GotLate(got, p, m)
  BY <1>1, <1>12, <1>13, <1>14, <1>15 DEF GotLate
<1> QED BY <1>8, <1>10, <1>11, <1>16

(* A port that is read of a reply up to its m-th field, against the one that was written. *)
PortShown(r, q, m) ==
    /\ WithoutB(r) = WithoutB(q)
    /\ 28 <= m => r = q

(* A reply that is read up to its UID is one of a device with LLRP. *)
Shown(p, n, m) == IF n = "status3" /\ 30 <= m THEN p[n] \cup {"llrp"} ELSE p[n]

ReplyShown(r, p, m) ==
    /\ \A n \in Early \cup {"rom"} : SameText("pollReply", n, p[n], r[n])
    /\ \A i \in 1..4 : PortShown(r.ports[i], p.ports[i], m)
    /\ 28 <= m => r.ports = p.ports
    /\ \A n \in DOMAIN PlaceOf : r[n] = IF PlaceOf[n] <= m THEN Shown(p, n, m) ELSE ArtPollReply[n]

(* The ports that are read are those that were written. *)
LEMMA PortsShown ==
    ASSUME NEW p \in PollReplies, NEW got, NEW m \in 21..31, GotEarly(got, p), GotLate(got, p, m), NEW i \in 1..4
    PROVE  PortShown(PortFrom(got, i), p.ports[i], m)
<1> DEFINE q == p.ports[i]
           r == PortFrom(got, i)
           outputs == IF "good_output_b" \in DOMAIN got THEN <<got.good_output_b[i]>> ELSE <<0>>
<1>1. q \in NodePorts
  <2>1. p.ports \in [1..4 -> NodePorts]
    BY ReplyAttributes
  <2> QED BY <2>1
<1>2. /\ got.port_types[i] = PortTypes(q) /\ got.good_input[i] = GoodInputOf(q)
      /\ got.good_output_a[i] = GoodOutputAOf(q) /\ got.sw_in[i] = q.sw_in /\ got.sw_out[i] = q.sw_out
  BY DEF GotEarly
<1>3. 28 <= m => outputs = <<GoodOutputBOf(q)>>
  BY DEF GotLate
<1>4. r = [direction |-> Flags(TypeBits, <<got.port_types[i]>>), type |-> got.port_types[i] % 64,
           good_input |-> Flags(GoodInputBits, <<got.good_input[i]>>),
           good_output_a |-> Flags(GoodOutputABits, <<got.good_output_a[i]>>),
           sw_in |-> got.sw_in[i], sw_out |-> got.sw_out[i],
           good_output_b |-> Flags(GoodOutputBBits, outputs)]
  BY DEF PortFrom
<1> HIDE DEF q, r, outputs
<1>5. /\ Flags(TypeBits, <<PortTypes(q)>>) = q.direction /\ PortTypes(q) % 64 = q.type
      /\ Flags(GoodInputBits, <<GoodInputOf(q)>>) = q.good_input
      /\ Flags(GoodOutputABits, <<GoodOutputAOf(q)>>) = q.good_output_a
      /\ Flags(GoodOutputBBits, <<GoodOutputBOf(q)>>) = q.good_output_b
  BY <1>1, PortBack
<1>6. r = [direction |-> q.direction, type |-> q.type, good_input |-> q.good_input,
           good_output_a |-> q.good_output_a, sw_in |-> q.sw_in, sw_out |-> q.sw_out,
           good_output_b |-> Flags(GoodOutputBBits, outputs)]
  BY <1>2, <1>4, <1>5
<1>7. q = [direction |-> q.direction, type |-> q.type, good_input |-> q.good_input,
           good_output_a |-> q.good_output_a, sw_in |-> q.sw_in, sw_out |-> q.sw_out,
           good_output_b |-> q.good_output_b]
  BY <1>1 DEF NodePorts
<1>8. 28 <= m => r = q
  BY <1>3, <1>5, <1>6, <1>7
<1>9. WithoutB(r) = WithoutB(q)
  <2> DEFINE s == [direction |-> q.direction, type |-> q.type, good_input |-> q.good_input,
                   good_output_a |-> q.good_output_a, sw_in |-> q.sw_in, sw_out |-> q.sw_out,
                   good_output_b |-> {}]
  <2>1. WithoutB(r) = s
    BY <1>6 DEF WithoutB
  <2>2. WithoutB(q) = s
    BY <1>7 DEF WithoutB
  <2> QED BY <2>1, <2>2
<1> QED BY <1>8, <1>9 DEF PortShown, q, r

LEMMA ReplyIsShown ==
    ASSUME NEW p \in PollReplies, NEW off, NEW w, WrittenAlong(w, ReplyWritten, ReplyRecord(p), off),
           NEW m \in 21..31, NEW u, u.fields = w.fields, u.size = off[m]
    PROVE  ReplyShown(ReadReply(u), p, m)
<1> DEFINE got == Read(ReplyLayout, u)
           a == With(ArtPollReply, got)
           r == ReadReply(u)
<1>1. PICK count \in 0..4 : \A i \in 1..4 : IF i <= count THEN p.ports[i].direction # {} ELSE p.ports[i] = Port
  BY ReplyAttributes
<1>2. GotUpTo(got, p, m) /\ NoOther(got)
  <2>1. m \in 0..31
    OBVIOUS
  <2> QED BY <2>1, ReplyGot
<1> HIDE DEF got
<1>3. GotEarly(got, p) /\ GotLate(got, p, m) /\ "port_count" \in DOMAIN got /\ got["port_count"] = <<count>>
  BY <1>1, <1>2, GotValues
<1>4. r = [n \in DOMAIN ArtPollReply |->
              CASE n = "indicator" -> 2 * Number1(Bit(a.status1[1], 7))
                [] n = "authority" -> 2 * Number1(Bit(a.status1[1], 5))
                [] n = "rom" -> Bit(a.status1[1], 2)
                [] n = "rdm" -> Bit(a.status1[1], 1)
                [] n = "ubea_present" -> Bit(a.status1[1], 0)
                [] n = "ports" -> [i \in 1..4 |-> IF i <= a.port_count[1] THEN PortFrom(got, i) ELSE Port]
                [] n = "status2" -> IF n \in DOMAIN got THEN Flags(Status2Bits, a.status2) ELSE a.status2
                [] n = "status3" -> (IF n \in DOMAIN got THEN Flags(Status3Bits, a.status3) ELSE a.status3)
                                      \cup (IF "default_resp_uid" \in DOMAIN got THEN {"llrp"} ELSE {})
                [] n = "failsafe" -> IF "status3" \in DOMAIN got THEN a.status3[1] \div 64 ELSE a.failsafe
                [] n = "direction" -> "status3" \in DOMAIN got /\ Bit(a.status3[1], 3)
                [] OTHER -> a[n]]
  <2> HIDE DEF a
  <2>1. ReplyReadArtNet2 \o ReplyReadExtensions = ReplyLayout
    BY ReplyReader
  <2> QED BY <2>1 DEF ReadReply, got, a
<1>5. \A n : n \in DOMAIN got => a[n] = got[n]
  BY DEF With
<1>6. \A n \in DOMAIN ArtPollReply : n \notin DOMAIN got => a[n] = ArtPollReply[n]
  BY DEF With
<1> HIDE DEF a, r
<1>7. /\ Early \subseteq DOMAIN ArtPollReply /\ Late \subseteq DOMAIN ArtPollReply
      /\ {"rom", "ports", "status2", "status3", "failsafe"} \subseteq DOMAIN ArtPollReply
  BY ReplyAttributeNames DEF Early, Late, Plain
<1>8. \A n \in Early \cup Late : r[n] = a[n]
  <2>1. \A n \in Early \cup Late : n \notin {"indicator", "authority", "rom", "rdm", "ubea_present", "ports", "status2",
                                             "status3", "failsafe", "direction"}
    BY DEF Early, Late
  <2> QED BY <1>4, <1>7, <2>1
<1>9. /\ r["rom"] = Bit(a.status1[1], 2)
      /\ r["ports"] = [i \in 1..4 |-> IF i <= a.port_count[1] THEN PortFrom(got, i) ELSE Port]
      /\ r["status2"] = IF "status2" \in DOMAIN got THEN Flags(Status2Bits, a.status2) ELSE a.status2
      /\ r["status3"] = (IF "status3" \in DOMAIN got THEN Flags(Status3Bits, a.status3) ELSE a.status3)
                            \cup (IF "default_resp_uid" \in DOMAIN got THEN {"llrp"} ELSE {})
      /\ r["failsafe"] = IF "status3" \in DOMAIN got THEN a.status3[1] \div 64 ELSE a.failsafe
  BY <1>4, <1>7
<1>10. \A n \in Early : SameText("pollReply", n, p[n], r[n])
  BY <1>3, <1>5, <1>8 DEF GotEarly
<1>11. /\ p.indicator \in 0..3 /\ p.authority \in 0..2 /\ p.rom \in BOOLEAN /\ p.ports \in [1..4 -> NodePorts]
       /\ p.status2 \in SUBSET DOMAIN Status2Bits /\ p.failsafe \in 0..3 /\ p.status3 \in SUBSET DOMAIN Status3Bits
  BY ReplyAttributes
<1>12. SameText("pollReply", "rom", p["rom"], r["rom"])
  <2>1. a.status1[1] = Status1(p)
    BY <1>3, <1>5 DEF GotEarly
  <2>2. Bit(Status1(p), 2) = p.rom
    BY <1>11, Status1Back
  <2>3. "rom" \notin TextsOf("pollReply")
    BY DEF TextsOf
  <2> QED BY <1>9, <2>1, <2>2, <2>3 DEF SameText
<1>13. a.port_count[1] = count
  BY <1>3, <1>5
<1>14. /\ \A i \in 1..4 : PortShown(r.ports[i], p.ports[i], m)
       /\ 28 <= m => r.ports = p.ports
  <2>1. \A i \in 1..4 : r.ports[i] = IF i <= count THEN PortFrom(got, i) ELSE Port
    BY <1>9, <1>13
  <2>2. ASSUME NEW i \in 1..4 PROVE PortShown(r.ports[i], p.ports[i], m)
    <3>1. CASE i <= count
      <4>1. r.ports[i] = PortFrom(got, i)
        BY <2>1, <3>1
      <4> QED BY <1>3, <4>1, PortsShown
    <3>2. CASE ~(i <= count)
      <4>1. r.ports[i] = Port /\ p.ports[i] = Port
        BY <1>1, <2>1, <3>2
      <4> QED BY <4>1 DEF PortShown
    <3> QED BY <3>1, <3>2
  <2>3. r.ports = [i \in 1..4 |-> r.ports[i]] /\ p.ports = [i \in 1..4 |-> p.ports[i]]
    BY <1>9, <1>11
  <2>4. 28 <= m => \A i \in 1..4 : r.ports[i] = p.ports[i]
    BY <2>2 DEF PortShown
  <2> QED BY <2>2, <2>3, <2>4
<1>15. \A n \in Late : r[n] = IF PlaceOf[n] <= m THEN p[n] ELSE ArtPollReply[n]
  BY <1>3, <1>5, <1>6, <1>7, <1>8 DEF GotLate
<1>16. r["status2"] = IF 27 <= m THEN p["status2"] ELSE ArtPollReply["status2"]
  <2>1. CASE 27 <= m
    <3>1. "status2" \in DOMAIN got /\ a.status2 = FlagByte(Status2Bits, p.status2)
      BY <1>3, <1>5, <2>1 DEF GotLate
    <3>2. Flags(Status2Bits, FlagByte(Status2Bits, p.status2)) = p.status2
      BY <1>11, FlagTables, FlagsBack
    <3> QED BY <1>9, <2>1, <3>1, <3>2
  <2>2. CASE ~(27 <= m)
    <3>1. "status2" \notin DOMAIN got
      BY <1>3, <2>2 DEF GotLate
    <3> QED BY <1>6, <1>7, <1>9, <2>2, <3>1
  <2> QED BY <2>1, <2>2
<1>17. /\ r["status3"] = IF 29 <= m THEN Shown(p, "status3", m) ELSE ArtPollReply["status3"]
       /\ r["failsafe"] = IF 29 <= m THEN p["failsafe"] ELSE ArtPollReply["failsafe"]
  <2>1. "default_resp_uid" \in DOMAIN got <=> 30 <= m
    <3>1. "default_resp_uid" \in Late /\ PlaceOf["default_resp_uid"] = 30
      BY DEF Late, PlaceOf
    <3> QED BY <1>3, <3>1 DEF GotLate
  <2>2. CASE 29 <= m
    <3>1. "status3" \in DOMAIN got /\ a.status3 = <<Status3(p)>>
      BY <1>3, <1>5, <2>2 DEF GotLate
    <3>2. Flags(Status3Bits, <<Status3(p)>>) = p.status3 /\ Status3(p) \div 64 = p.failsafe
      BY <1>11, Status3Back
    <3>3. a.status3[1] = Status3(p)
      BY <3>1
    <3>4. r["status3"] = p.status3 \cup (IF 30 <= m THEN {"llrp"} ELSE {})
      BY <1>9, <2>1, <3>1, <3>2
    <3>5. r["status3"] = Shown(p, "status3", m)
      BY <3>4 DEF Shown
    <3> QED BY <1>9, <2>2, <3>1, <3>2, <3>3, <3>5
  <2>3. CASE ~(29 <= m)
    <3>1. "status3" \notin DOMAIN got /\ "failsafe" \notin DOMAIN got
      BY <1>3, <2>3 DEF GotLate
    <3>2. ~(30 <= m)
      BY <2>3
    <3>3. r["status3"] = ArtPollReply["status3"]
      BY <1>6, <1>7, <1>9, <2>1, <3>1, <3>2
    <3> QED BY <1>6, <1>7, <1>9, <2>3, <3>1, <3>3
  <2> QED BY <2>2, <2>3
<1>18. \A n \in DOMAIN PlaceOf : r[n] = IF PlaceOf[n] <= m THEN Shown(p, n, m) ELSE ArtPollReply[n]
  <2>1. /\ DOMAIN PlaceOf = Late \cup {"status2", "status3", "failsafe"}
        /\ PlaceOf["status2"] = 27 /\ PlaceOf["status3"] = 29 /\ PlaceOf["failsafe"] = 29
    BY DEF PlaceOf, Late
  <2>2. \A n \in Late \cup {"status2", "failsafe"} : Shown(p, n, m) = p[n]
    BY DEF Shown, Late
  <2> QED BY <1>15, <1>16, <1>17, <2>1, <2>2
<1> QED BY <1>10, <1>12, <1>14, <1>18 DEF ReplyShown, r

LEMMA ReplyPacket ==
    ASSUME NEW p \in PollReplies
    PROVE  LET w == Written("pollReply", p)
           IN  /\ w.op = "pollReply" /\ w.size = 239 /\ CutTo(w, w.size) = w
               /\ \E off : WrittenAlong(w, ReplyWritten, ReplyRecord(p), off)
<1> DEFINE e == ReplyRecord(p)
           w == Write("pollReply", ReplyWritten, e)
<1>1. Written("pollReply", p) = w
  BY ReplyWrittenFrom DEF Written
<1>2. w.op = "pollReply" /\ \E off : WrittenAlong(w, ReplyWritten, e, off)
  BY ReplyFitsWhole, ReplyLayouts, WriteFields
<1>3. CutTo(w, w.size) = w
  BY WholePacket
<1> HIDE DEF w, e
<1>4. w.size = 239
  <2>1. PICK off : WrittenAlong(w, ReplyWritten, e, off)
    BY <1>2
  <2>2. Offsets(off, ReplyWritten) /\ w.size = off[Len(ReplyWritten)] /\ Len(ReplyWritten) = 31
    BY <2>1, ReplyFields DEF WrittenAlong
  <2> QED BY <2>2, ReplyOffsets
<1> QED BY <1>1, <1>2, <1>3, <1>4 DEF e

(* The attributes that a reply carries. *)
LEMMA ReplyCarried ==
    ASSUME NEW p \in PollReplies
    PROVE  \A n \in DOMAIN p \ NotCarried("pollReply") : n \in Early \cup {"rom"} \/ n = "ports" \/ n \in DOMAIN PlaceOf
<1>1. DOMAIN p = DOMAIN ArtPollReply
  BY ReplyAttributes
<1>2. DOMAIN PlaceOf = Late \cup {"status2", "status3", "failsafe"}
  BY DEF PlaceOf, Late
<1>3. NotCarried("pollReply") = {"indicator", "authority", "rdm", "ubea_present", "ubea", "direction"}
  BY DEF NotCarried
<1> QED BY <1>1, <1>2, <1>3, ReplyAttributeNames DEF Plain, Early, Late

LEMMA PollReplyArrives == ASSUME NEW p \in PollReplies PROVE AsMeant("pollReply", p)
<1> DEFINE w == Written("pollReply", p)
           r == ReadReply(w)
<1>1. PICK off : WrittenAlong(w, ReplyWritten, ReplyRecord(p), off)
  BY ReplyPacket
<1>2. w.op = "pollReply" /\ CutTo(w, w.size) = w
  BY ReplyPacket
<1>3. Deserialized(w) = r
  BY <1>2 DEF Deserialized
<1> HIDE DEF w
<1>4. ReplyShown(r, p, 31)
  <2>1. w.size = off[31] /\ 31 \in 21..31
    BY <1>1, ReplyFields DEF WrittenAlong
  <2> QED BY <1>1, <2>1, ReplyIsShown
<1> HIDE DEF r
<1>5. w.size = 239
  BY ReplyPacket DEF w
<1> DEFINE M(n) == Meant("pollReply", p, n, w.size)
<1>6. /\ M("status3") = Shown(p, "status3", 31)
      /\ \A n : n # "status3" => M(n) = p[n] /\ Shown(p, n, 31) = p[n]
  <2>1. EndOf["default_resp_uid"] = 224
    BY DEF EndOf
  <2> QED BY <1>5, <2>1 DEF Meant, Shown
<1> HIDE DEF M
<1>7. \A n \in Early \cup {"rom"} : SameText("pollReply", n, M(n), r[n])
  <2>1. \A n \in Early \cup {"rom"} : n # "status3"
    BY DEF Early
  <2>2. \A n \in Early \cup {"rom"} : M(n) = p[n]
    BY <1>6, <2>1
  <2> QED BY <1>4, <2>2 DEF ReplyShown
<1>8. \A n \in DOMAIN PlaceOf \cup {"ports"} : SameText("pollReply", n, M(n), r[n])
  <2>1. 28 <= 31 /\ \A n \in DOMAIN PlaceOf : PlaceOf[n] <= 31
    BY DEF PlaceOf
  <2>2. \A n \in DOMAIN PlaceOf : r[n] = M(n)
    BY <1>4, <1>6, <2>1 DEF ReplyShown
  <2>3. r["ports"] = M("ports")
    BY <1>4, <1>6, <2>1 DEF ReplyShown
  <2>4. \A n \in DOMAIN PlaceOf \cup {"ports"} : n \notin TextsOf("pollReply")
    BY DEF PlaceOf, TextsOf
  <2> QED BY <2>2, <2>3, <2>4 DEF SameText
<1>9. \A n \in DOMAIN p \ NotCarried("pollReply") : SameText("pollReply", n, M(n), r[n])
  BY <1>7, <1>8, ReplyCarried
<1>10. \A n, sent, got : Same("pollReply", n, sent, got) <=> SameText("pollReply", n, sent, got)
  BY DEF Same
<1> QED BY <1>2, <1>3, <1>9, <1>10 DEF AsMeant, M, w

(* What is read of a reply that ends early, against the one that was written. *)
CutShown(r, p, size) ==
    /\ \A n \in Early \cup {"rom"} : SameText("pollReply", n, p[n], r[n])
    /\ \A i \in 1..4 : WithoutB(r.ports[i]) = WithoutB(p.ports[i])
    /\ \A n \in DOMAIN EndOf : r[n] = IF EndOf[n] > size THEN ArtPollReply[n] ELSE Meant("pollReply", p, n, size)

(* The ends of a reply are ends of fields. *)
LEMMA ReplyCut ==
    ASSUME NEW p \in PollReplies, NEW size \in {197, 201, 207, 211, 212, 213, 217, 218, 224}
    PROVE  LET w == Written("pollReply", p)
           IN  w.size # size /\ CutShown(Deserialized(CutTo(w, size)), p, size)
<1> DEFINE w == Written("pollReply", p)
           u == CutTo(w, size)
           r == ReadReply(u)
<1>1. PICK off : WrittenAlong(w, ReplyWritten, ReplyRecord(p), off)
  BY ReplyPacket
<1>2. w.op = "pollReply" /\ w.size = 239 /\ CutTo(w, w.size) = w
  BY ReplyPacket
<1> HIDE DEF w
<1>3. u.op = "pollReply" /\ u.fields = w.fields /\ u.size = size
  BY <1>1, <1>2 DEF CutTo
<1>4. Deserialized(u) = r
  BY <1>3 DEF Deserialized
<1>5. PICK m \in 21..31 : /\ off[m] = size
                          /\ \A n \in DOMAIN EndOf : EndOf[n] > size <=> ~(PlaceOf[n] <= m)
  <2>1. /\ off[21] = 197 /\ off[23] = 201 /\ off[24] = 207 /\ off[25] = 211 /\ off[26] = 212
        /\ off[27] = 213 /\ off[28] = 217 /\ off[29] = 218 /\ off[30] = 224
    BY <1>1, ReplyOffsets DEF WrittenAlong
  <2>2. \A n \in DOMAIN EndOf :
           <<EndOf[n], PlaceOf[n]>> \in {<<201, 23>>, <<207, 24>>, <<211, 25>>, <<212, 26>>, <<213, 27>>, <<218, 29>>,
                                        <<224, 30>>}
    <3>1. DOMAIN EndOf = {"style", "mac_address", "bind_ip", "bind_index", "status2", "failsafe", "status3",
                          "default_resp_uid"}
      BY DEF EndOf
    <3>2. /\ EndOf["style"] = 201 /\ EndOf["mac_address"] = 207 /\ EndOf["bind_ip"] = 211 /\ EndOf["bind_index"] = 212
          /\ EndOf["status2"] = 213 /\ EndOf["failsafe"] = 218 /\ EndOf["status3"] = 218
          /\ EndOf["default_resp_uid"] = 224
      BY DEF EndOf
    <3>3. /\ PlaceOf["style"] = 23 /\ PlaceOf["mac_address"] = 24 /\ PlaceOf["bind_ip"] = 25
          /\ PlaceOf["bind_index"] = 26 /\ PlaceOf["status2"] = 27 /\ PlaceOf["failsafe"] = 29
          /\ PlaceOf["status3"] = 29 /\ PlaceOf["default_resp_uid"] = 30
      BY DEF PlaceOf
    <3> QED BY <3>1, <3>2, <3>3
  <2> DEFINE Fit(m) == \A n \in DOMAIN EndOf : EndOf[n] > size <=> ~(PlaceOf[n] <= m)
  <2>3. CASE size = 197
    <3>1. Fit(21)
      BY <2>2, <2>3
    <3> QED BY <2>1, <2>3, <3>1
  <2>4. CASE size = 201
    <3>1. Fit(23)
      BY <2>2, <2>4
    <3> QED BY <2>1, <2>4, <3>1
  <2>5. CASE size = 207
    <3>1. Fit(24)
      BY <2>2, <2>5
    <3> QED BY <2>1, <2>5, <3>1
  <2>6. CASE size = 211
    <3>1. Fit(25)
      BY <2>2, <2>6
    <3> QED BY <2>1, <2>6, <3>1
  <2>7. CASE size = 212
    <3>1. Fit(26)
      BY <2>2, <2>7
    <3> QED BY <2>1, <2>7, <3>1
  <2>8. CASE size = 213
    <3>1. Fit(27)
      BY <2>2, <2>8
    <3> QED BY <2>1, <2>8, <3>1
  <2>9. CASE size = 217
    <3>1. Fit(28)
      BY <2>2, <2>9
    <3> QED BY <2>1, <2>9, <3>1
  <2>10. CASE size = 218
    <3>1. Fit(29)
      BY <2>2, <2>10
    <3> QED BY <2>1, <2>10, <3>1
  <2>11. CASE size = 224
    <3>1. Fit(30)
      BY <2>2, <2>11
    <3> QED BY <2>1, <2>11, <3>1
  <2> QED BY <2>3, <2>4, <2>5, <2>6, <2>7, <2>8, <2>9, <2>10, <2>11
<1> HIDE DEF u
<1>6. ReplyShown(r, p, m)
  BY <1>1, <1>3, <1>5, ReplyIsShown
<1> HIDE DEF r
<1>7. DOMAIN EndOf = DOMAIN PlaceOf
  BY DEF EndOf, PlaceOf
<1>8. \A n \in DOMAIN EndOf : r[n] = IF EndOf[n] > size THEN ArtPollReply[n] ELSE Meant("pollReply", p, n, size)
  <2>1. /\ "default_resp_uid" \in DOMAIN EndOf /\ EndOf["default_resp_uid"] = 224
        /\ PlaceOf["default_resp_uid"] = 30
    BY DEF EndOf, PlaceOf
  <2>2. size >= EndOf["default_resp_uid"] <=> 30 <= m
    BY <1>5, <2>1
  <2>3. \A n : Meant("pollReply", p, n, size) = Shown(p, n, m)
    BY <2>2 DEF Meant, Shown
  <2> QED BY <1>5, <1>6, <1>7, <2>3 DEF ReplyShown
<1>9. w.size # size
  BY <1>2
<1>10. \A i \in 1..4 : WithoutB(r.ports[i]) = WithoutB(p.ports[i])
  BY <1>6, Zenon DEF ReplyShown, PortShown
<1>11. \A n \in Early \cup {"rom"} : SameText("pollReply", n, p[n], r[n])
  BY <1>6 DEF ReplyShown
<1>12. CutShown(r, p, size)
  BY <1>8, <1>10, <1>11 DEF CutShown
<1> QED BY <1>4, <1>9, <1>12 DEF w, u

LEMMA AllArrive == ASSUME NEW op \in Opcodes, NEW p \in PacketsOf(op) PROVE AsMeant(op, p)
<1>1. CASE op = "poll"
  BY <1>1, PollArrives, WholeAsMeant DEF PacketsOf
<1>2. CASE op = "pollReply"
  BY <1>2, PollReplyArrives DEF PacketsOf
<1>3. CASE op = "ipProg"
  BY <1>3, IpProgArrives, WholeAsMeant DEF PacketsOf
<1>4. CASE op = "ipProgReply"
  BY <1>4, IpProgReplyArrives, WholeAsMeant DEF PacketsOf
<1>5. CASE op = "address"
  BY <1>5, AddressArrives, WholeAsMeant DEF PacketsOf
<1>6. CASE op = "diagData"
  BY <1>6, DiagArrives, WholeAsMeant DEF PacketsOf
<1>7. CASE op = "timeCode"
  BY <1>7, TimeCodeArrives, WholeAsMeant DEF PacketsOf
<1>8. CASE op = "command"
  BY <1>8, CommandArrives, WholeAsMeant DEF PacketsOf
<1>9. CASE op = "trigger"
  BY <1>9, TriggerArrives, WholeAsMeant DEF PacketsOf
<1> QED BY <1>1, <1>2, <1>3, <1>4, <1>5, <1>6, <1>7, <1>8, <1>9 DEF Opcodes

-----------------------------------------------------------------------------
(* What was heard is what some packet of the network is read as. *)
HeardInv ==
    /\ other[1] # Quiet => other \in Others
    /\ heard[1] # 0 =>
         /\ other \in Others
         /\ LET w == Written(other[1], other[2])
            IN  \E size \in {w.size} \cup (IF other[1] = "pollReply" THEN ReplyEnds ELSE {}) :
                   heard = <<size, Deserialized(CutTo(w, size))>>

LEMMA OnlyOtherPacketIsHeard == Next => OtherPacket \/ UNCHANGED <<other, heard>>
<1> SUFFICES ASSUME Next PROVE OtherPacket \/ UNCHANGED <<other, heard>>
  OBVIOUS
<1>1. ASSUME NEW h \in Pollers, Poll(h) PROVE UNCHANGED <<other, heard>>
  BY <1>1 DEF Poll
<1>2. ASSUME NEW d \in wire, ReceivePoll(d.to, d) PROVE UNCHANGED <<other, heard>>
  BY <1>2 DEF ReceivePoll
<1>3. ASSUME NEW d \in wire, ReceivePollReply(d.to, d) PROVE UNCHANGED <<other, heard>>
  BY <1>3 DEF ReceivePollReply
<1>4. ASSUME NEW d \in wire, ReceiveDmx(d.to, d) PROVE UNCHANGED <<other, heard>>
  BY <1>4 DEF ReceiveDmx
<1>5. ASSUME NEW d \in wire, ReceiveDiag(d.to, d) PROVE UNCHANGED <<other, heard>>
  BY <1>5 DEF ReceiveDiag
<1>6. ASSUME NEW d \in wire, Lose(d) PROVE UNCHANGED <<other, heard>>
  BY <1>6 DEF Lose
<1>7. ASSUME NEW h \in Hosts, NEW g \in Hosts, DelayedReply(h, g) PROVE UNCHANGED <<other, heard>>
  BY <1>7 DEF DelayedReply
<1>8. ASSUME NEW h \in Senders, NEW a \in own[h], SendDmx(h, a) PROVE UNCHANGED <<other, heard>>
  BY <1>8 DEF SendDmx
<1>9. ASSUME NEW h \in Hosts, NEW a \in own[h], DisableInputFlag(h, a) PROVE UNCHANGED <<other, heard>>
  BY <1>9 DEF DisableInputFlag
<1>10. ASSUME Tick PROVE UNCHANGED <<other, heard>>
  BY <1>10 DEF Tick
<1> QED BY <1>1, <1>2, <1>3, <1>4, <1>5, <1>6, <1>7, <1>8, <1>9, <1>10 DEF Next

LEMMA HeardNext == HeardInv /\ [Next]_vars => HeardInv'
<1> SUFFICES ASSUME HeardInv, [Next]_vars PROVE HeardInv'
  OBVIOUS
<1>1. CASE OtherPacket
  <2>1. other' = other /\ other \in Others
    BY <1>1 DEF OtherPacket, Exchanging, HeardInv
  <2>2. \E size \in {Written(other[1], other[2]).size} \cup (IF other[1] = "pollReply" THEN ReplyEnds ELSE {}) :
           heard' = <<size, Deserialized(CutTo(Written(other[1], other[2]), size))>>
    BY <1>1 DEF OtherPacket
  <2> QED BY <2>1, <2>2 DEF HeardInv
<1>2. CASE UNCHANGED <<other, heard>>
  BY <1>2 DEF HeardInv
<1> QED BY <1>1, <1>2, OnlyOtherPacketIsHeard DEF vars

LEMMA HeardWhole == HeardInv => PacketsArriveWhole
<1> SUFFICES ASSUME HeardInv, heard[1] # 0, NEW n \in DOMAIN other[2] \ NotCarried(other[1])
             PROVE  IF heard[1] = Written(other[1], other[2]).size THEN Arrived(n)
                    ELSE IF n = "ports"
                    THEN \A i \in 1..4 : WithoutB(heard[2].ports[i]) = WithoutB(other[2].ports[i])
                    ELSE IF n \in DOMAIN EndOf /\ EndOf[n] > heard[1] THEN heard[2][n] = ArtPollReply[n]
                    ELSE SameText(other[1], n, Meant(other[1], other[2], n, heard[1]), heard[2][n])
  BY DEF PacketsArriveWhole
<1> DEFINE op == other[1]
           p == other[2]
           w == Written(op, p)
<1>1. op \in Opcodes /\ p \in PacketsOf(op)
  BY OthersAssumption DEF HeardInv
<1>2. PICK size \in {w.size} \cup (IF op = "pollReply" THEN ReplyEnds ELSE {}) :
         heard = <<size, Deserialized(CutTo(w, size))>>
  BY DEF HeardInv
<1>3. heard[1] = size /\ heard[2] = Deserialized(CutTo(w, size))
  BY <1>2
<1>4. CASE size = w.size
  <2>1. AsMeant(op, p)
    BY <1>1, AllArrive
  <2>2. CutTo(w, size) = w /\ Same(op, n, Meant(op, p, n, size), Deserialized(w)[n])
    BY <1>4, <2>1 DEF AsMeant
  <2>3. Arrived(n)
    BY <1>3, <2>2 DEF Arrived
  <2> QED BY <1>3, <1>4, <2>3
<1>5. CASE size # w.size
  <2>1. op = "pollReply" /\ size \in ReplyEnds
    BY <1>2, <1>5
  <2>2. p \in PollReplies /\ size \in {197, 201, 207, 211, 212, 213, 217, 218, 224}
    BY <1>1, <2>1, OthersAssumption DEF PacketsOf
  <2> DEFINE r == Deserialized(CutTo(w, size))
  <2>3. CutShown(r, p, size)
    <3>1. CutShown(Deserialized(CutTo(Written("pollReply", p), size)), p, size)
      BY <2>2, ReplyCut
    <3>2. r = Deserialized(CutTo(Written("pollReply", p), size))
      BY <2>1
    <3> QED BY <3>1, <3>2
  <2>4. heard[2] = r
    BY <1>3
  <2> HIDE DEF r, w
  <2>5. n \in Early \cup {"rom"} \/ n = "ports" \/ n \in DOMAIN EndOf
    <3>1. DOMAIN EndOf = DOMAIN PlaceOf
      BY DEF EndOf, PlaceOf
    <3> QED BY <2>1, <2>2, <3>1, ReplyCarried
  <2>6. CASE n = "ports"
    BY <1>3, <1>5, <2>3, <2>4, <2>6 DEF w, CutShown
  <2>7. CASE n \in DOMAIN EndOf /\ n # "ports"
    <3>1. n \notin TextsOf("pollReply")
      BY <2>7 DEF EndOf, TextsOf
    <3>2. ~(EndOf[n] > size) => SameText("pollReply", n, Meant("pollReply", p, n, size), r[n])
      BY <2>3, <2>7, <3>1 DEF SameText, CutShown
    <3> QED BY <1>3, <1>5, <2>1, <2>3, <2>4, <2>7, <3>2 DEF w, CutShown
  <2>8. CASE n \notin DOMAIN EndOf /\ n # "ports"
    <3>1. SameText("pollReply", n, p[n], r[n])
      BY <2>3, <2>5, <2>8 DEF CutShown
    <3>2. Meant(op, p, n, size) = p[n]
      <4>1. n # "status3"
        BY <2>8 DEF EndOf
      <4> QED BY <4>1 DEF Meant
    <3> QED BY <1>3, <1>5, <2>1, <2>4, <2>8, <3>1, <3>2 DEF w
  <2> QED BY <2>6, <2>7, <2>8
<1> QED BY <1>4, <1>5

(* Every packet that a device writes is read as it was written, whole or, for *)
(* a poll reply, up to the field after which an older node ends it; a reply   *)
(* that has room for an UID is read as one of a device with LLRP, whatever    *)
(* its status says (server/__init__.py:751-755, :920).                        *)
THEOREM PacketsArrive == Spec => []PacketsArriveWhole
<1>1. Init => HeardInv
  BY DEF Init, HeardInv, Quiet
<1>2. HeardInv /\ [Next]_vars => HeardInv'
  BY HeardNext
<1>3. HeardInv => PacketsArriveWhole
  BY HeardWhole
<1> QED BY <1>1, <1>2, <1>3, PTL DEF Spec

=============================================================================
