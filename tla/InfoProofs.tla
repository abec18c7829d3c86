----------------------------- MODULE InfoProofs -----------------------------
(***************************************************************************)
(* What holds of the log that a charging bat3 sends, for every number of   *)
(* savers, faults and samples.                                             *)
(***************************************************************************)
EXTENDS Info, FiniteSetTheorems, TLAPS

(***************************************************************************)
(* Why a packet is about one second: the samples that are kept are of the  *)
(* second last_t, whether anybody listens or not.                          *)
(***************************************************************************)
KeptOfOneSecond == \A j \in DOMAIN samples : samples[j].second = last_t

(***************************************************************************)
(* Why there are not two in a second: once one is sent, either last_t is   *)
(* up to date or nothing has been kept since the server was started.       *)
(***************************************************************************)
OncePerSecond ==
  /\ sends \in {0, 1}
  /\ sends = 1 => last_t = now \/ samples = <<>>

\* What the properties say of one packet.
OfOneSecond(packet) == \A j \in DOMAIN packet.samples : packet.samples[j].second = packet.t

ValuesOf(packet) == { packet.samples[j].value : j \in DOMAIN packet.samples }

Smooth(packet) ==
  Within(packet.smooth, ValuesOf(packet)) /\ Within(packet.average, ValuesOf(packet))

IInv ==
  /\ TypeOK /\ KeptOfOneSecond /\ OncePerSecond
  /\ \A i \in DOMAIN infos : OfOneSecond(infos[i]) /\ Smooth(infos[i])

-----------------------------------------------------------------------------
(***************************************************************************)
(* Induction, for a set of numbers.                                        *)
(***************************************************************************)
LEMMA AllNumbers ==
  ASSUME NEW T \in SUBSET Nat, 0 \in T, \A n \in T : n + 1 \in T
  PROVE  \A n \in Nat : n \in T
<1> DEFINE rest  == Nat \ T
           below == { p \in Nat \X Nat : p[1] < p[2] }
<1> SUFFICES ASSUME rest # {} PROVE FALSE
  OBVIOUS
<1>1. OpToRel(<, Nat) = below
  BY DEF OpToRel
<1>2. IsWellFoundedOn(below, Nat)
  BY <1>1, NatLessThanWellFounded
<1>3. PICK m \in rest : \A k \in rest : ~(<<k, m>> \in below)
  <2>1. rest \subseteq Nat
    OBVIOUS
  <2> HIDE DEF below, rest
  <2> QED  BY <1>2, <2>1, WFMin, Zenon
<1>4. m - 1 \in Nat /\ (m - 1) + 1 = m
  OBVIOUS
<1>5. m - 1 \in rest
  BY <1>4
<1>6. <<m - 1, m>> \in below
  BY <1>4
<1> QED  BY <1>3, <1>5, <1>6

(***************************************************************************)
(* What MapThenSumSet computes: its recursion on the subsets of a finite   *)
(* set is well founded, which is shown by the size of the subsets.         *)
(***************************************************************************)
First(s) == CHOOSE x \in s : TRUE

Adds(arr, S, it) ==
  [ s \in SUBSET S |-> IF s = {} THEN 0 ELSE arr[First(s) + 1] + it[s \ {First(s)}] ]

Total(arr, S) == CHOOSE it : it = Adds(arr, S, it)

LEMMA SumIsTotal ==
  ASSUME NEW arr, NEW S
  PROVE  MapThenSumSet(LAMBDA j : arr[j + 1], S) = Total(arr, S)[S]
BY DEF MapThenSumSet, MapThenFoldSet, Total, Adds, First

\* The set that is left is smaller by one.
LEMMA Smaller ==
  ASSUME NEW S, IsFiniteSet(S), NEW s \in SUBSET S
  PROVE  /\ IsFiniteSet(s) /\ Cardinality(s) \in Nat /\ Cardinality(s) <= Cardinality(S)
         /\ Cardinality(s) = 0 <=> s = {}
         /\ s # {} => /\ First(s) \in s /\ s \ {First(s)} \in SUBSET S
                      /\ Cardinality(s \ {First(s)}) = Cardinality(s) - 1
<1>1. IsFiniteSet(s) /\ Cardinality(s) <= Cardinality(S)
  BY FS_Subset
<1>2. Cardinality(s) \in Nat /\ (Cardinality(s) = 0 <=> s = {})
  BY <1>1, FS_CardinalityType, FS_EmptySet
<1>3. s # {} => First(s) \in s
  BY DEF First
<1>4. s # {} => Cardinality(s \ {First(s)}) = Cardinality(s) - 1
  BY <1>1, <1>3, FS_RemoveElement
<1> QED  BY <1>1, <1>2, <1>3, <1>4

LEMMA TotalAdds ==
  ASSUME NEW arr, NEW S, IsFiniteSet(S), \A j \in S : arr[j + 1] \in Int
  PROVE  Total(arr, S) = Adds(arr, S, Total(arr, S))
<1> DEFINE AddsTo(it, n) == \A s \in SUBSET S : Cardinality(s) <= n => it[s] = Adds(arr, S, it)[s]
           T == { n \in Nat : \E it \in [SUBSET S -> Int] : AddsTo(it, n) }
<1>1. 0 \in T
  <2> DEFINE zero == [ s \in SUBSET S |-> 0 ]
  <2>1. ASSUME NEW s \in SUBSET S, Cardinality(s) <= 0 PROVE s = {}
    <3>1. Cardinality(s) \in Nat /\ (Cardinality(s) = 0 <=> s = {})
      BY Smaller
    <3> QED  BY <2>1, <3>1
  <2>2. AddsTo(zero, 0)
    BY <2>1 DEF Adds
  <2>3. zero \in [SUBSET S -> Int]
    OBVIOUS
  <2> HIDE DEF zero, AddsTo
  <2> QED  BY <2>2, <2>3
<1>2. ASSUME NEW n \in T PROVE n + 1 \in T
  <2>1. PICK it \in [SUBSET S -> Int] : AddsTo(it, n)
    OBVIOUS
  <2> DEFINE next == Adds(arr, S, it)
  <2>2. ASSUME NEW s \in SUBSET S, s # {}
        PROVE  arr[First(s) + 1] \in Int /\ s \ {First(s)} \in SUBSET S
    <3>1. First(s) \in s /\ s \ {First(s)} \in SUBSET S
      BY <2>2, Smaller
    <3> QED  BY <3>1
  <2>3. next \in [SUBSET S -> Int]
    BY <2>2 DEF Adds
  <2>4. ASSUME NEW s \in SUBSET S, Cardinality(s) <= n + 1
        PROVE  next[s] = Adds(arr, S, next)[s]
    <3>1. CASE s = {}
      BY <3>1 DEF Adds
    <3>2. CASE s # {}
      <4> DEFINE r == s \ {First(s)}
      <4>1. r \in SUBSET S /\ Cardinality(r) <= n
        <5>1. Cardinality(r) = Cardinality(s) - 1 /\ Cardinality(s) \in Nat /\ r \in SUBSET S
          BY <3>2, Smaller
        <5>2. n \in Nat
          OBVIOUS
        <5> HIDE DEF r, T
        <5> QED  BY <2>4, <5>1, <5>2
      <4>2. next[r] = it[r]
        BY <2>1, <4>1
      <4>3. next[s] = arr[First(s) + 1] + it[r]
        BY <3>2 DEF Adds
      <4>4. Adds(arr, S, next)[s] = arr[First(s) + 1] + next[r]
        <5> HIDE DEF next
        <5> QED  BY <3>2 DEF Adds
      <4> QED  BY <4>2, <4>3, <4>4
    <3> QED  BY <3>1, <3>2
  <2>5. AddsTo(next, n + 1)
    BY <2>4
  <2>6. n + 1 \in Nat
    OBVIOUS
  <2> HIDE DEF next, AddsTo
  <2> QED  BY <2>3, <2>5, <2>6
<1>3. Cardinality(S) \in T
  <2>1. Cardinality(S) \in Nat
    BY FS_CardinalityType
  <2>2. T \in SUBSET Nat
    OBVIOUS
  <2> HIDE DEF T
  <2> QED  BY <1>1, <1>2, <2>1, <2>2, AllNumbers
<1>4. PICK it \in [SUBSET S -> Int] : AddsTo(it, Cardinality(S))
  BY <1>3
<1>5. \A s \in SUBSET S : it[s] = Adds(arr, S, it)[s]
  BY <1>4, Smaller
<1>6. it = Adds(arr, S, it)
  <2>1. DOMAIN it = SUBSET S /\ DOMAIN Adds(arr, S, it) = SUBSET S
    BY DEF Adds
  <2>2. it = [ s \in SUBSET S |-> it[s] ]
    BY <2>1
  <2>3. Adds(arr, S, it) = [ s \in SUBSET S |-> Adds(arr, S, it)[s] ]
    BY DEF Adds
  <2> QED  BY <1>5, <2>2, <2>3
<1> QED  BY <1>6, Zenon DEF Total

\* A sum is a whole number, between its number times the least and the largest.
LEMMA SumBounds ==
  ASSUME NEW arr, NEW S, IsFiniteSet(S), NEW lo \in Int, NEW hi \in Int,
         \A j \in S : arr[j + 1] \in Int /\ lo <= arr[j + 1] /\ arr[j + 1] <= hi
  PROVE  /\ MeanOf(arr, S).n = Cardinality(S) /\ MeanOf(arr, S) \in Mean
         /\ Cardinality(S) * lo <= MeanOf(arr, S).sum
         /\ MeanOf(arr, S).sum <= Cardinality(S) * hi
<1> DEFINE it == Total(arr, S)
           Bounded(s) == /\ it[s] \in Int
                         /\ Cardinality(s) * lo <= it[s] /\ it[s] <= Cardinality(s) * hi
           T == { n \in Nat : \A s \in SUBSET S : Cardinality(s) = n => Bounded(s) }
<1>1. it = Adds(arr, S, it)
  BY TotalAdds
<1>2. 0 \in T
  <2>1. ASSUME NEW s \in SUBSET S, Cardinality(s) = 0 PROVE Bounded(s)
    <3>1. it[s] = 0
      BY <1>1, <2>1, Smaller DEF Adds
    <3> QED  BY <2>1, <3>1
  <2> QED  BY <2>1
<1>3. ASSUME NEW n \in T PROVE n + 1 \in T
  <2>1. ASSUME NEW s \in SUBSET S, Cardinality(s) = n + 1 PROVE Bounded(s)
    <3> DEFINE r == s \ {First(s)}
               a == arr[First(s) + 1]
    <3>1. n \in Nat /\ s # {}
      <4>1. n \in Nat /\ (Cardinality(s) = 0 <=> s = {})
        BY Smaller
      <4> QED  BY <2>1, <4>1
    <3>2. r \in SUBSET S /\ Cardinality(r) = n /\ First(s) \in S
      <4>1. First(s) \in s /\ r \in SUBSET S /\ Cardinality(r) = Cardinality(s) - 1
        BY <3>1, Smaller
      <4> QED  BY <2>1, <3>1, <4>1
    <3>3. a \in Int /\ lo <= a /\ a <= hi
      BY <3>2
    <3>4. it[r] \in Int /\ n * lo <= it[r] /\ it[r] <= n * hi
      BY <3>2
    <3>5. it[s] = a + it[r]
      BY <1>1, <3>1 DEF Adds
    <3> HIDE DEF it, a, r
    <3>6. (n + 1) * lo = n * lo + lo /\ (n + 1) * hi = n * hi + hi
      BY <3>1
    <3>7. n * lo \in Int /\ n * hi \in Int
      BY <3>1
    <3>8. /\ a + it[r] \in Int
          /\ n * lo + lo <= a + it[r] /\ a + it[r] <= n * hi + hi
      BY <3>3, <3>4, <3>7
    <3> QED  BY <2>1, <3>5, <3>6, <3>8
  <2>2. n + 1 \in Nat
    OBVIOUS
  <2> HIDE DEF Bounded
  <2> QED  BY <2>1, <2>2
<1>4. Cardinality(S) \in Nat
  BY FS_CardinalityType
<1>5. Bounded(S)
  <2>1. T \in SUBSET Nat
    OBVIOUS
  <2>2. Cardinality(S) \in T
    <3> HIDE DEF T
    <3> QED  BY <1>2, <1>3, <1>4, <2>1, AllNumbers
  <2> HIDE DEF Bounded
  <2> QED  BY <2>2
<1>6. MeanOf(arr, S) = [sum |-> it[S], n |-> Cardinality(S)]
  BY SumIsTotal DEF MeanOf
<1> HIDE DEF it
<1> QED  BY <1>4, <1>5, <1>6 DEF Mean

\* Finitely many values have a least and a largest one.
LEMMA Extremes ==
  ASSUME NEW n \in Nat \ {0}, NEW arr \in [1 .. n -> Int], NEW S, S = { arr[j] : j \in 1 .. n }
  PROVE  /\ Min(S) \in Int /\ Max(S) \in Int
         /\ \A j \in 1 .. n : Min(S) <= arr[j] /\ arr[j] <= Max(S)
<1> DEFINE T == { m \in Nat : m < n =>
                    \E k, l \in 1 .. m + 1 : \A j \in 1 .. m + 1 :
                      arr[k] <= arr[j] /\ arr[j] <= arr[l] }
<1>1. 0 \in T
  <2>1. \A j \in 1 .. 0 + 1 : j = 1
    OBVIOUS
  <2>2. 1 \in 1 .. 0 + 1 /\ arr[1] \in Int
    OBVIOUS
  <2> QED  BY <2>1, <2>2
<1>2. ASSUME NEW m \in T PROVE m + 1 \in T
  <2> SUFFICES ASSUME m + 1 < n
               PROVE  \E k, l \in 1 .. (m + 1) + 1 : \A j \in 1 .. (m + 1) + 1 :
                        arr[k] <= arr[j] /\ arr[j] <= arr[l]
    OBVIOUS
  <2>1. m \in Nat /\ m < n /\ m + 2 \in 1 .. n
    OBVIOUS
  <2>2. PICK k, l \in 1 .. m + 1 : \A j \in 1 .. m + 1 : arr[k] <= arr[j] /\ arr[j] <= arr[l]
    BY <2>1
  <2> DEFINE k1 == IF arr[m + 2] < arr[k] THEN m + 2 ELSE k
             l1 == IF arr[m + 2] > arr[l] THEN m + 2 ELSE l
  <2>3. k1 \in 1 .. (m + 1) + 1 /\ l1 \in 1 .. (m + 1) + 1
    BY <2>1
  <2>4. \A j \in 1 .. (m + 1) + 1 : arr[j] \in Int /\ (j \in 1 .. m + 1 \/ j = m + 2)
    BY <2>1
  <2>5. \A j \in 1 .. (m + 1) + 1 : arr[k1] <= arr[j] /\ arr[j] <= arr[l1]
    BY <2>2, <2>4, SMTT(30)
  <2> HIDE DEF k1, l1
  <2> QED  BY <2>3, <2>5
<1>3. n - 1 \in T
  <2>1. T \in SUBSET Nat /\ n - 1 \in Nat
    OBVIOUS
  <2> HIDE DEF T
  <2> QED  BY <1>1, <1>2, <2>1, AllNumbers
<1>4. PICK k, l \in 1 .. n : \A j \in 1 .. n : arr[k] <= arr[j] /\ arr[j] <= arr[l]
  BY <1>3
<1>5. /\ arr[k] \in S /\ \A y \in S : arr[k] <= y
      /\ arr[l] \in S /\ \A y \in S : arr[l] >= y
  BY <1>4
<1>6. /\ Min(S) \in S /\ \A y \in S : Min(S) <= y
      /\ Max(S) \in S /\ \A y \in S : Max(S) >= y
  BY <1>5 DEF Min, Max
<1>7. \A j \in 1 .. n : arr[j] \in Int /\ arr[j] \in S
  OBVIOUS
<1> QED  BY <1>6, <1>7

\* Both means are means: of at least one value, and between the extremes.
LEMMA Means ==
  ASSUME NEW n \in Nat \ {0}, NEW arr \in [1 .. n -> Int],
         NEW S, S = { arr[j] : j \in 1 .. n },
         NEW mean \in {smoothAverage(arr), average(arr)}
  PROVE  mean \in Mean /\ Within(mean, S)
<1>1. Len(arr) = n /\ Indices(arr) = 0 .. n - 1
  BY DEF Indices
<1>2. IsFiniteSet(Indices(arr)) /\ Cardinality(Indices(arr)) = n
  BY <1>1, FS_Interval
<1>3. PICK counted \in SUBSET Indices(arr) : mean = MeanOf(arr, counted) /\ counted # {}
  <2> DEFINE x == IndexOf(arr, -1)
             y == IndexOf(arr, 1)
  <2>1. n > 2 => Indices(arr) \ {x, y} # {}
    <3> HIDE DEF x, y
    <3>1. IsFiniteSet(Indices(arr) \ {x}) /\ Cardinality(Indices(arr) \ {x}) \in {n, n - 1}
      BY <1>2, FS_RemoveElement
    <3> DEFINE R == Indices(arr) \ {x}
               W == Indices(arr) \ {x, y}
    <3>2. R \ {y} = W
      OBVIOUS
    <3>3. Cardinality(R \ {y}) \in {n, n - 1, n - 2}
      <4>1. Cardinality(R \ {y}) = IF y \in R THEN Cardinality(R) - 1 ELSE Cardinality(R)
        <5> HIDE DEF R
        <5> QED  BY <3>1, FS_RemoveElement DEF R
      <4> HIDE DEF R
      <4> QED  BY <3>1, <4>1 DEF R
    <3>4. Cardinality({}) = 0
      BY FS_EmptySet
    <3> HIDE DEF R, W
    <3>5. n > 2 => Cardinality(W) # 0
      <4>1. Cardinality(W) \in {n, n - 1, n - 2}
        BY <3>2, <3>3, Zenon
      <4> DEFINE size == Cardinality(W)
      <4> HIDE DEF size
      <4>2. n > 2 => size # 0
        BY <4>1 DEF size
      <4> QED  BY <4>2 DEF size
    <3> QED  BY <3>4, <3>5, Zenon DEF W
  <2>2. Indices(arr) # {}
    BY <1>1
  <2> HIDE DEF x, y
  <2>3. average(arr) = MeanOf(arr, Indices(arr))
    BY DEF average
  <2>4. smoothAverage(arr) = MeanOf(arr, IF Len(arr) <= 2 THEN Indices(arr)
                                         ELSE Indices(arr) \ {x, y})
    BY Zenon DEF smoothAverage, x, y
  <2> QED  BY <1>1, <2>1, <2>2, <2>3, <2>4
<1>4. IsFiniteSet(counted) /\ Cardinality(counted) \in Nat /\ Cardinality(counted) > 0
  <2>1. IsFiniteSet(counted)
    BY <1>2, FS_Subset
  <2> QED  BY <1>3, <2>1, FS_CardinalityType, FS_EmptySet
<1>5. /\ Min(S) \in Int /\ Max(S) \in Int
      /\ \A j \in 1 .. n : Min(S) <= arr[j] /\ arr[j] <= Max(S)
  BY Extremes
<1>6. \A j \in counted : /\ arr[j + 1] \in Int
                         /\ Min(S) <= arr[j + 1] /\ arr[j + 1] <= Max(S)
  <2>1. \A j \in counted : j + 1 \in 1 .. n
    BY <1>1
  <2> QED  BY <1>5, <2>1
<1>7. /\ MeanOf(arr, counted).n = Cardinality(counted) /\ MeanOf(arr, counted) \in Mean
      /\ Cardinality(counted) * Min(S) <= MeanOf(arr, counted).sum
      /\ MeanOf(arr, counted).sum <= Cardinality(counted) * Max(S)
  BY <1>4, <1>5, <1>6, SumBounds
<1> QED  BY <1>3, <1>4, <1>7 DEF Within
-----------------------------------------------------------------------------
(***************************************************************************)
(* The packets.                                                            *)
(***************************************************************************)

\* A packet made of the kept samples.
LEMMA NewPacket ==
  ASSUME IInv, samples # <<>>, to # NoOne
  PROVE  /\ LogOf(to) \in LogPacket
         /\ OfOneSecond(LogOf(to)) /\ Smooth(LogOf(to))
<1> DEFINE arr == [ i \in DOMAIN samples |-> samples[i].value ]
           n   == Len(samples)
           S   == { arr[j] : j \in 1 .. n }
<1>1. samples \in Seq(Sample) /\ last_t \in Second \cup {-1} /\ to \in Savers
  BY DEF IInv, TypeOK
<1>2. /\ DOMAIN samples = 1 .. n /\ n \in Nat \ {0}
      /\ \A j \in 1 .. n : samples[j] \in Sample
  BY <1>1
<1>3. arr \in [1 .. n -> Int]
  BY <1>2, InfoAssumption DEF Sample
<1>4. last_t \in Second
  <2>1. samples[1].second \in Second /\ samples[1].second = last_t
    BY <1>2 DEF IInv, KeptOfOneSecond, Sample
  <2> QED  BY <2>1
<1>5. /\ LogOf(to).t = last_t /\ LogOf(to).samples = samples
      /\ LogOf(to).smooth = smoothAverage(arr) /\ LogOf(to).average = average(arr)
      /\ LogOf(to) = [ t |-> last_t, dest |-> to, samples |-> samples,
                       smooth |-> smoothAverage(arr), average |-> average(arr) ]
  BY DEF LogOf
<1>6. S = ValuesOf(LogOf(to))
  <2>1. \A j \in 1 .. n : arr[j] = samples[j].value
    BY <1>2
  <2> QED  BY <1>2, <1>5, <2>1 DEF ValuesOf
<1> HIDE DEF arr, n, S
<1>7. ASSUME NEW mean \in {smoothAverage(arr), average(arr)}
      PROVE  mean \in Mean /\ Within(mean, S)
  BY <1>2, <1>3, <1>7, Means DEF S
<1>8. LogOf(to) \in LogPacket
  BY <1>1, <1>4, <1>5, <1>7 DEF LogPacket
<1>9. Smooth(LogOf(to))
  BY <1>5, <1>6, <1>7 DEF Smooth
<1>10. OfOneSecond(LogOf(to))
  BY <1>5 DEF OfOneSecond, IInv, KeptOfOneSecond
<1> QED  BY <1>8, <1>9, <1>10

\* The packets under way, with one more, or one less, or as they were.
LEMMA Packets ==
  ASSUME IInv,
         \/ infos' = infos
         \/ infos # <<>> /\ infos' = Tail(infos)
         \/ samples # <<>> /\ to # NoOne /\ infos' = Append(infos, LogOf(to))
  PROVE  /\ infos' \in Seq(LogPacket)
         /\ \A i \in DOMAIN infos' : OfOneSecond(infos'[i]) /\ Smooth(infos'[i])
<1>1. infos \in Seq(LogPacket)
  BY DEF IInv, TypeOK
<1>2. CASE infos' = infos
  BY <1>1, <1>2 DEF IInv
<1>3. CASE infos # <<>> /\ infos' = Tail(infos)
  <2>1. \A i \in DOMAIN infos' : i + 1 \in DOMAIN infos /\ infos'[i] = infos[i + 1]
    BY <1>1, <1>3
  <2>2. infos' \in Seq(LogPacket)
    BY <1>1, <1>3
  <2> QED  BY <2>1, <2>2 DEF IInv
<1>4. CASE samples # <<>> /\ to # NoOne /\ infos' = Append(infos, LogOf(to))
  <2> DEFINE new == LogOf(to)
  <2>1. new \in LogPacket /\ OfOneSecond(new) /\ Smooth(new)
    BY <1>4, NewPacket
  <2> HIDE DEF new
  <2>2. infos' = Append(infos, new)
    BY <1>4 DEF new
  <2>3. infos' \in Seq(LogPacket)
    BY <1>1, <2>1, <2>2
  <2>4. \A i \in DOMAIN infos' :
          infos'[i] = new \/ (i \in DOMAIN infos /\ infos'[i] = infos[i])
    BY <1>1, <2>2
  <2> QED  BY <2>1, <2>3, <2>4 DEF IInv
<1> QED  BY <1>2, <1>3, <1>4

\* The samples that are left when one comes in are of the same second, and so is it.
LEMMA NewSample ==
  ASSUME IInv, BAT3UDPlogUpdate
  PROVE  /\ samples' \in Seq(Sample) /\ Len(samples') <= MaxSamples
         /\ \A j \in DOMAIN samples' : samples'[j].second = now
<1>1. PICK v \in Values :
        samples' = IF HasRoom THEN Append(Kept, [value |-> v, second |-> now]) ELSE Kept
  BY DEF BAT3UDPlogUpdate
<1> DEFINE e == [value |-> v, second |-> now]
<1>2. e \in Sample /\ e.second = now
  BY DEF IInv, TypeOK, Sample
<1>3. /\ Kept \in Seq(Sample) /\ Len(Kept) <= MaxSamples
      /\ \A j \in DOMAIN Kept : Kept[j].second = now
  <2>1. samples \in Seq(Sample) /\ Len(samples) <= MaxSamples /\ MaxSamples \in Nat
    BY InfoAssumption DEF IInv, TypeOK
  <2>2. CASE last_t # now
    BY <2>1, <2>2 DEF Kept
  <2>3. CASE last_t = now
    BY <2>1, <2>3 DEF IInv, KeptOfOneSecond, Kept
  <2> QED  BY <2>2, <2>3
<1> HIDE DEF e
<1>4. HasRoom => /\ Append(Kept, e) \in Seq(Sample) /\ Len(Append(Kept, e)) <= MaxSamples
                 /\ \A j \in DOMAIN Append(Kept, e) : Append(Kept, e)[j].second = now
  <2>1. /\ Append(Kept, e) \in Seq(Sample) /\ Len(Append(Kept, e)) = Len(Kept) + 1
        /\ \A j \in DOMAIN Append(Kept, e) :
             Append(Kept, e)[j] = e \/ (j \in DOMAIN Kept /\ Append(Kept, e)[j] = Kept[j])
    BY <1>2, <1>3
  <2>2. HasRoom => Len(Kept) + 1 <= MaxSamples
    BY <1>3, InfoAssumption DEF HasRoom
  <2> QED  BY <1>2, <1>3, <2>1, <2>2
<1> QED  BY <1>1, <1>3, <1>4 DEF e

\* What is left of a sequence without its last element.
LEMMA FrontOfSeq ==
  ASSUME NEW S, NEW s \in Seq(S), s # <<>>
  PROVE  Front(s) \in Seq(S) /\ Len(Front(s)) <= Len(s)
<1>1. Len(s) - 1 \in Nat /\ Len(s) - 1 <= Len(s)
  OBVIOUS
<1> DEFINE n == Len(s) - 1
           f == [ i \in 1 .. n |-> s[i] ]
<1>2. SubSeq(s, 1, n) = f /\ \A i \in 1 .. n : s[i] \in S
  BY <1>1
<1>3. n \in Nat
  BY <1>1
<1> HIDE DEF n
<1>4. f \in Seq(S) /\ Len(f) = n
  BY <1>2, <1>3
<1> HIDE DEF f
<1> QED  BY <1>1, <1>2, <1>4 DEF Front, n

\* The commands, while the packets and the samples stay as they are.
LEMMA CommandSteps ==
  ASSUME IInv,
         \/ BAT3UDPcommandCheck \/ ServerEnds \/ shutdown1 \/ LoseCommand
         \/ (\E s \in Savers : startup(s))
  PROVE  TypeOK' /\ UNCHANGED <<now, last_t, samples, infos, sends>>
<1>0. cmds \in Seq(Command) /\ Len(cmds) <= MaxQueue /\ MaxQueue \in Nat
  BY InfoAssumption DEF IInv, TypeOK
<1>1. ASSUME NEW cmd \in Command, Arrives(cmd)
      PROVE  cmds' \in Seq(Command) /\ Len(cmds') <= MaxQueue
  <2>1. Append(cmds, cmd) \in Seq(Command) /\ Len(Append(cmds, cmd)) = Len(cmds) + 1
        /\ Len(cmds) \in Nat
    BY <1>0
  <2> QED  BY <1>0, <1>1, <2>1 DEF Arrives
<1> USE InfoAssumption DEF IInv, TypeOK
<1>2. CASE BAT3UDPcommandCheck
  <2>1. cmds' \in Seq(Command) /\ Len(cmds') <= MaxQueue
    <3>1. cmds' = cmds \/ (cmds # <<>> /\ cmds' = Tail(cmds))
      BY ONLY <1>2 DEF BAT3UDPcommandCheck
    <3>2. CASE cmds # <<>>
      <4>1. Tail(cmds) \in Seq(Command) /\ Len(Tail(cmds)) = Len(cmds) - 1
            /\ Len(cmds) \in Nat
        BY ONLY <1>0, <3>2
      <4>2. Len(Tail(cmds)) <= MaxQueue
        BY ONLY <1>0, <4>1
      <4>3. CASE cmds' = cmds
        BY ONLY <1>0, <4>3
      <4>4. CASE cmds' = Tail(cmds)
        BY ONLY <4>1, <4>2, <4>4
      <4> QED  BY ONLY <3>1, <4>3, <4>4
    <3>3. CASE cmds' = cmds
      BY ONLY <1>0, <3>3
    <3> QED  BY ONLY <3>1, <3>2, <3>3
  <2>2. to' \in Savers \cup {NoOne}
    <3>1. CASE cmds = <<>>
      BY <1>2, <3>1 DEF BAT3UDPcommandCheck
    <3>2. CASE cmds # <<>>
      <4>1. Head(cmds) \in Command
        BY <3>2
      <4> QED  BY <1>2, <3>2, <4>1 DEF BAT3UDPcommandCheck, Command
    <3> QED  BY <3>1, <3>2
  <2> QED  BY <1>2, <2>1, <2>2 DEF BAT3UDPcommandCheck
<1>3. CASE ServerEnds
  <2>1. cmds' \in Seq(Command) /\ Len(cmds') <= MaxQueue
    BY <1>3 DEF ServerEnds
  <2> QED  BY <1>3, <2>1 DEF ServerEnds
<1>4. CASE shutdown1
  <2>1. cmds' \in Seq(Command) /\ Len(cmds') <= MaxQueue
    <3>1. [command |-> 2] \in Command
      BY DEF Command
    <3> QED  BY <1>1, <1>4, <3>1 DEF shutdown1
  <2> QED  BY <1>4, <2>1 DEF shutdown1, server
<1>5. CASE LoseCommand
  <2>1. cmds' \in Seq(Command) /\ Len(cmds') <= MaxQueue
    BY <1>0, <1>5, FrontOfSeq DEF LoseCommand
  <2> QED  BY <1>5, <2>1 DEF LoseCommand, server
<1>6. ASSUME NEW s \in Savers, startup(s)
      PROVE  TypeOK' /\ UNCHANGED <<now, last_t, samples, infos, sends>>
  <2>1. cmds' \in Seq(Command) /\ Len(cmds') <= MaxQueue
    BY <1>1, <1>6 DEF startup, Command
  <2> QED  BY <1>6, <2>1 DEF startup, server
<1> QED  BY <1>2, <1>3, <1>4, <1>5, <1>6

(***************************************************************************)
(* The invariant, step by step.                                            *)
(***************************************************************************)
LEMMA Step == IInv /\ [Next]_vars => IInv'
<1> SUFFICES ASSUME IInv, [Next]_vars  PROVE IInv'
  OBVIOUS
<1>1. CASE BAT3UDPlogUpdate
  <2>1. /\ infos' \in Seq(LogPacket)
        /\ \A i \in DOMAIN infos' : OfOneSecond(infos'[i]) /\ Smooth(infos'[i])
    <3>1. \/ infos' = infos
          \/ samples # <<>> /\ to # NoOne /\ infos' = Append(infos, LogOf(to))
      BY <1>1 DEF BAT3UDPlogUpdate
    <3> QED  BY <3>1, Packets
  <2>2. now' = now /\ last_t' = now
    BY <1>1 DEF BAT3UDPlogUpdate, Dated
  <2>3. KeptOfOneSecond' /\ samples' \in Seq(Sample) /\ Len(samples') <= MaxSamples
    BY <1>1, <2>2, NewSample DEF KeptOfOneSecond
  <2>4. sends' \in {0, 1}
    BY <1>1 DEF BAT3UDPlogUpdate, IInv, OncePerSecond
  <2>5. TypeOK'
    BY <1>1, <2>1, <2>2, <2>3, <2>4 DEF BAT3UDPlogUpdate, IInv, TypeOK
  <2> QED  BY <2>1, <2>2, <2>3, <2>4, <2>5 DEF IInv, OncePerSecond
<1>2. CASE BAT3chargeState_Init
  <2>1. samples' = <<>> /\ UNCHANGED <<now, infos, sends>>
    BY <1>2 DEF BAT3chargeState_Init
  <2>2. samples' \in Seq(Sample) /\ Len(samples') <= MaxSamples /\ DOMAIN samples' = {}
    BY <2>1, InfoAssumption
  <2>3. TypeOK'
    BY <1>2, <2>2 DEF BAT3chargeState_Init, IInv, TypeOK
  <2> QED  BY <2>1, <2>2, <2>3 DEF IInv, KeptOfOneSecond, OncePerSecond
<1>3. CASE Tick
  <2>1. UNCHANGED <<last_t, samples, infos>> /\ sends' = 0
    BY <1>3 DEF Tick, server
  <2>2. TypeOK'
    <3>1. \A s \in Savers : quiet[s] + 1 \in 0 .. Patience
      BY <1>3, InfoAssumption DEF Tick, IInv, TypeOK
    <3>2. quiet' \in [Savers -> 0 .. Patience] /\ now' \in Second
      BY <1>3, <3>1 DEF Tick, IInv, TypeOK, Second
    <3> QED  BY <1>3, <2>1, <3>2 DEF Tick, server, IInv, TypeOK
  <2> QED  BY <2>1, <2>2 DEF IInv, KeptOfOneSecond, OncePerSecond
<1>4. CASE LoseInfo \/ \E s \in Savers : Receive(s)
  <2>1. /\ infos # <<>> /\ infos' = Tail(infos)
        /\ UNCHANGED <<now, server, cmds, sends>>
    BY <1>4 DEF LoseInfo, Receive
  <2>2. /\ infos' \in Seq(LogPacket)
        /\ \A i \in DOMAIN infos' : OfOneSecond(infos'[i]) /\ Smooth(infos'[i])
    BY <2>1, Packets
  <2>3. /\ quiet' \in [Savers -> 0 .. Patience] /\ heard' \in Savers \cup {NoOne}
        /\ faults' \in 0 .. MaxFaults
    <3>1. /\ quiet \in [Savers -> 0 .. Patience] /\ heard \in Savers \cup {NoOne}
          /\ faults \in 0 .. MaxFaults /\ 0 \in 0 .. Patience
          /\ MaxFaults \in Nat
      BY InfoAssumption DEF IInv, TypeOK
    <3>2. CASE LoseInfo
      BY <3>1, <3>2 DEF LoseInfo
    <3>3. ASSUME NEW s \in Savers, Receive(s)
          PROVE  /\ quiet' \in [Savers -> 0 .. Patience]
                 /\ heard' \in Savers \cup {NoOne} /\ faults' \in 0 .. MaxFaults
      BY <3>1, <3>3 DEF Receive
    <3> QED  BY <1>4, <3>2, <3>3
  <2>4. TypeOK'
    BY <2>1, <2>2, <2>3 DEF server, IInv, TypeOK
  <2> QED  BY <2>1, <2>2, <2>4 DEF server, IInv, KeptOfOneSecond, OncePerSecond
<1>5. CASE BAT3UDPcommandCheck \/ ServerEnds \/ shutdown1 \/ LoseCommand
           \/ (\E s \in Savers : startup(s))
  <2>1. TypeOK' /\ UNCHANGED <<now, last_t, samples, infos, sends>>
    BY <1>5, CommandSteps
  <2> QED  BY <2>1 DEF IInv, KeptOfOneSecond, OncePerSecond
<1>6. CASE UNCHANGED vars
  BY <1>6 DEF vars, server, IInv, TypeOK, KeptOfOneSecond, OncePerSecond
<1> QED  BY <1>1, <1>2, <1>3, <1>4, <1>5, <1>6 DEF Next

LEMMA Always == Spec => []IInv
<1>1. Init => IInv
  <2> SUFFICES ASSUME Init PROVE IInv
    OBVIOUS
  <2>1. /\ samples \in Seq(Sample) /\ Len(samples) <= MaxSamples
        /\ cmds \in Seq(Command) /\ Len(cmds) <= MaxQueue /\ infos \in Seq(LogPacket)
    BY InfoAssumption DEF Init
  <2> QED
    BY <2>1, InfoAssumption DEF Init, IInv, TypeOK, Second, KeptOfOneSecond, OncePerSecond
<1> QED  BY <1>1, Step, PTL DEF Spec

\* Every packet, mean and command is well formed, however long the server runs.
THEOREM Typing == Spec => []TypeOK
  BY Always, PTL DEF IInv

\* A log packet sums up samples of the second that it is dated with: whoever
\* subscribes, and whenever the server ends and is started again.
THEOREM Logging == Spec => []InfoOfOneSecond
<1>1. IInv => InfoOfOneSecond
  BY DEF IInv, InfoOfOneSecond, OfOneSecond
<1> QED  BY <1>1, Always, PTL

\* There is at most one in a second, also when the subscriber changes.
THEOREM Hertz == Spec => []AtMostOneHertz
<1>1. IInv => AtMostOneHertz
  BY DEF IInv, OncePerSecond, AtMostOneHertz
<1> QED  BY <1>1, Always, PTL

\* Neither mean divides by 0 or leaves the range of the samples, whichever of them
\* smoothAverage leaves out, and however many there are.
THEOREM Smoothing == Spec => []SmoothWithin
<1>1. IInv => SmoothWithin
  BY DEF IInv, Smooth, ValuesOf, SmoothWithin
<1> QED  BY <1>1, Always, PTL

=============================================================================
