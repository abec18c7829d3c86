-------------------------- MODULE PacketGetProofs --------------------------
(***************************************************************************)
(* Theorems about PacketGet, for every size of packet and every number of  *)
(* frames, losses and silences.                                            *)
(***************************************************************************)
EXTENDS PacketGet, FiniteSetTheorems, WellFoundedInduction, TLAPS

-----------------------------------------------------------------------------
(***************************************************************************)
(* Induction, for a set of numbers, and functions defined by recursion.    *)
(***************************************************************************)
LEMMA AllNumbers ==
  ASSUME NEW T \in SUBSET Nat, 0 \in T, \A n \in T : n + 1 \in T
  PROVE  \A n \in Nat : n \in T
<1> DEFINE rest  == Nat \ T
           less == { p \in Nat \X Nat : p[1] < p[2] }
<1> SUFFICES ASSUME rest # {} PROVE FALSE
  OBVIOUS
<1>1. OpToRel(<, Nat) = less
  BY DEF OpToRel
<1>2. IsWellFoundedOn(less, Nat)
  BY <1>1, NatLessThanWellFounded
<1>3. PICK m \in rest : \A k \in rest : ~(<<k, m>> \in less)
  <2>1. rest \subseteq Nat
    OBVIOUS
  <2> HIDE DEF less, rest
  <2> QED  BY <1>2, <2>1, WFMin, Zenon
<1>4. m - 1 \in Nat /\ (m - 1) + 1 = m
  OBVIOUS
<1>5. m - 1 \in rest
  BY <1>4
<1>6. <<m - 1, m>> \in less
  BY <1>4
<1> QED  BY <1>3, <1>5, <1>6

\* A recursive function on 0 .. n has the values that its definition gives it.
Steps(n, S) == [1 .. n -> [S -> S]]

Repeated(g, n, S, base, step) ==
  /\ g \in [0 .. n -> S]
  /\ g[0] = base /\ \A i \in 1 .. n : g[i] = step[i][g[i - 1]]

\* By induction over the sets of lengths for which there is one.
LEMMA Recursion ==
  ASSUME NEW n \in Nat, NEW S, NEW base \in S, NEW step \in Steps(n, S)
  PROVE  \E g : Repeated(g, n, S, base, step)
<1> USE DEF Steps
<1> DEFINE Follows(g, m) == g[0] = base /\ \A i \in 1 .. m : g[i] = step[i][g[i - 1]]
           T == { m \in Nat : m <= n => \E g \in [0 .. m -> S] : Follows(g, m) }
<1>1. 0 \in T
  <2>1. [ i \in 0 .. 0 |-> base ] \in [0 .. 0 -> S] /\ Follows([ i \in 0 .. 0 |-> base ], 0)
    OBVIOUS
  <2> QED  BY <2>1
<1>2. ASSUME NEW m \in T PROVE m + 1 \in T
  <2>1. m \in Nat /\ m + 1 \in Nat
    OBVIOUS
  <2> SUFFICES ASSUME m + 1 <= n PROVE \E g \in [0 .. m + 1 -> S] : Follows(g, m + 1)
    BY <2>1
  <2>2. PICK h \in [0 .. m -> S] : Follows(h, m)
    BY <2>1
  <2> DEFINE g == [ i \in 0 .. m + 1 |-> IF i <= m THEN h[i] ELSE step[m + 1][h[m]] ]
  <2>3. step[m + 1] \in [S -> S] /\ h[m] \in S
    BY <2>1, <2>2
  <2>4. step[m + 1][h[m]] \in S
    BY <2>3
  <2>5. g \in [0 .. m + 1 -> S]
    BY <2>1, <2>2, <2>4
  <2>6. g[0] = base
    BY <2>1, <2>2
  <2>7. ASSUME NEW i \in 1 .. m + 1 PROVE g[i] = step[i][g[i - 1]]
    <3>1. CASE i \in 1 .. m
      <4>1. i \in 0 .. m + 1 /\ i - 1 \in 0 .. m + 1 /\ i <= m /\ i - 1 <= m
        BY <2>1, <3>1
      <4>2. g[i] = h[i] /\ g[i - 1] = h[i - 1]
        BY <4>1
      <4>3. h[i] = step[i][h[i - 1]]
        BY <2>2, <3>1
      <4> HIDE DEF g
      <4> QED  BY <4>2, <4>3
    <3>2. CASE i = m + 1
      BY <2>1, <3>2
    <3> QED  BY <2>1, <3>1, <3>2
  <2> HIDE DEF g
  <2> QED  BY <2>5, <2>6, <2>7
<1>3. n \in T
  <2>1. T \in SUBSET Nat
    OBVIOUS
  <2> HIDE DEF T
  <2> QED  BY <1>1, <1>2, <2>1, AllNumbers
<1> QED  BY <1>3 DEF Repeated

(***************************************************************************)
(* Joining sequences, from the left.                                       *)
(***************************************************************************)
Joined(out, n, seqs) ==
  /\ out[1] = seqs[1]
  /\ \A i \in 2 .. n : out[i] = out[i - 1] \o seqs[i]

Joins(f, seqs) ==
  [ i \in 1 .. Len(seqs) |-> IF i = 1 THEN seqs[i] ELSE f[i - 1] \o seqs[i] ]

\* What FlattenSeq of the community modules is: the last of the joins.
LEMMA FlattenJoins ==
  ASSUME NEW S, NEW seqs \in Seq(Seq(S)), seqs # <<>>
  PROVE  \E out \in [1 .. Len(seqs) -> Seq(S)] :
           Joined(out, Len(seqs), seqs) /\ FlattenSeq(seqs) = out[Len(seqs)]
<1> DEFINE n == Len(seqs)
           out == CHOOSE f : f = Joins(f, seqs)
<1>1. n \in Nat \ {0} /\ \A i \in 1 .. n : seqs[i] \in Seq(S)
  OBVIOUS
<1>2. \A s, t \in Seq(S) : s \o t \in Seq(S)
  OBVIOUS
<1>3. \E f : f = Joins(f, seqs)
  <2> DEFINE step == [ i \in 1 .. n |-> [ x \in Seq(S) |-> IF i = 1 THEN seqs[1] ELSE x \o seqs[i] ] ]
  <2>1. step \in Steps(n, Seq(S))
    <3>1. ASSUME NEW i \in 1 .. n
          PROVE  [ x \in Seq(S) |-> IF i = 1 THEN seqs[1] ELSE x \o seqs[i] ] \in [Seq(S) -> Seq(S)]
      <4>1. seqs[i] \in Seq(S) /\ seqs[1] \in Seq(S)
        BY <1>1
      <4> HIDE DEF n
      <4> QED  BY <1>2, <4>1
    <3> HIDE DEF n
    <3> QED  BY <3>1 DEF Steps
  <2>2. PICK g : Repeated(g, n, Seq(S), <<>>, step)
    <3>1. <<>> \in Seq(S)
      OBVIOUS
    <3> HIDE DEF step, n
    <3> QED  BY <1>1, <2>1, <3>1, Recursion
  <2> DEFINE f == [ i \in 1 .. n |-> g[i] ]
  <2>3. ASSUME NEW i \in 1 .. n
        PROVE  g[i] = IF i = 1 THEN seqs[i] ELSE g[i - 1] \o seqs[i]
    <3>1. i - 1 \in 0 .. n
      BY <1>1
    <3>2. g[i] = step[i][g[i - 1]]
      <4> HIDE DEF step
      <4> QED  BY <2>2 DEF Repeated
    <3>3. /\ step[i] = [ x \in Seq(S) |-> IF i = 1 THEN seqs[1] ELSE x \o seqs[i] ]
          /\ g[i - 1] \in Seq(S)
      BY <2>2, <3>1 DEF Repeated
    <3> QED  BY <3>2, <3>3
  <2>4. ASSUME NEW i \in 1 .. n
        PROVE  f[i] = IF i = 1 THEN seqs[i] ELSE f[i - 1] \o seqs[i]
    <3>1. i # 1 => i - 1 \in 1 .. n
      BY <1>1
    <3> HIDE DEF n
    <3> QED  BY <2>3, <3>1
  <2>5. f = [ i \in 1 .. n |-> IF i = 1 THEN seqs[i] ELSE f[i - 1] \o seqs[i] ]
    <3>1. f = [ i \in 1 .. n |-> f[i] ]
      OBVIOUS
    <3> HIDE DEF f, n
    <3> QED  BY <2>4, <3>1
  <2> HIDE DEF f
  <2> QED  BY <2>5 DEF Joins
<1>4. out = Joins(out, seqs)
  <2> HIDE DEF Joins
  <2> QED  BY <1>3, Zenon
<1>5. FlattenSeq(seqs) = out[n]
  <2>1. n # 0
    BY <1>1
  <2> QED  BY <2>1 DEF FlattenSeq, Joins
<1> HIDE DEF out
<1>6. Joined(out, n, seqs)
  <2>1. ASSUME NEW i \in 1 .. n
        PROVE  out[i] = IF i = 1 THEN seqs[i] ELSE out[i - 1] \o seqs[i]
    <3>1. Joins(out, seqs)[i] = IF i = 1 THEN seqs[i] ELSE out[i - 1] \o seqs[i]
      BY DEF Joins
    <3> QED  BY <1>4, <3>1
  <2>2. 1 \in 1 .. n /\ \A i \in 2 .. n : i \in 1 .. n /\ i # 1
    BY <1>1
  <2> HIDE DEF n
  <2> QED  BY <2>1, <2>2 DEF Joined
<1> DEFINE T == { i \in Nat : i < n => out[i + 1] \in Seq(S) }
<1>7. 0 \in T
  BY <1>1, <1>6 DEF Joined
<1>8. ASSUME NEW i \in T PROVE i + 1 \in T
  <2>1. i \in Nat /\ i + 1 \in Nat
    OBVIOUS
  <2>2. CASE i + 1 < n
    <3>1. (i + 2) - 1 = i + 1 /\ i + 2 \in 2 .. n /\ i < n /\ (i + 1) + 1 = i + 2
      BY <1>1, <2>1, <2>2
    <3>2. out[i + 2] = out[i + 1] \o seqs[i + 2]
      BY <1>6, <3>1 DEF Joined
    <3>3. seqs[i + 2] \in Seq(S) /\ out[i + 1] \in Seq(S)
      BY <1>1, <3>1
    <3>4. out[i + 2] \in Seq(S)
      BY <1>2, <3>2, <3>3
    <3> HIDE DEF n
    <3> QED  BY <2>1, <3>1, <3>4
  <2> HIDE DEF n
  <2> QED  BY <2>1, <2>2
<1>9. \A i \in Nat : i \in T
  <2>1. T \in SUBSET Nat
    OBVIOUS
  <2> HIDE DEF T, n
  <2> QED  BY <1>7, <1>8, <2>1, AllNumbers
<1>10. out \in [1 .. n -> Seq(S)]
  <2>1. ASSUME NEW i \in 1 .. n PROVE out[i] \in Seq(S)
    <3>1. i - 1 \in Nat /\ i - 1 < n /\ (i - 1) + 1 = i
      BY <1>1
    <3>2. i - 1 \in T
      <4> HIDE DEF T
      <4> QED  BY <1>9, <3>1
    <3> HIDE DEF n
    <3> QED  BY <3>1, <3>2
  <2>2. out = [ i \in 1 .. n |-> out[i] ]
    BY <1>4 DEF Joins
  <2> QED  BY <2>1, <2>2
<1> QED  BY <1>5, <1>6, <1>10

Alike(n, s, t) == \A i \in 1 .. n : s[i] = t[i]

\* The joins are determined by the first n sequences.
LEMMA JoinedOnce ==
  ASSUME NEW n \in Nat \ {0}, NEW s, NEW t, Alike(n, s, t),
         NEW f, NEW g, Joined(f, n, s), Joined(g, n, t)
  PROVE  f[n] = g[n]
<1> USE DEF Alike
<1> DEFINE T == { i \in Nat : i < n => f[i + 1] = g[i + 1] }
<1>1. 0 \in T
  BY DEF Joined
<1>2. ASSUME NEW i \in T PROVE i + 1 \in T
  <2>1. i \in Nat /\ i + 1 \in Nat
    OBVIOUS
  <2>2. CASE i + 1 < n
    <3>1. (i + 2) - 1 = i + 1 /\ i + 2 \in 2 .. n /\ i + 2 \in 1 .. n /\ i < n /\ (i + 1) + 1 = i + 2
      BY <2>1, <2>2
    <3>2. f[i + 2] = f[i + 1] \o s[i + 2] /\ g[i + 2] = g[i + 1] \o t[i + 2]
      BY <3>1 DEF Joined
    <3> QED  BY <2>1, <3>1, <3>2
  <2> QED  BY <2>1, <2>2
<1>3. n - 1 \in Nat /\ n - 1 < n /\ (n - 1) + 1 = n
  OBVIOUS
<1>4. n - 1 \in T
  <2>1. T \in SUBSET Nat
    OBVIOUS
  <2> HIDE DEF T
  <2> QED  BY <1>1, <1>2, <1>3, <2>1, AllNumbers
<1> QED  BY <1>3, <1>4

\* What one more sequence adds.
LEMMA FlattenAppend ==
  ASSUME NEW S, NEW seqs \in Seq(Seq(S)), NEW s \in Seq(S)
  PROVE  /\ FlattenSeq(seqs) \in Seq(S)
         /\ FlattenSeq(Append(seqs, s)) = FlattenSeq(seqs) \o s
<1> DEFINE n == Len(seqs)
           more == Append(seqs, s)
<1>1. /\ n \in Nat /\ more \in Seq(Seq(S)) /\ Len(more) = n + 1 /\ more[n + 1] = s
      /\ more # <<>>
  <2>1. n \in Nat /\ more \in Seq(Seq(S)) /\ Len(more) = n + 1 /\ more[n + 1] = s
    OBVIOUS
  <2>2. Len(<<>>) = 0
    OBVIOUS
  <2> HIDE DEF n, more
  <2>3. more # <<>>
    BY <2>1, <2>2
  <2> QED  BY <2>1, <2>3
<1>2. Alike(n, more, seqs)
  BY DEF Alike
<1> HIDE DEF more
<1>3. PICK g \in [1 .. n + 1 -> Seq(S)] : Joined(g, n + 1, more) /\ FlattenSeq(more) = g[n + 1]
  BY <1>1, FlattenJoins
<1>4. CASE seqs = <<>>
  <2>1. n = 0
    BY <1>4
  <2>2. FlattenSeq(seqs) = <<>>
    BY <1>4 DEF FlattenSeq
  <2>3. FlattenSeq(more) = s
    BY <1>1, <1>3, <2>1 DEF Joined
  <2>4. <<>> \o s = s /\ <<>> \in Seq(S)
    OBVIOUS
  <2> QED  BY <2>2, <2>3, <2>4 DEF more
<1>5. CASE seqs # <<>>
  <2>1. PICK f \in [1 .. n -> Seq(S)] : Joined(f, n, seqs) /\ FlattenSeq(seqs) = f[n]
    BY <1>5, FlattenJoins
  <2>2. n \in Nat \ {0} /\ n \in 1 .. n /\ n + 1 \in 2 .. n + 1 /\ (n + 1) - 1 = n
    <3>1. n # 0
      BY <1>5
    <3> HIDE DEF n
    <3> QED  BY <1>1, <3>1
  <2>3. Joined(g, n, more)
    <3>1. \A i \in 2 .. n : i \in 2 .. n + 1
      BY <1>1
    <3> HIDE DEF n
    <3> QED  BY <1>3, <3>1 DEF Joined
  <2>4. g[n] = f[n]
    <3>1. Joined(f, n, seqs)
      BY <2>1
    <3> HIDE DEF n
    <3> QED  BY ONLY <1>2, <2>2, <2>3, <3>1, JoinedOnce, SMTT(30)
  <2>5. g[n + 1] = g[n] \o s
    <3> HIDE DEF n
    <3> QED  BY <1>1, <1>3, <2>2 DEF Joined
  <2> HIDE DEF n
  <2> QED  BY <1>3, <2>1, <2>2, <2>4, <2>5 DEF more
<1> QED  BY <1>4, <1>5

-----------------------------------------------------------------------------
(***************************************************************************)
(* The checksum.  FoldSeq adds up the bytes in some order, by a recursion  *)
(* on the sets of indices: Total, of which any index may be the first.     *)
(***************************************************************************)
First(s) == CHOOSE x \in s : TRUE

Adds(arr, S, it) ==
  [ s \in SUBSET S |-> IF s = {} THEN 0 ELSE arr[First(s)] + it[s \ {First(s)}] ]

Total(arr, S) == CHOOSE it : it = Adds(arr, S, it)

\* The fold is this recursion.
LEMMA SumIsTotal ==
  ASSUME NEW arr
  PROVE  Sum(arr) = Total(arr, DOMAIN arr)[DOMAIN arr]
BY DEF Sum, FoldSeq, FoldFunction, FoldFunctionOnSet, MapThenFoldSet, Total, Adds, First

Numbers(arr, S) == IsFiniteSet(S) /\ \A j \in S : arr[j] \in Int

\* The set that is left is smaller by one.
LEMMA Smaller ==
  ASSUME NEW S, IsFiniteSet(S), NEW s \in SUBSET S
  PROVE  /\ IsFiniteSet(s) /\ Cardinality(s) \in Nat
         /\ Cardinality(s) <= Cardinality(S)
         /\ Cardinality(s) = 0 <=> s = {}
         /\ \A x \in s : /\ s \ {x} \in SUBSET S
                         /\ Cardinality(s \ {x}) = Cardinality(s) - 1
         /\ s # {} => First(s) \in s
<1>1. IsFiniteSet(s) /\ Cardinality(s) <= Cardinality(S)
  BY FS_Subset
<1>2. Cardinality(s) \in Nat /\ (Cardinality(s) = 0 <=> s = {})
  BY <1>1, FS_CardinalityType, FS_EmptySet
<1>3. s # {} => First(s) \in s
  BY DEF First
<1>4. \A x \in s : Cardinality(s \ {x}) = Cardinality(s) - 1
  BY <1>1, FS_RemoveElement
<1> QED  BY <1>1, <1>2, <1>3, <1>4

\* The recursive function exists, by induction over the sizes of the sets.
LEMMA TotalAdds ==
  ASSUME NEW arr, NEW S, Numbers(arr, S)
  PROVE  /\ Total(arr, S) = Adds(arr, S, Total(arr, S))
         /\ Total(arr, S) \in [SUBSET S -> Int]
<1> USE DEF Numbers
<1> DEFINE AddsTo(it, n) == \A s \in SUBSET S : Cardinality(s) <= n => it[s] = Adds(arr, S, it)[s]
           T == { n \in Nat : \E it \in [SUBSET S -> Int] : AddsTo(it, n) }
<1>1. 0 \in T
  <2> DEFINE zero == [ s \in SUBSET S |-> 0 ]
  <2>1. ASSUME NEW s \in SUBSET S, Cardinality(s) <= 0 PROVE s = {}
    <3>1. Cardinality(s) \in Nat /\ (Cardinality(s) = 0 <=> s = {})
      BY Smaller
    <3> QED  BY <2>1, <3>1
  <2>2. AddsTo(zero, 0)
    BY <2>1 DEF Adds
  <2>3. zero \in [SUBSET S -> Int]
    OBVIOUS
  <2> HIDE DEF zero, AddsTo
  <2> QED  BY <2>2, <2>3
<1>2. ASSUME NEW n \in T PROVE n + 1 \in T
  <2>1. PICK it \in [SUBSET S -> Int] : AddsTo(it, n)
    OBVIOUS
  <2> DEFINE next == Adds(arr, S, it)
  <2>2. ASSUME NEW s \in SUBSET S, s # {}
        PROVE  arr[First(s)] \in Int /\ s \ {First(s)} \in SUBSET S
    <3>1. First(s) \in s /\ s \ {First(s)} \in SUBSET S
      BY <2>2, Smaller
    <3> QED  BY <3>1
  <2>3. next \in [SUBSET S -> Int]
    BY <2>2 DEF Adds
  <2>4. ASSUME NEW s \in SUBSET S, Cardinality(s) <= n + 1
        PROVE  next[s] = Adds(arr, S, next)[s]
    <3>1. CASE s = {}
      BY <3>1 DEF Adds
    <3>2. CASE s # {}
      <4> DEFINE r == s \ {First(s)}
      <4>1. r \in SUBSET S /\ Cardinality(r) <= n
        <5>1. Cardinality(r) = Cardinality(s) - 1 /\ Cardinality(s) \in Nat /\ r \in SUBSET S
          BY <3>2, Smaller
        <5>2. n \in Nat
          OBVIOUS
        <5> HIDE DEF r, T
        <5> QED  BY <2>4, <5>1, <5>2
      <4>2. next[r] = it[r]
        BY <2>1, <4>1
      <4>3. next[s] = arr[First(s)] + it[r]
        BY <3>2 DEF Adds
      <4>4. Adds(arr, S, next)[s] = arr[First(s)] + next[r]
        <5> HIDE DEF next
        <5> QED  BY <3>2 DEF Adds
      <4> QED  BY <4>2, <4>3, <4>4
    <3> QED  BY <3>1, <3>2
  <2>5. AddsTo(next, n + 1)
    BY <2>4
  <2>6. n + 1 \in Nat
    OBVIOUS
  <2> HIDE DEF next, AddsTo
  <2> QED  BY <2>3, <2>5, <2>6
<1>3. Cardinality(S) \in T
  <2>1. Cardinality(S) \in Nat
    BY FS_CardinalityType
  <2>2. T \in SUBSET Nat
    OBVIOUS
  <2> HIDE DEF T
  <2> QED  BY <1>1, <1>2, <2>1, <2>2, AllNumbers
<1>4. PICK it \in [SUBSET S -> Int] : AddsTo(it, Cardinality(S))
  BY <1>3
<1>5. \A s \in SUBSET S : it[s] = Adds(arr, S, it)[s]
  BY <1>4, Smaller
<1>6. it = Adds(arr, S, it)
  <2>1. DOMAIN it = SUBSET S /\ DOMAIN Adds(arr, S, it) = SUBSET S
    BY DEF Adds
  <2>2. it = [ s \in SUBSET S |-> it[s] ]
    BY <2>1
  <2>3. Adds(arr, S, it) = [ s \in SUBSET S |-> Adds(arr, S, it)[s] ]
    BY DEF Adds
  <2> QED  BY <1>5, <2>2, <2>3
<1>7. Total(arr, S) = Adds(arr, S, Total(arr, S))
  BY <1>6, Zenon DEF Total
<1> DEFINE tot == Total(arr, S)
           Typed(n) == \A s \in SUBSET S : Cardinality(s) = n => tot[s] \in Int
           U == { n \in Nat : Typed(n) }
<1>8. 0 \in U
  <2>1. ASSUME NEW s \in SUBSET S, Cardinality(s) = 0 PROVE tot[s] \in Int
    <3>1. s = {}
      BY <2>1, Smaller
    <3>2. tot[s] = 0
      BY <1>7, <3>1 DEF Adds
    <3> QED  BY <3>2
  <2> QED  BY <2>1
<1>9. ASSUME NEW n \in U PROVE n + 1 \in U
  <2>1. ASSUME NEW s \in SUBSET S, Cardinality(s) = n + 1 PROVE tot[s] \in Int
    <3> DEFINE x == First(s)
    <3>1. n \in Nat /\ s # {}
      <4>1. n \in Nat /\ (Cardinality(s) = 0 <=> s = {})
        BY Smaller
      <4> QED  BY <2>1, <4>1
    <3>2. x \in s /\ s \ {x} \in SUBSET S /\ Cardinality(s \ {x}) = n
      BY <2>1, <3>1, Smaller
    <3>3. tot[s \ {x}] \in Int /\ arr[x] \in Int
      BY <3>2
    <3>4. tot[s] = arr[x] + tot[s \ {x}]
      BY <1>7, <3>1 DEF Adds
    <3> HIDE DEF tot, x
    <3> QED  BY <3>3, <3>4
  <2>2. n + 1 \in Nat
    OBVIOUS
  <2> HIDE DEF tot
  <2> QED  BY <2>1, <2>2
<1>10. ASSUME NEW s \in SUBSET S PROVE tot[s] \in Int
  <2>1. Cardinality(s) \in Nat
    BY Smaller
  <2>2. U \in SUBSET Nat
    OBVIOUS
  <2>3. Cardinality(s) \in U
    <3> HIDE DEF U
    <3> QED  BY <1>8, <1>9, <2>1, <2>2, AllNumbers
  <2> QED  BY <2>3
<1>11. tot \in [SUBSET S -> Int]
  <2>1. tot = [ s \in SUBSET S |-> Adds(arr, S, tot)[s] ]
    BY <1>7 DEF Adds
  <2>2. \A s \in SUBSET S : Adds(arr, S, tot)[s] = tot[s]
    BY <1>7
  <2> HIDE DEF tot
  <2> QED  BY <1>10, <2>1, <2>2
<1> QED  BY <1>7, <1>11

\* Any element may be taken out.
LEMMA AnyFirst ==
  ASSUME NEW arr, NEW S, Numbers(arr, S)
  PROVE  \A s \in SUBSET S : \A x \in s :
           Total(arr, S)[s] = arr[x] + Total(arr, S)[s \ {x}]
<1> USE DEF Numbers
<1> DEFINE it == Total(arr, S)
           Free(s) == \A x \in s : it[s] = arr[x] + it[s \ {x}]
           T == { n \in Nat : \A s \in SUBSET S : Cardinality(s) = n => Free(s) }
<1>1. it = Adds(arr, S, it) /\ it \in [SUBSET S -> Int]
  BY TotalAdds
<1>2. \A s \in SUBSET S : s # {} => it[s] = arr[First(s)] + it[s \ {First(s)}]
  BY <1>1 DEF Adds
<1> HIDE DEF it
<1>3. 0 \in T
  <2>1. ASSUME NEW s \in SUBSET S, Cardinality(s) = 0 PROVE Free(s)
    BY <2>1, Smaller
  <2> QED  BY <2>1
<1>4. ASSUME NEW n \in T PROVE n + 1 \in T
  <2>1. ASSUME NEW s \in SUBSET S, Cardinality(s) = n + 1, NEW x \in s
        PROVE  it[s] = arr[x] + it[s \ {x}]
    <3> DEFINE y == First(s)
    <3>1. y \in s
      BY Smaller
    <3>2. it[s] = arr[y] + it[s \ {y}]
      BY <1>2, <2>1
    <3>3. CASE x = y
      BY <3>2, <3>3
    <3>4. CASE x # y
      <4> HIDE DEF y
      <4>1. /\ s \ {x} \in SUBSET S /\ s \ {y} \in SUBSET S /\ n \in Nat
            /\ Cardinality(s \ {x}) = n /\ Cardinality(s \ {y}) = n
        BY <2>1, <3>1, Smaller
      <4>2. x \in s \ {y} /\ y \in s \ {x}
        BY <3>1, <3>4
      <4>3. (s \ {y}) \ {x} = (s \ {x}) \ {y}
        OBVIOUS
      <4> DEFINE r == (s \ {x}) \ {y}
      <4>4. it[s \ {y}] = arr[x] + it[r]
        BY <4>1, <4>2, <4>3
      <4>5. it[s \ {x}] = arr[y] + it[r]
        BY <4>1, <4>2
      <4>6. arr[x] \in Int /\ arr[y] \in Int /\ it[r] \in Int
        BY <1>1, <3>1
      <4> HIDE DEF r
      <4>7. \A a, b, c \in Int : a + (b + c) = b + (a + c)
        OBVIOUS
      <4> QED  BY ONLY <3>2, <4>4, <4>5, <4>6, <4>7
    <3> QED  BY <3>3, <3>4
  <2>2. n + 1 \in Nat
    OBVIOUS
  <2> QED  BY <2>1, <2>2
<1>5. ASSUME NEW s \in SUBSET S PROVE Free(s)
  <2>1. Cardinality(s) \in Nat
    BY Smaller
  <2>2. T \in SUBSET Nat
    OBVIOUS
  <2>3. Cardinality(s) \in T
    <3> HIDE DEF T
    <3> QED  BY <1>3, <1>4, <2>1, <2>2, AllNumbers
  <2> HIDE DEF Free
  <2> QED  BY <2>3
<1> QED  BY <1>5 DEF it

Agree(S, arr, brr) == \A j \in S : arr[j] = brr[j]

\* A total does not depend on what lies outside of its set.
LEMMA SameTotals ==
  ASSUME NEW arr, NEW brr, NEW S, NEW R, S \subseteq R,
         Numbers(arr, S), Numbers(brr, R), Agree(S, arr, brr)
  PROVE  Total(arr, S)[S] = Total(brr, R)[S]
<1> USE DEF Numbers, Agree
<1> DEFINE it == Total(arr, S)
           jt == Total(brr, R)
           T == { n \in Nat : \A s \in SUBSET S : Cardinality(s) = n => it[s] = jt[s] }
<1>1. it = Adds(arr, S, it) /\ jt = Adds(brr, R, jt)
  BY TotalAdds
<1>2. /\ it[{}] = 0 /\ jt[{}] = 0
      /\ \A s \in SUBSET S : s # {} =>
           /\ it[s] = arr[First(s)] + it[s \ {First(s)}]
           /\ jt[s] = brr[First(s)] + jt[s \ {First(s)}]
  BY <1>1 DEF Adds
<1> HIDE DEF it, jt
<1>3. 0 \in T
  <2>1. ASSUME NEW s \in SUBSET S, Cardinality(s) = 0 PROVE it[s] = jt[s]
    BY <1>2, <2>1, Smaller
  <2> QED  BY <2>1
<1>4. ASSUME NEW n \in T PROVE n + 1 \in T
  <2>1. ASSUME NEW s \in SUBSET S, Cardinality(s) = n + 1 PROVE it[s] = jt[s]
    <3>1. n \in Nat /\ s # {}
      <4>1. n \in Nat /\ (Cardinality(s) = 0 <=> s = {})
        BY Smaller
      <4> QED  BY <2>1, <4>1
    <3>2. /\ First(s) \in s /\ s \ {First(s)} \in SUBSET S
          /\ Cardinality(s \ {First(s)}) = n
      <4>1. First(s) \in s
        BY <3>1 DEF First
      <4>2. s \ {First(s)} \in SUBSET S /\ Cardinality(s \ {First(s)}) = Cardinality(s) - 1
        BY <4>1, Smaller
      <4> QED  BY <2>1, <3>1, <4>1, <4>2
    <3>3. it[s \ {First(s)}] = jt[s \ {First(s)}] /\ arr[First(s)] = brr[First(s)]
      BY <3>2
    <3> QED  BY <1>2, <3>1, <3>3
  <2>2. n + 1 \in Nat
    OBVIOUS
  <2> QED  BY <2>1, <2>2
<1>5. Cardinality(S) \in Nat
  BY FS_CardinalityType
<1>6. Cardinality(S) \in T
  <2>1. T \in SUBSET Nat
    OBVIOUS
  <2> HIDE DEF T
  <2> QED  BY <1>3, <1>4, <1>5, <2>1, AllNumbers
<1> QED  BY <1>6 DEF it, jt

\* One more byte adds its value, wherever FoldSeq takes it from.
LEMMA SumAppend ==
  ASSUME NEW arr \in Seq(Int), NEW b \in Int
  PROVE  Sum(arr) \in Int /\ Sum(Append(arr, b)) = Sum(arr) + b
<1> DEFINE n == Len(arr)
           brr == Append(arr, b)
           S == 1 .. n
           R == 1 .. n + 1
<1>1. /\ n \in Nat /\ DOMAIN arr = S /\ DOMAIN brr = R
      /\ \A j \in S : brr[j] = arr[j] /\ arr[j] \in Int
      /\ brr[n + 1] = b
  OBVIOUS
<1> HIDE DEF brr, n
<1>2. IsFiniteSet(S) /\ IsFiniteSet(R)
  BY <1>1, FS_Interval
<1>3. n + 1 \in R /\ S = R \ {n + 1} /\ S \subseteq R
  BY <1>1
<1>4. \A j \in R : j \in S \/ j = n + 1
  BY <1>3
<1> HIDE DEF S, R
<1>5. Numbers(arr, S) /\ Numbers(brr, R)
  BY <1>1, <1>2, <1>4 DEF Numbers
<1>6. Total(brr, R)[R] = brr[n + 1] + Total(brr, R)[S]
  BY <1>3, <1>5, AnyFirst
<1>7. Total(arr, S)[S] = Total(brr, R)[S]
  <2>1. Agree(S, arr, brr)
    BY <1>1 DEF Agree
  <2> QED  BY <1>3, <1>5, <2>1, SameTotals
<1>8. Total(arr, S)[S] \in Int
  BY <1>5, TotalAdds
<1>9. Sum(arr) = Total(arr, S)[S] /\ Sum(brr) = Total(brr, R)[R]
  BY <1>1, SumIsTotal
<1>10. \A x \in Int : b + x = x + b
  OBVIOUS
<1> QED  BY <1>1, <1>6, <1>7, <1>8, <1>9, <1>10 DEF brr

\* A packet with its checksum is valid; one whose checksum is taken for its
\* end is not.
LEMMA ChecksumFits ==
  ASSUME NEW data \in Seq(Byte)
  PROVE  /\ Checksum(data) \in Byte
         /\ IsValid(Append(data, Checksum(data)))
         /\ Checksum(data) = ETX => ~IsValid(data)
<1>1. data \in Seq(Int)
  <2>1. \A i \in 1 .. Len(data) : data[i] \in Int
    <3>1. \A i \in 1 .. Len(data) : data[i] \in Byte
      OBVIOUS
    <3>2. \A b \in Byte : b \in Int
      BY DEF Byte
    <3> QED  BY <3>1, <3>2
  <2>2. data = [ i \in 1 .. Len(data) |-> data[i] ] /\ Len(data) \in Nat
    OBVIOUS
  <2> QED  BY <2>1, <2>2
<1>2. \A x \in Int : /\ (255 - x) % 256 \in 0 .. 255
                     /\ (x + ((255 - x) % 256)) % 256 = 255
                     /\ (255 - x) % 256 = 127 => x % 256 # 255
  OBVIOUS
<1>3. Sum(data) \in Int
  BY <1>1, SumAppend
<1>4. Checksum(data) \in Byte
  <2>1. PICK x \in Int : x = Sum(data)
    BY <1>3
  <2>2. (255 - x) % 256 \in Byte
    BY <1>2 DEF Byte
  <2> QED  BY <2>1, <2>2, Zenon DEF Checksum
<1>5. Sum(Append(data, Checksum(data))) = Sum(data) + Checksum(data)
  <2>1. \A b \in Byte : b \in Int
    BY DEF Byte
  <2>2. Checksum(data) \in Int
    BY ONLY <1>4, <2>1
  <2> QED  BY ONLY <1>1, <2>2, SumAppend
<1> QED  BY <1>2, <1>3, <1>4, <1>5 DEF Checksum, IsValid, ETX

-----------------------------------------------------------------------------
(***************************************************************************)
(* Frames.  c[j] is what the first j bytes of frame f are decoded to: one  *)
(* more byte adds itself, or what it is the flip of, or is an escape.      *)
(***************************************************************************)
Decodes(f, c, j) ==
  /\ f[j] \in Byte \ {STX, ETX}
  /\ f[j - 1] = ESC => f[j] # ESC /\ c[j] = Append(c[j - 1], Flip(f[j]))
  /\ f[j - 1] # ESC /\ f[j] = ESC => c[j] = c[j - 1]
  /\ f[j - 1] # ESC /\ f[j] # ESC => c[j] = Append(c[j - 1], f[j])

Begun(f, c, data) ==
  /\ f \in Seq(Byte) /\ f # <<>> /\ f[1] = STX /\ f[Len(f)] # ESC
  /\ c \in Seq(Seq(Byte)) /\ Len(c) = Len(f) /\ c[1] = <<>> /\ c[Len(f)] = data
  /\ \A j \in 2 .. Len(f) : Decodes(f, c, j)

Sent(b) == IF serialEscape(b) THEN <<ESC, Flip(b)>> ELSE <<b>>

\* No byte that needs an escape looks like a mark once it has been flipped.
LEMMA FlipTypes ==
  /\ \A b \in Byte : Flip(b) \in Byte
  /\ \A b \in Byte : serialEscape(b) =>
       Flip(b) \notin {STX, ESC, ETX} /\ Flip(Flip(b)) = b
  /\ \A b \in Byte : ~serialEscape(b) => b \notin {STX, ESC, ETX}
  /\ STX \in Byte /\ ESC \in Byte /\ ETX \in Byte
  /\ STX # ESC /\ STX # ETX /\ ESC # ETX
<1>1. \A b \in Byte : Flip(b) \in Byte
  BY DEF Flip, Byte
<1> QED  BY <1>1 DEF Flip, Byte, serialEscape, STX, ESC, ETX

\* A frame that has begun may go on with a byte as it is,
LEMMA BegunByte ==
  ASSUME NEW f, NEW c, NEW data, Begun(f, c, data),
         NEW b \in Byte, b \notin {STX, ESC, ETX}
  PROVE  \E d : Begun(Append(f, b), d, Append(data, b))
<1> DEFINE n == Len(f)
           g == Append(f, b)
           d == Append(c, Append(data, b))
<1>1. /\ n \in Nat \ {0} /\ Len(g) = n + 1 /\ g \in Seq(Byte)
      /\ \A j \in 1 .. n : g[j] = f[j]
      /\ g[n + 1] = b
  BY DEF Begun
<1>2. /\ data \in Seq(Byte)
      /\ Append(data, b) \in Seq(Byte)
  <2>1. n \in 1 .. Len(c) /\ c \in Seq(Seq(Byte)) /\ c[n] = data
    BY <1>1 DEF Begun
  <2>2. data \in Seq(Byte)
    BY <2>1
  <2> QED  BY <2>2
<1>3. /\ d \in Seq(Seq(Byte)) /\ Len(d) = n + 1
      /\ \A j \in 1 .. n : d[j] = c[j]
      /\ d[n + 1] = Append(data, b)
  BY <1>2 DEF Begun
<1> HIDE DEF g, d
<1>4. ASSUME NEW j \in 2 .. n + 1 PROVE Decodes(g, d, j)
  <2>1. CASE j \in 2 .. n
    <3>1. j \in 1 .. n /\ j - 1 \in 1 .. n
      BY <1>1, <2>1
    <3>2. g[j] = f[j] /\ g[j - 1] = f[j - 1] /\ d[j] = c[j] /\ d[j - 1] = c[j - 1]
      BY <1>1, <1>3, <3>1
    <3>3. Decodes(f, c, j)
      BY <2>1 DEF Begun
    <3> QED  BY <3>2, <3>3 DEF Decodes
  <2>2. CASE j = n + 1
    <3>1. j - 1 = n /\ n \in 1 .. n
      BY <1>1, <2>2
    <3>2. g[j] = b /\ g[j - 1] = f[n] /\ d[j] = Append(data, b) /\ d[j - 1] = data
      BY <1>1, <1>3, <2>2, <3>1 DEF Begun
    <3> QED  BY <3>2 DEF Decodes, Begun
  <2> QED  BY <1>1, <2>1, <2>2
<1>5. g # <<>> /\ g[1] = STX /\ g[Len(g)] # ESC /\ d[1] = <<>>
  <2>1. 1 \in 1 .. n /\ f[1] = STX /\ c[1] = <<>>
    BY <1>1 DEF Begun
  <2>2. g[1] = STX /\ d[1] = <<>> /\ g[Len(g)] = b /\ Len(g) # 0
    BY <1>1, <1>3, <2>1
  <2> QED  BY <2>2
<1>6. Begun(g, d, Append(data, b))
  BY <1>1, <1>3, <1>4, <1>5 DEF Begun
<1> QED  BY <1>6 DEF g

\* or with an escape and a flipped byte.
LEMMA BegunEscape ==
  ASSUME NEW f, NEW c, NEW data, Begun(f, c, data),
         NEW b \in Byte, NEW v \in Byte, v = Flip(b), v \notin {STX, ESC, ETX}, Flip(v) = b
  PROVE  \E d : Begun(Append(Append(f, ESC), v), d, Append(data, b))
<1> DEFINE n == Len(f)
           g == Append(Append(f, ESC), v)
           d == Append(Append(c, data), Append(data, b))
<1>0. ESC \in Byte
  BY FlipTypes
<1>1. /\ n \in Nat \ {0} /\ Len(g) = n + 2 /\ g \in Seq(Byte)
      /\ \A j \in 1 .. n : g[j] = f[j]
      /\ g[n + 1] = ESC /\ g[n + 2] = v
  <2>1. f \in Seq(Byte) /\ f # <<>>
    BY DEF Begun
  <2>2. Append(f, ESC) \in Seq(Byte) /\ Len(Append(f, ESC)) = n + 1 /\ n \in Nat \ {0}
    BY <1>0, <2>1
  <2>3. /\ \A j \in 1 .. n : Append(f, ESC)[j] = f[j]
        /\ Append(f, ESC)[n + 1] = ESC
    BY <1>0, <2>1
  <2> DEFINE h == Append(f, ESC)
  <2> HIDE DEF h
  <2>4. /\ Append(h, v) \in Seq(Byte) /\ Len(Append(h, v)) = n + 2
        /\ \A j \in 1 .. n + 1 : Append(h, v)[j] = h[j]
        /\ Append(h, v)[n + 2] = v
    BY <2>2 DEF h
  <2>5. n + 1 \in 1 .. n + 1 /\ \A j \in 1 .. n : j \in 1 .. n + 1
    BY <2>2
  <2> HIDE DEF n
  <2> QED  BY <2>2, <2>3, <2>4, <2>5 DEF h
<1>2. data \in Seq(Byte) /\ Append(data, b) \in Seq(Byte)
  <2>1. n \in 1 .. Len(c) /\ c \in Seq(Seq(Byte)) /\ c[n] = data
    BY <1>1 DEF Begun
  <2>2. data \in Seq(Byte)
    BY <2>1
  <2> QED  BY <2>2
<1>3. /\ d \in Seq(Seq(Byte)) /\ Len(d) = n + 2
      /\ \A j \in 1 .. n : d[j] = c[j]
      /\ d[n + 1] = data /\ d[n + 2] = Append(data, b)
  <2> DEFINE e == Append(c, data)
             t == Append(data, b)
  <2>1. /\ e \in Seq(Seq(Byte)) /\ Len(e) = n + 1 /\ n \in Nat
        /\ \A j \in 1 .. n : e[j] = c[j]
        /\ e[n + 1] = data
    BY <1>1, <1>2 DEF Begun
  <2> HIDE DEF e, t
  <2>2. t \in Seq(Byte)
    BY <1>2 DEF t
  <2>3. /\ Append(e, t) \in Seq(Seq(Byte)) /\ Len(Append(e, t)) = n + 2
        /\ \A j \in 1 .. n + 1 : Append(e, t)[j] = e[j]
        /\ Append(e, t)[n + 2] = t
    BY <2>1, <2>2
  <2>4. n + 1 \in 1 .. n + 1 /\ \A j \in 1 .. n : j \in 1 .. n + 1
    BY <2>1
  <2> HIDE DEF n
  <2> QED  BY <2>1, <2>3, <2>4 DEF e, t
<1> HIDE DEF g, d
<1>4. ASSUME NEW j \in 2 .. n + 2 PROVE Decodes(g, d, j)
  <2>1. CASE j \in 2 .. n
    <3>1. j \in 1 .. n /\ j - 1 \in 1 .. n
      BY <1>1, <2>1
    <3>2. g[j] = f[j] /\ g[j - 1] = f[j - 1] /\ d[j] = c[j] /\ d[j - 1] = c[j - 1]
      BY <1>1, <1>3, <3>1
    <3>3. Decodes(f, c, j)
      BY <2>1 DEF Begun
    <3> QED  BY <3>2, <3>3 DEF Decodes
  <2>2. CASE j = n + 1
    <3>1. j - 1 = n /\ n \in 1 .. n
      BY <1>1, <2>2
    <3>2. g[j] = ESC /\ g[j - 1] = f[n] /\ d[j] = data /\ d[j - 1] = data
      BY <1>1, <1>3, <2>2, <3>1 DEF Begun
    <3> QED  BY <3>2, FlipTypes DEF Decodes, Begun
  <2>3. CASE j = n + 2
    <3>1. j - 1 = n + 1
      BY <1>1, <2>3
    <3>2. g[j] = v /\ g[j - 1] = ESC /\ d[j] = Append(data, b) /\ d[j - 1] = data
      BY <1>1, <1>3, <2>3, <3>1
    <3> QED  BY <3>2 DEF Decodes
  <2> QED  BY <1>1, <2>1, <2>2, <2>3
<1>5. g # <<>> /\ g[1] = STX /\ g[Len(g)] # ESC /\ d[1] = <<>>
  <2>1. 1 \in 1 .. n /\ f[1] = STX /\ c[1] = <<>>
    BY <1>1 DEF Begun
  <2>2. g[1] = STX /\ d[1] = <<>> /\ g[Len(g)] = v /\ Len(g) # 0
    BY <1>1, <1>3, <2>1
  <2> QED  BY <2>2
<1>6. Begun(g, d, Append(data, b))
  BY <1>1, <1>3, <1>4, <1>5 DEF Begun
<1> QED  BY <1>6 DEF g

\* Escaped handles the bytes one after the other.
LEMMA EscapedAppend ==
  ASSUME NEW data \in Seq(Byte), NEW b \in Byte
  PROVE  /\ Escaped(data) \in Seq(Byte)
         /\ Escaped(Append(data, b)) = Escaped(data) \o Sent(b)
<1> DEFINE Of(q) == [ i \in DOMAIN q |-> Sent(q[i]) ]
<1>1. \A x \in Byte : Sent(x) \in Seq(Byte)
  <2>1. \A x, y \in Byte : <<x>> \in Seq(Byte) /\ <<x, y>> \in Seq(Byte)
    OBVIOUS
  <2> QED  BY <2>1, FlipTypes DEF Sent
<1>2. \A q : Escaped(q) = FlattenSeq(Of(q))
  BY DEF Escaped, Sent
<1>3. Of(data) \in Seq(Seq(Byte))
  <2>1. DOMAIN data = 1 .. Len(data) /\ Len(data) \in Nat
    OBVIOUS
  <2>2. \A i \in 1 .. Len(data) : data[i] \in Byte
    OBVIOUS
  <2>3. \A i \in 1 .. Len(data) : Sent(data[i]) \in Seq(Byte)
    BY <1>1, <2>2
  <2> QED  BY <2>1, <2>3
<1>4. Of(Append(data, b)) = Append(Of(data), Sent(b))
  <2> DEFINE n == Len(data)
             more == Append(data, b)
  <2>1. /\ n \in Nat /\ DOMAIN more = 1 .. n + 1 /\ DOMAIN data = 1 .. n
        /\ \A i \in 1 .. n : more[i] = data[i]
        /\ more[n + 1] = b
    OBVIOUS
  <2>2. /\ DOMAIN Append(Of(data), Sent(b)) = 1 .. n + 1
        /\ \A i \in 1 .. n : Append(Of(data), Sent(b))[i] = Of(data)[i]
        /\ Append(Of(data), Sent(b))[n + 1] = Sent(b)
    <3>1. Len(Of(data)) = n
      BY <1>3, <2>1
    <3> DEFINE q == Of(data)
    <3> HIDE DEF q
    <3>2. q \in Seq(Seq(Byte)) /\ Len(q) = n /\ Sent(b) \in Seq(Byte)
      BY <1>1, <1>3, <3>1 DEF q
    <3>3. /\ DOMAIN Append(q, Sent(b)) = 1 .. Len(q) + 1
          /\ \A i \in 1 .. Len(q) : Append(q, Sent(b))[i] = q[i]
          /\ Append(q, Sent(b))[Len(q) + 1] = Sent(b)
      BY <3>2
    <3> QED  BY <3>2, <3>3 DEF q
  <2> HIDE DEF more, n
  <2>3. \A i \in 1 .. n : Of(data)[i] = Sent(more[i])
    BY <2>1
  <2>4. \A i \in 1 .. n + 1 : Append(Of(data), Sent(b))[i] = Sent(more[i])
    <3>1. \A i \in 1 .. n + 1 : i \in 1 .. n \/ i = n + 1
      BY <2>1
    <3> HIDE DEF Of
    <3> QED  BY <2>1, <2>2, <2>3, <3>1
  <2>5. /\ Append(Of(data), Sent(b)) =
             [ i \in DOMAIN Append(Of(data), Sent(b)) |-> Append(Of(data), Sent(b))[i] ]
    OBVIOUS
  <2>6. Of(more) = [ i \in 1 .. n + 1 |-> Sent(more[i]) ]
    BY <2>1
  <2> HIDE DEF Of
  <2> QED  BY <2>2, <2>4, <2>5, <2>6 DEF more
<1> HIDE DEF Of
<1> QED  BY <1>1, <1>2, <1>3, <1>4, FlattenAppend

\* A start and an escaped packet have begun a frame that holds the packet.
LEMMA BegunData ==
  ASSUME NEW data \in Seq(Byte)
  PROVE  \E c : Begun(<<STX>> \o Escaped(data), c, data)
<1> DEFINE T == { n \in Nat : \A q \in Seq(Byte) :
                    Len(q) = n => \E c : Begun(<<STX>> \o Escaped(q), c, q) }
<1>1. 0 \in T
  <2>1. ASSUME NEW q \in Seq(Byte), Len(q) = 0
        PROVE  \E c : Begun(<<STX>> \o Escaped(q), c, q)
    <3>1. q = <<>>
      BY <2>1
    <3>2. Escaped(q) = <<>>
      BY <3>1 DEF Escaped, FlattenSeq
    <3> DEFINE f == <<STX>>
               c == << <<>> >>
    <3>3. <<STX>> \o <<>> = f
      OBVIOUS
    <3>4. /\ f \in Seq(Byte) /\ f # <<>> /\ Len(f) = 1 /\ f[1] = STX /\ STX # ESC
          /\ c \in Seq(Seq(Byte)) /\ Len(c) = 1 /\ c[1] = <<>>
      BY FlipTypes
    <3>5. \A j \in 2 .. 1 : FALSE
      OBVIOUS
    <3> HIDE DEF f, c
    <3>6. Begun(f, c, q)
      BY <3>1, <3>4, <3>5 DEF Begun
    <3> QED  BY <3>2, <3>3, <3>6
  <2> QED  BY <2>1
<1>2. ASSUME NEW n \in T PROVE n + 1 \in T
  <2>1. ASSUME NEW q \in Seq(Byte), Len(q) = n + 1
        PROVE  \E c : Begun(<<STX>> \o Escaped(q), c, q)
    <3> DEFINE p == SubSeq(q, 1, n)
               b == q[n + 1]
    <3>1. n \in Nat /\ p \in Seq(Byte) /\ Len(p) = n /\ b \in Byte /\ q = Append(p, b)
      <4>1. n \in Nat
        OBVIOUS
      <4>2. p \in Seq(Byte) /\ Len(p) = n /\ b \in Byte
        BY <2>1, <4>1
      <4>3. q = Append(p, b)
        BY <2>1, <4>1
      <4> QED  BY <4>1, <4>2, <4>3
    <3>2. PICK c : Begun(<<STX>> \o Escaped(p), c, p)
      <4> HIDE DEF p
      <4> QED  BY <3>1
    <3> HIDE DEF p, b
    <3> DEFINE f == <<STX>> \o Escaped(p)
    <3>3. Escaped(p) \in Seq(Byte) /\ Escaped(q) = Escaped(p) \o Sent(b)
      BY <3>1, EscapedAppend
    <3>4. /\ <<STX>> \o (Escaped(p) \o <<b>>) = Append(f, b)
          /\ \A v \in Byte :
               <<STX>> \o (Escaped(p) \o <<ESC, v>>) = Append(Append(f, ESC), v)
      <4> DEFINE e == Escaped(p)
      <4> HIDE DEF e
      <4>1. \A t \in Seq(Byte), x \in Byte, y \in Byte :
              t \o <<x>> = Append(t, x) /\ t \o <<x, y>> = Append(Append(t, x), y)
        OBVIOUS
      <4>2. \A r, s \in Seq(Byte), x, y \in Byte :
              /\ r \o (s \o <<x>>) = (r \o s) \o <<x>>
              /\ r \o (s \o <<x, y>>) = (r \o s) \o <<x, y>>
        OBVIOUS
      <4>3. /\ e \in Seq(Byte) /\ <<STX>> \in Seq(Byte) /\ <<STX>> \o e \in Seq(Byte)
            /\ b \in Byte /\ ESC \in Byte
        BY <3>1, <3>3, FlipTypes DEF e
      <4>4. /\ <<STX>> \o (e \o <<b>>) = Append(<<STX>> \o e, b)
            /\ \A v \in Byte :
                 <<STX>> \o (e \o <<ESC, v>>) = Append(Append(<<STX>> \o e, ESC), v)
        <5>1. <<STX>> \o (e \o <<b>>) = Append(<<STX>> \o e, b)
          <6>1. <<STX>> \o (e \o <<b>>) = (<<STX>> \o e) \o <<b>>
            BY ONLY <4>2, <4>3, Zenon
          <6> QED  BY ONLY <4>1, <4>3, <6>1, Zenon
        <5>2. ASSUME NEW v \in Byte
              PROVE  <<STX>> \o (e \o <<ESC, v>>) = Append(Append(<<STX>> \o e, ESC), v)
          <6>1. <<STX>> \o (e \o <<ESC, v>>) = (<<STX>> \o e) \o <<ESC, v>>
            <7>1. \A r, s \in Seq(Byte), x, y \in Byte :
                    r \o (s \o <<x, y>>) = (r \o s) \o <<x, y>>
              BY <4>2, SMTT(30)
            <7> QED  BY ONLY <4>3, <5>2, <7>1, SMTT(30)
          <6> QED  BY ONLY <4>1, <4>3, <5>2, <6>1, Zenon
        <5> QED  BY <5>1, <5>2
      <4> QED  BY <4>4 DEF e
    <3>5. CASE serialEscape(b)
      <4>1. Escaped(q) = Escaped(p) \o <<ESC, Flip(b)>>
        BY <3>3, <3>5 DEF Sent
      <4>2. \E d : Begun(Append(Append(f, ESC), Flip(b)), d, Append(p, b))
        <5> HIDE DEF f
        <5>1. Begun(f, c, p)
          BY <3>2 DEF f
        <5> QED  BY <3>1, <3>5, <5>1, FlipTypes, BegunEscape
      <4>3. Flip(b) \in Byte
        BY <3>1, FlipTypes
      <4> QED  BY <3>1, <3>4, <4>1, <4>2, <4>3
    <3>6. CASE ~serialEscape(b)
      <4>1. Escaped(q) = Escaped(p) \o <<b>>
        BY <3>3, <3>6 DEF Sent
      <4>2. \E d : Begun(Append(f, b), d, Append(p, b))
        <5> HIDE DEF f
        <5>1. Begun(f, c, p)
          BY <3>2 DEF f
        <5> QED  BY <3>1, <3>6, <5>1, FlipTypes, BegunByte
      <4> QED  BY <3>1, <3>4, <4>1, <4>2
    <3> QED  BY <3>5, <3>6
  <2>2. n + 1 \in Nat
    OBVIOUS
  <2> QED  BY <2>1, <2>2
<1>3. Len(data) \in T
  <2>1. T \in SUBSET Nat /\ Len(data) \in Nat
    OBVIOUS
  <2> HIDE DEF T
  <2> QED  BY <1>1, <1>2, <2>1, AllNumbers
<1> QED  BY <1>3

(***************************************************************************)
(* Whole frames.  What is decoded up to place e is data; a frame that the  *)
(* reader can understand is decoded up to the mark that ends it.  In the   *)
(* others the checksum looks like a mark or an escape.                     *)
(***************************************************************************)
Upto(f, c, e, data) ==
  /\ f \in Seq(Byte) /\ f[1] = STX /\ f[Len(f)] = ETX
  /\ c \in Seq(Seq(Byte)) /\ Len(c) = Len(f) /\ c[1] = <<>>
  /\ e \in 2 .. Len(f) - 1 /\ c[e] = data /\ f[e] # ESC
  /\ \A j \in 2 .. e : Decodes(f, c, j)

Clear(f, c, data) ==
  /\ Upto(f, c, Len(f) - 1, Append(data, Checksum(data)))
  /\ c[Len(f)] = c[Len(f) - 1]

Murky(f, c, data) ==
  /\ Upto(f, c, Len(f) - 2, data)
  /\ f[Len(f) - 1] = Checksum(data) /\ Checksum(data) \in {STX, ESC, ETX}
  /\ c[Len(f) - 1] = data
  /\ c[Len(f)] = Append(data, Checksum(data))

\* The checksum and the mark end a frame that can be understood,
LEMMA ClearEnd ==
  ASSUME NEW g, NEW d, NEW data \in Seq(Byte), NEW b \in Byte,
         b = Checksum(data), Begun(g, d, Append(data, b))
  PROVE  \E c : Clear(Append(g, ETX), c, data)
<1> DEFINE n == Len(g)
           more == Append(data, b)
           f == Append(g, ETX)
           c == Append(d, more)
<1>0. ETX \in Byte /\ more \in Seq(Byte) /\ Len(more) # 0
  BY FlipTypes
<1>1. /\ n \in Nat \ {0} /\ Len(f) = n + 1 /\ f \in Seq(Byte)
      /\ \A j \in 1 .. n : f[j] = g[j]
      /\ f[n + 1] = ETX
  BY <1>0 DEF Begun
<1> HIDE DEF more
<1>2. /\ c \in Seq(Seq(Byte)) /\ Len(c) = n + 1
      /\ \A j \in 1 .. n : c[j] = d[j]
      /\ c[n + 1] = more
  BY <1>0, SMTT(30) DEF Begun
<1>3. Begun(g, d, more)
  BY DEF more
<1> HIDE DEF f, c
<1>4. 1 \in 1 .. n /\ n \in 1 .. n /\ n # 1
  <2>1. 1 \in 1 .. n /\ n \in 1 .. n
    BY <1>1
  <2>2. Len(<<>>) = 0 /\ d[1] = <<>> /\ d[n] = more
    BY <1>3 DEF Begun
  <2>3. n # 1
    BY <1>0, <2>2
  <2> QED  BY <2>1, <2>3
<1>5. f[1] = STX /\ c[1] = <<>> /\ c[n] = more /\ f[n] # ESC
  BY <1>1, <1>2, <1>3, <1>4 DEF Begun
<1>6. ASSUME NEW j \in 2 .. n PROVE Decodes(f, c, j)
  <2>1. j \in 1 .. n /\ j - 1 \in 1 .. n
    BY <1>1
  <2>2. f[j] = g[j] /\ f[j - 1] = g[j - 1] /\ c[j] = d[j] /\ c[j - 1] = d[j - 1]
    BY <1>1, <1>2, <2>1
  <2>3. Decodes(g, d, j)
    BY <1>3 DEF Begun
  <2> QED  BY <2>2, <2>3 DEF Decodes
<1>7. n \in 2 .. Len(f) - 1 /\ Len(f) - 1 = n
  <2>1. \A m \in Nat \ {0}, l \in Int : m # 1 /\ l = m + 1 => m \in 2 .. l - 1 /\ l - 1 = m
    OBVIOUS
  <2>2. n \in Nat \ {0} /\ n # 1 /\ Len(f) = n + 1 /\ Len(f) \in Int
    BY <1>1, <1>4
  <2> HIDE DEF n
  <2> QED  BY ONLY <2>1, <2>2
<1>8. Upto(f, c, n, more)
  BY <1>1, <1>2, <1>5, <1>6, <1>7 DEF Upto
<1>9. Clear(f, c, data)
  BY <1>1, <1>2, <1>5, <1>7, <1>8 DEF Clear, more
<1> QED  BY <1>9 DEF f

\* or one whose checksum looks like a mark or an escape.
LEMMA MurkyEnd ==
  ASSUME NEW g, NEW d, NEW data \in Seq(Byte), NEW b \in Byte,
         b = Checksum(data), b \in {STX, ESC, ETX}, Begun(g, d, data)
  PROVE  \E c : Murky(Append(Append(g, b), ETX), c, data)
<1> DEFINE n == Len(g)
           h == Append(g, b)
           f == Append(h, ETX)
           e == Append(d, data)
           more == Append(data, b)
           c == Append(e, more)
<1>0. ETX \in Byte /\ more \in Seq(Byte)
  BY FlipTypes
<1>1. /\ n \in Nat \ {0} /\ Len(f) = n + 2 /\ f \in Seq(Byte)
      /\ \A j \in 1 .. n : f[j] = g[j]
      /\ f[n + 1] = b /\ f[n + 2] = ETX
  <2>1. /\ n \in Nat \ {0} /\ Len(h) = n + 1 /\ h \in Seq(Byte)
        /\ \A j \in 1 .. n : h[j] = g[j]
        /\ h[n + 1] = b
    BY <1>0 DEF Begun
  <2> HIDE DEF h
  <2>2. /\ Len(f) = n + 2 /\ f \in Seq(Byte)
        /\ \A j \in 1 .. n + 1 : f[j] = h[j]
        /\ f[n + 2] = ETX
    BY <1>0, <2>1
  <2>3. n + 1 \in 1 .. n + 1 /\ \A j \in 1 .. n : j \in 1 .. n + 1
    BY <2>1
  <2> HIDE DEF n, f
  <2> QED  BY <2>1, <2>2, <2>3
<1> HIDE DEF more
<1>2. /\ c \in Seq(Seq(Byte)) /\ Len(c) = n + 2
      /\ \A j \in 1 .. n : c[j] = d[j]
      /\ c[n + 1] = data /\ c[n + 2] = more
  <2>1. /\ Len(e) = n + 1 /\ e \in Seq(Seq(Byte)) /\ n \in Nat
        /\ \A j \in 1 .. n : e[j] = d[j]
        /\ e[n + 1] = data
    BY <1>1 DEF Begun
  <2> HIDE DEF e
  <2>2. /\ Len(c) = n + 2 /\ c \in Seq(Seq(Byte))
        /\ \A j \in 1 .. n + 1 : c[j] = e[j]
        /\ c[n + 2] = more
    BY <1>0, <2>1
  <2>3. n + 1 \in 1 .. n + 1 /\ \A j \in 1 .. n : j \in 1 .. n + 1
    BY <2>1
  <2> HIDE DEF n, c
  <2> QED  BY <2>1, <2>2, <2>3
<1> HIDE DEF f, c
<1>3. data # <<>>
  <2>1. ASSUME data = <<>> PROVE FALSE
    <3>1. Sum(<<>>) = 0
      <4>1. <<>> \in Seq(Int) /\ DOMAIN <<>> = {}
        OBVIOUS
      <4>2. Numbers(<<>>, {})
        BY FS_EmptySet DEF Numbers
      <4>3. Total(<<>>, {}) = Adds(<<>>, {}, Total(<<>>, {}))
        BY <4>2, TotalAdds
      <4>4. Adds(<<>>, {}, Total(<<>>, {}))[{}] = 0
        BY DEF Adds
      <4>5. Total(<<>>, {})[{}] = 0
        BY <4>3, <4>4
      <4> QED  BY <4>1, <4>5, SumIsTotal
    <3>2. (255 - 0) % 256 = 255
      OBVIOUS
    <3> QED  BY <2>1, <3>1, <3>2 DEF Checksum, STX, ESC, ETX
  <2> QED  BY <2>1
<1>4. 1 \in 1 .. n /\ n \in 1 .. n /\ n # 1
  <2>1. 1 \in 1 .. n /\ n \in 1 .. n
    BY <1>1
  <2>2. d[1] = <<>> /\ d[n] = data
    BY DEF Begun
  <2>3. n # 1
    BY <1>3, <2>2
  <2> QED  BY <2>1, <2>3
<1>5. f[1] = STX /\ c[1] = <<>> /\ c[n] = data /\ f[n] # ESC
  BY <1>1, <1>2, <1>4 DEF Begun
<1>6. ASSUME NEW j \in 2 .. n PROVE Decodes(f, c, j)
  <2>1. j \in 1 .. n /\ j - 1 \in 1 .. n
    BY <1>1
  <2>2. f[j] = g[j] /\ f[j - 1] = g[j - 1] /\ c[j] = d[j] /\ c[j - 1] = d[j - 1]
    BY <1>1, <1>2, <2>1
  <2>3. Decodes(g, d, j)
    BY DEF Begun
  <2> QED  BY <2>2, <2>3 DEF Decodes
<1>7. n \in 2 .. Len(f) - 1 /\ Len(f) - 2 = n /\ Len(f) - 1 = n + 1
  <2>1. \A m \in Nat \ {0}, l \in Int : m # 1 /\ l = m + 2
          => m \in 2 .. l - 1 /\ l - 2 = m /\ l - 1 = m + 1
    OBVIOUS
  <2>2. n \in Nat \ {0} /\ n # 1 /\ Len(f) = n + 2 /\ Len(f) \in Int
    BY <1>1, <1>4
  <2> HIDE DEF n
  <2> QED  BY ONLY <2>1, <2>2
<1>8. Upto(f, c, n, data)
  BY <1>1, <1>2, <1>5, <1>6, <1>7 DEF Upto
<1>9. Murky(f, c, data)
  BY <1>1, <1>2, <1>5, <1>7, <1>8 DEF Murky, more
<1> QED  BY <1>9 DEF f, h

\* Every frame of serialFrame and of the board has one of these two shapes.
LEMMA Framed ==
  ASSUME NEW data \in Seq(Byte), NEW writer \in {"serialFrame", "board"}
  PROVE  \E c : IF Unclear(data, writer) THEN Murky(Frame(data, writer), c, data)
                                         ELSE Clear(Frame(data, writer), c, data)
<1> DEFINE b == Checksum(data)
<1>0. b \in Byte /\ ETX \in Byte /\ <<STX>> \in Seq(Byte)
  BY ChecksumFits, FlipTypes
<1> HIDE DEF b
<1>1. \A s \in Seq(Byte), x \in Byte, y \in Byte :
        /\ <<STX>> \o s \o <<x>> = Append(<<STX>> \o s, x)
        /\ <<STX>> \o Append(s, y) \o <<x>> = Append(Append(<<STX>> \o s, y), x)
  <2>1. ASSUME NEW s \in Seq(Byte), NEW x \in Byte, NEW y \in Byte
        PROVE  <<STX>> \o Append(s, y) = Append(<<STX>> \o s, y)
    BY <1>0
  <2>2. \A s \in Seq(Byte), x \in Byte : s \o <<x>> = Append(s, x)
    OBVIOUS
  <2>3. \A s \in Seq(Byte), y \in Byte :
          <<STX>> \o s \in Seq(Byte) /\ Append(<<STX>> \o s, y) \in Seq(Byte)
    BY <1>0
  <2> QED  BY <2>1, <2>2, <2>3
<1>2. CASE writer = "serialFrame"
  <2> DEFINE more == Append(data, b)
  <2>1. more \in Seq(Byte)
    BY <1>0
  <2>2. Escaped(more) \in Seq(Byte)
    BY <1>0, EscapedAppend, <2>1
  <2>3. PICK d : Begun(<<STX>> \o Escaped(more), d, more)
    <3> HIDE DEF more
    <3> QED  BY <2>1, BegunData
  <2>4. \E c : Clear(Append(<<STX>> \o Escaped(more), ETX), c, data)
    BY <1>0, <2>3, ClearEnd DEF b
  <2>5. Frame(data, writer) = Append(<<STX>> \o Escaped(more), ETX)
    BY <1>0, <1>1, <1>2, <2>2 DEF Frame, b
  <2>6. ~Unclear(data, writer)
    BY <1>2 DEF Unclear
  <2> QED  BY <2>4, <2>5, <2>6
<1>3. CASE writer = "board"
  <2>1. Escaped(data) \in Seq(Byte)
    BY <1>0, EscapedAppend
  <2>2. PICK d : Begun(<<STX>> \o Escaped(data), d, data)
    BY BegunData
  <2> DEFINE g == <<STX>> \o Escaped(data)
  <2>3. Frame(data, writer) = Append(Append(g, b), ETX)
    BY <1>0, <1>1, <1>3, <2>1 DEF Frame, b
  <2> HIDE DEF g
  <2>4. Begun(g, d, data)
    BY <2>2 DEF g
  <2>5. CASE b \in {STX, ESC, ETX}
    <3>1. \E c : Murky(Append(Append(g, b), ETX), c, data)
      BY <1>0, <2>4, <2>5, MurkyEnd DEF b
    <3>2. Unclear(data, writer)
      BY <1>3, <2>5 DEF Unclear, b
    <3> QED  BY <2>3, <3>1, <3>2
  <2>6. CASE b \notin {STX, ESC, ETX}
    <3>1. PICK e : Begun(Append(g, b), e, Append(data, b))
      BY <1>0, <2>4, <2>6, BegunByte
    <3>2. \E c : Clear(Append(Append(g, b), ETX), c, data)
      BY <1>0, <3>1, ClearEnd DEF b
    <3>3. ~Unclear(data, writer)
      BY <2>6 DEF Unclear, b
    <3> QED  BY <2>3, <3>2, <3>3
  <2> QED  BY <2>5, <2>6
<1> QED  BY <1>2, <1>3

-----------------------------------------------------------------------------
(***************************************************************************)
(* The text: all bytes that were ever sent, by number.  Byte x is byte     *)
(* at[x] of frame of[x], frame k is f[k], and c[k] says what it is decoded *)
(* to.  Number 0 stands before all of them, len + 1 is the next to be sent.*)
(***************************************************************************)
Size(t, k) == IF k = 0 THEN 0 ELSE Len(t.f[k])

Follows(t, x, y) ==
  IF t.at[x] < Size(t, t.of[x])
  THEN t.of[y] = t.of[x] /\ t.at[y] = t.at[x] + 1
  ELSE t.of[y] = t.of[x] + 1 /\ t.at[y] = 1

Sooner(t, x, y) ==
  \/ t.of[x] < t.of[y]
  \/ t.of[x] = t.of[y] /\ t.at[x] < t.at[y]

Ends(t, y, k) == t.of[y] = k /\ t.at[y] = Size(t, k)

Text(t, n) ==
  /\ t.len \in Nat /\ n \in Nat
  /\ t.of \in [0 .. t.len + 1 -> Nat] /\ t.at \in [0 .. t.len + 1 -> Nat]
  /\ t.of[0] = 0 /\ t.at[0] = 0
  /\ t.of[t.len + 1] = n + 1 /\ t.at[t.len + 1] = 1
  /\ \A x \in 1 .. t.len : t.of[x] \in 1 .. n /\ t.at[x] \in 1 .. Size(t, t.of[x])
  /\ \A x \in 0 .. t.len : Follows(t, x, x + 1)
  /\ \A x, y \in 0 .. t.len + 1 : x < y => Sooner(t, x, y)
  /\ \A k \in 1 .. n : \E y \in 1 .. t.len : Ends(t, y, k)

\* What text u has, and text t does not: frame n + 1.
Adds1(t, u, n, f, c) ==
  /\ u.len = t.len + Len(f)
  /\ \A x \in 0 .. t.len + 1 : u.of[x] = t.of[x] /\ u.at[x] = t.at[x]
  /\ \A k \in 1 .. n : u.f[k] = t.f[k] /\ u.c[k] = t.c[k]
  /\ \A j \in 1 .. Len(f) : u.of[t.len + j] = n + 1 /\ u.at[t.len + j] = j
  /\ u.f[n + 1] = f /\ u.c[n + 1] = c

\* A frame that is sent makes the text longer.
LEMMA TextGrows ==
  ASSUME NEW t, NEW n, Text(t, n), NEW f, NEW c, Len(f) \in Nat \ {0}
  PROVE  \E u : Text(u, n + 1) /\ Adds1(t, u, n, f, c)
<1> DEFINE l == t.len
           m == Len(f)
           of == [ x \in 0 .. l + m + 1 |->
                     IF x <= l THEN t.of[x] ELSE IF x <= l + m THEN n + 1 ELSE n + 2 ]
           at == [ x \in 0 .. l + m + 1 |->
                     IF x <= l THEN t.at[x] ELSE IF x <= l + m THEN x - l ELSE 1 ]
           u == [ len |-> l + m, of |-> of, at |-> at,
                  f |-> [ k \in 1 .. n + 1 |-> IF k <= n THEN t.f[k] ELSE f ],
                  c |-> [ k \in 1 .. n + 1 |-> IF k <= n THEN t.c[k] ELSE c ] ]
<1>1. l \in Nat /\ n \in Nat /\ m \in Nat \ {0}
  BY DEF Text
<1>2. /\ u.len = l + m
      /\ u.of \in [0 .. l + m + 1 -> Nat] /\ u.at \in [0 .. l + m + 1 -> Nat]
  <2>1. of \in [0 .. l + m + 1 -> Nat]
    BY <1>1 DEF Text
  <2>2. at \in [0 .. l + m + 1 -> Nat]
    <3>1. \A x \in 0 .. l + m + 1 : ~(x <= l) => x - l \in Nat
      BY <1>1
    <3> QED  BY <1>1, <3>1, SMTT(30) DEF Text
  <2> QED  BY <2>1, <2>2
<1>3. /\ \A x \in 0 .. l : u.of[x] = t.of[x] /\ u.at[x] = t.at[x]
      /\ \A j \in 1 .. m : u.of[l + j] = n + 1 /\ u.at[l + j] = j
      /\ u.of[l + m + 1] = n + 2 /\ u.at[l + m + 1] = 1
  <2>1. u.of = of /\ u.at = at
    OBVIOUS
  <2>2. ASSUME NEW x \in 0 .. l PROVE of[x] = t.of[x] /\ at[x] = t.at[x]
    <3>1. x \in 0 .. l + m + 1 /\ x <= l
      BY <1>1
    <3> QED  BY <3>1
  <2>3. ASSUME NEW j \in 1 .. m PROVE of[l + j] = n + 1 /\ at[l + j] = j
    <3>1. l + j \in 0 .. l + m + 1 /\ ~(l + j <= l) /\ l + j <= l + m /\ (l + j) - l = j
      BY <1>1
    <3> QED  BY <3>1
  <2>4. of[l + m + 1] = n + 2 /\ at[l + m + 1] = 1
    <3>1. l + m + 1 \in 0 .. l + m + 1 /\ ~(l + m + 1 <= l) /\ ~(l + m + 1 <= l + m)
      BY <1>1
    <3> QED  BY <3>1
  <2> HIDE DEF of, at
  <2> QED  BY <2>1, <2>2, <2>3, <2>4
<1>4. /\ \A k \in 1 .. n : u.f[k] = t.f[k] /\ u.c[k] = t.c[k]
      /\ u.f[n + 1] = f /\ u.c[n + 1] = c
  BY <1>1
<1> HIDE DEF u
<1>5. \A x \in 0 .. l + 1 : u.of[x] = t.of[x] /\ u.at[x] = t.at[x]
  <2>1. \A x \in 0 .. l + 1 : x \in 0 .. l \/ x = l + 1
    BY <1>1
  <2>2. 1 \in 1 .. m
    BY <1>1
  <2> QED  BY <1>3, <2>1, <2>2, SMTT(30) DEF Text
<1>6. /\ \A k \in 0 .. n : Size(u, k) = Size(t, k)
      /\ Size(u, n + 1) = m
  BY <1>1, <1>4 DEF Size
<1>7. \A x \in 1 .. l + m + 1 : \/ x \in 1 .. l
                                \/ x - l \in 1 .. m /\ x = l + (x - l)
                                \/ x = l + m + 1
  BY <1>1
<1>8. ASSUME NEW x \in 0 .. l
      PROVE  t.of[x] \in 0 .. n /\ t.at[x] \in Nat
  <2>1. x = 0 \/ x \in 1 .. l
    BY <1>1
  <2>2. CASE x = 0
    BY <1>1, <2>2 DEF Text
  <2>3. CASE x \in 1 .. l
    <3>1. t.of[x] \in 1 .. n /\ t.at \in [0 .. l + 1 -> Nat] /\ x \in 0 .. l + 1
      BY <1>1, <2>3 DEF Text
    <3> QED  BY <1>1, <3>1
  <2> QED  BY <2>1, <2>2, <2>3
<1>9. ASSUME NEW x \in 1 .. u.len
      PROVE  u.of[x] \in 1 .. n + 1 /\ u.at[x] \in 1 .. Size(u, u.of[x])
  <2>1. CASE x \in 1 .. l
    <3>1. t.of[x] \in 1 .. n /\ t.at[x] \in 1 .. Size(t, t.of[x])
      BY <2>1 DEF Text
    <3>2. u.of[x] = t.of[x] /\ u.at[x] = t.at[x]
      BY <1>1, <1>5, <2>1
    <3> QED  BY <1>1, <1>6, <3>1, <3>2
  <2>2. CASE x - l \in 1 .. m /\ x = l + (x - l)
    <3>1. u.of[x] = n + 1 /\ u.at[x] = x - l
      BY <1>3, <2>2
    <3> QED  BY <1>1, <1>6, <2>2, <3>1
  <2> QED  BY <1>1, <1>2, <1>7, <2>1, <2>2
<1>10. ASSUME NEW x \in 0 .. u.len
       PROVE  Follows(u, x, x + 1)
  <2>1. CASE x \in 0 .. l
    <3>1. Follows(t, x, x + 1)
      BY <2>1 DEF Text
    <3>2. x + 1 \in 0 .. l + 1 /\ x \in 0 .. l + 1
      BY <1>1, <2>1
    <3>3. u.of[x] = t.of[x] /\ u.at[x] = t.at[x] /\ u.of[x + 1] = t.of[x + 1] /\ u.at[x + 1] = t.at[x + 1]
      BY <1>5, <3>2
    <3>4. Size(u, u.of[x]) = Size(t, t.of[x])
      BY <1>6, <1>8, <2>1, <3>3
    <3> QED  BY <3>1, <3>3, <3>4 DEF Follows
  <2>2. CASE x - l \in 1 .. m /\ x = l + (x - l)
    <3> DEFINE j == x - l
    <3>1. u.of[x] = n + 1 /\ u.at[x] = j /\ Size(u, u.of[x]) = m
      BY <1>3, <1>6, <2>2
    <3>2. CASE j < m
      <4>1. j + 1 \in 1 .. m /\ x + 1 = l + (j + 1)
        BY <1>1, <2>2, <3>2
      <4>2. u.of[x + 1] = n + 1 /\ u.at[x + 1] = j + 1
        BY <1>3, <4>1
      <4> QED  BY <3>1, <3>2, <4>2 DEF Follows
    <3>3. CASE j = m
      <4>1. x + 1 = l + m + 1
        BY <1>1, <2>2, <3>3
      <4>2. u.of[x + 1] = n + 2 /\ u.at[x + 1] = 1 /\ n + 2 = (n + 1) + 1 /\ ~(j < m)
        BY <1>1, <1>3, <3>3, <4>1
      <4> QED  BY <3>1, <4>2 DEF Follows
    <3> QED  BY <1>1, <2>2, <3>2, <3>3
  <2> QED  BY <1>1, <1>2, <1>7, <2>1, <2>2
<1>11. ASSUME NEW x \in 0 .. u.len + 1, NEW y \in 0 .. u.len + 1, x < y
       PROVE  Sooner(u, x, y)
  <2>1. x \in Nat /\ y \in Nat /\ y \in 1 .. l + m + 1
    BY <1>1, <1>2, <1>11
  <2>2. CASE y \in 1 .. l
    <3>1. x \in 0 .. l + 1 /\ y \in 0 .. l + 1
      BY <1>1, <1>11, <2>1, <2>2
    <3>2. Sooner(t, x, y)
      BY <1>11, <3>1 DEF Text
    <3> QED  BY <1>5, <3>1, <3>2 DEF Sooner
  <2>3. CASE y - l \in 1 .. m /\ y = l + (y - l)
    <3>1. u.of[y] = n + 1 /\ u.at[y] = y - l
      BY <1>3, <2>3
    <3>2. CASE x \in 0 .. l
      <4>1. u.of[x] = t.of[x] /\ t.of[x] \in 0 .. n
        BY <1>3, <1>8, <3>2
      <4> QED  BY <1>1, <3>1, <4>1 DEF Sooner
    <3>3. CASE x \notin 0 .. l
      <4>1. x - l \in 1 .. m /\ x = l + (x - l)
        BY <1>1, <1>11, <2>1, <2>3, <3>3
      <4>2. u.of[x] = n + 1 /\ u.at[x] = x - l
        BY <1>3, <4>1
      <4> QED  BY <1>1, <1>11, <2>1, <3>1, <4>2 DEF Sooner
    <3> QED  BY <3>2, <3>3
  <2>4. CASE y = l + m + 1
    <3>1. u.of[y] = n + 2
      BY <1>3, <2>4
    <3>2. x = 0 \/ x \in 1 .. u.len
      BY <1>1, <1>2, <1>11, <2>1, <2>4
    <3>3. u.of[x] \in 0 .. n + 1
      <4>1. CASE x = 0
        BY <1>1, <1>3, <1>8, <4>1, SMTT(30)
      <4>2. CASE x \in 1 .. u.len
        BY <1>1, <1>9, <4>2
      <4> QED  BY <3>2, <4>1, <4>2
    <3> QED  BY <1>1, <3>1, <3>3 DEF Sooner
  <2> QED  BY <1>7, <2>1, <2>2, <2>3, <2>4
<1>12. ASSUME NEW k \in 1 .. n + 1
       PROVE  \E y \in 1 .. u.len : Ends(u, y, k)
  <2>1. CASE k \in 1 .. n
    <3>1. PICK y \in 1 .. l : Ends(t, y, k)
      BY <2>1 DEF Text
    <3>2. y \in 1 .. u.len /\ y \in 0 .. l + 1 /\ k \in 0 .. n
      BY <1>1, <1>2, <2>1
    <3>3. Ends(u, y, k)
      BY <1>5, <1>6, <3>1, <3>2 DEF Ends
    <3> QED  BY <3>2, <3>3
  <2>2. CASE k = n + 1
    <3>1. l + m \in 1 .. u.len /\ m \in 1 .. m
      BY <1>1, <1>2
    <3>2. Ends(u, l + m, k)
      BY <1>3, <1>6, <2>2, <3>1 DEF Ends
    <3> QED  BY <3>1, <3>2
  <2> QED  BY <1>1, <2>1, <2>2
<1>13. 0 \in 0 .. l /\ t.of[0] = 0 /\ t.at[0] = 0
  BY <1>1 DEF Text
<1>14. Text(u, n + 1)
  <2>1. /\ u.len \in Nat /\ n + 1 \in Nat /\ u.len + 1 = l + m + 1
        /\ u.of[0] = 0 /\ u.at[0] = 0
        /\ u.of[u.len + 1] = (n + 1) + 1 /\ u.at[u.len + 1] = 1
    BY <1>1, <1>2, <1>3, <1>13
  <2> QED  BY <1>2, <1>9, <1>10, <1>11, <1>12, <2>1 DEF Text
<1>15. Adds1(t, u, n, f, c)
  BY <1>2, <1>3, <1>4, <1>5 DEF Adds1
<1> QED  BY <1>14, <1>15

-----------------------------------------------------------------------------
(***************************************************************************)
(* What has not been read: rest[i] is byte p[i] of the text, p[0] is the   *)
(* byte that was read last, and all that lies between two of them is gone. *)
(***************************************************************************)
Shows(t, e, x) == e.frame = t.of[x] /\ e.byte = t.f[t.of[x]][t.at[x]]

Skips(x, y, gone) == x < y /\ \A z \in x + 1 .. y - 1 : z \in gone

Ahead(rest, t, p, gone) ==
  /\ Len(rest) \in Nat /\ t.len \in Nat
  /\ p \in [0 .. Len(rest) + 1 -> 0 .. t.len + 1]
  /\ p[Len(rest) + 1] = t.len + 1
  /\ \A i \in 1 .. Len(rest) : Shows(t, rest[i], p[i])
  /\ \A i \in 0 .. Len(rest) : Skips(p[i], p[i + 1], gone)

\* r is rest without its first m bytes, without byte m, with those of f.
Drops(rest, r, m) ==
  /\ Len(r) = Len(rest) - m
  /\ \A i \in 1 .. Len(rest) - m : r[i] = rest[i + m]

Lacks(rest, r, m) ==
  /\ Len(r) = Len(rest) - 1
  /\ \A i \in 1 .. m - 1 : r[i] = rest[i]
  /\ \A i \in m .. Len(rest) - 1 : r[i] = rest[i + 1]

Gains(rest, r, f, k) ==
  /\ Len(r) = Len(rest) + Len(f)
  /\ \A i \in 1 .. Len(rest) : r[i] = rest[i]
  /\ \A j \in 1 .. Len(f) : r[Len(rest) + j] = [byte |-> f[j], frame |-> k]

\* The first m bytes may be read or thrown away,
LEMMA AheadDrops ==
  ASSUME NEW rest, NEW r, NEW t, NEW p, NEW gone, NEW m \in 0 .. Len(rest),
         Ahead(rest, t, p, gone), Drops(rest, r, m)
  PROVE  \E q : Ahead(r, t, q, gone) /\ q[0] = p[m]
<1> DEFINE n == Len(rest)
           q == [ i \in 0 .. (n - m) + 1 |-> p[i + m] ]
<1>1. n \in Nat /\ m \in Nat /\ n - m \in Nat /\ Len(r) = n - m /\ t.len \in Nat
  BY DEF Ahead, Drops
<1> HIDE DEF n
<1>2. \A i \in 0 .. (n - m) + 1 : i + m \in 0 .. n + 1 /\ q[i] = p[i + m]
  BY <1>1
<1>3. q \in [0 .. (n - m) + 1 -> 0 .. t.len + 1]
  <2>1. \A i \in 0 .. (n - m) + 1 : p[i + m] \in 0 .. t.len + 1
    BY <1>2 DEF Ahead, n
  <2> QED  BY <2>1
<1> HIDE DEF q
<1>4. q[(n - m) + 1] = t.len + 1
  <2>1. (n - m) + 1 \in 0 .. (n - m) + 1 /\ ((n - m) + 1) + m = n + 1
    BY <1>1
  <2> QED  BY <1>2, <2>1 DEF Ahead, n
<1>5. ASSUME NEW i \in 1 .. n - m PROVE Shows(t, r[i], q[i])
  <2>1. i + m \in 1 .. n /\ i \in 0 .. (n - m) + 1
    BY <1>1
  <2>2. Shows(t, rest[i + m], p[i + m]) /\ r[i] = rest[i + m]
    BY <2>1 DEF Ahead, Drops, n
  <2> QED  BY <1>2, <2>1, <2>2
<1>6. ASSUME NEW i \in 0 .. n - m PROVE Skips(q[i], q[i + 1], gone)
  <2>1. /\ i + m \in 0 .. n /\ (i + 1) + m = (i + m) + 1
        /\ i \in 0 .. (n - m) + 1 /\ i + 1 \in 0 .. (n - m) + 1
    BY <1>1
  <2>2. Skips(p[i + m], p[(i + m) + 1], gone)
    BY <2>1 DEF Ahead, n
  <2>3. q[i] = p[i + m] /\ q[i + 1] = p[(i + m) + 1]
    BY <1>2, <2>1
  <2> QED  BY <2>2, <2>3
<1>7. q[0] = p[m]
  <2>1. 0 \in 0 .. (n - m) + 1 /\ 0 + m = m
    BY <1>1
  <2> QED  BY <1>2, <2>1
<1>8. Ahead(r, t, q, gone)
  BY <1>1, <1>3, <1>4, <1>5, <1>6 DEF Ahead
<1> QED  BY <1>7, <1>8

\* one of them may get lost,
LEMMA AheadLacks ==
  ASSUME NEW rest, NEW r, NEW t, NEW p, NEW gone, NEW m \in 1 .. Len(rest),
         Ahead(rest, t, p, gone), Lacks(rest, r, m), NEW x, x = p[m]
  PROVE  \E q : Ahead(r, t, q, gone \cup {x}) /\ q[0] = p[0]
<1> DEFINE n == Len(rest)
           q == [ i \in 0 .. n |-> IF i < m THEN p[i] ELSE p[i + 1] ]
           more == gone \cup {x}
<1>1. n \in Nat \ {0} /\ m \in Nat \ {0} /\ n - 1 \in Nat /\ Len(r) = n - 1 /\ t.len \in Nat /\ m \in 1 .. n
  BY DEF Ahead, Lacks
<1> HIDE DEF n
<1>2. /\ \A i \in 0 .. n : q[i] = IF i < m THEN p[i] ELSE p[i + 1]
      /\ \A i \in 0 .. n + 1 : p[i] \in 0 .. t.len + 1
  BY <1>1 DEF Ahead, n
<1>3. q \in [0 .. n -> 0 .. t.len + 1]
  <2>1. \A i \in 0 .. n : i \in 0 .. n + 1 /\ i + 1 \in 0 .. n + 1
    BY <1>1
  <2> QED  BY <1>2, <2>1
<1> HIDE DEF q, more
<1>4. q[n] = t.len + 1
  <2>1. n \in 0 .. n /\ ~(n < m)
    BY <1>1
  <2> QED  BY <1>2, <2>1 DEF Ahead, n
<1>5. ASSUME NEW i \in 1 .. n - 1 PROVE Shows(t, r[i], q[i])
  <2>1. i \in 0 .. n /\ i \in 1 .. n /\ i + 1 \in 1 .. n
    BY <1>1
  <2>2. CASE i < m
    <3>1. i \in 1 .. m - 1
      BY <1>1, <2>2
    <3>2. r[i] = rest[i] /\ Shows(t, rest[i], p[i]) /\ q[i] = p[i]
      BY <1>2, <2>1, <2>2, <3>1 DEF Ahead, Lacks, n
    <3> QED  BY <3>2
  <2>3. CASE ~(i < m)
    <3>1. i \in m .. n - 1
      BY <1>1, <2>3
    <3>2. r[i] = rest[i + 1] /\ Shows(t, rest[i + 1], p[i + 1]) /\ q[i] = p[i + 1]
      BY <1>2, <2>1, <2>3, <3>1 DEF Ahead, Lacks, n
    <3> QED  BY <3>2
  <2> QED  BY <2>2, <2>3
<1>6. ASSUME NEW i \in 0 .. n PROVE Skips(p[i], p[i + 1], more)
  <2>1. Skips(p[i], p[i + 1], gone)
    BY DEF Ahead, n
  <2> QED  BY <2>1 DEF Skips, more
<1>7. ASSUME NEW i \in 0 .. n - 1 PROVE Skips(q[i], q[i + 1], more)
  <2>1. i \in 0 .. n /\ i + 1 \in 0 .. n
    BY <1>1
  <2>2. CASE i + 1 < m
    <3>1. i < m
      BY <1>1, <2>2
    <3>2. q[i] = p[i] /\ q[i + 1] = p[i + 1]
      BY <1>2, <2>1, <2>2, <3>1
    <3> QED  BY <1>6, <2>1, <3>2
  <2>3. CASE i + 1 = m
    <3>1. i < m /\ ~(i + 1 < m)
      BY <1>1, <2>3
    <3>2. q[i] = p[i] /\ q[i + 1] = p[(i + 1) + 1]
      BY <1>2, <2>1, <3>1
    <3>3. Skips(p[i], p[i + 1], more) /\ Skips(p[i + 1], p[(i + 1) + 1], more)
      BY <1>6, <2>1
    <3>4. p[i + 1] \in more
      BY <2>3 DEF more
    <3>5. p[i] \in Nat /\ p[i + 1] \in Nat /\ p[(i + 1) + 1] \in Nat
      <4>1. i \in 0 .. n + 1 /\ i + 1 \in 0 .. n + 1 /\ (i + 1) + 1 \in 0 .. n + 1
        BY <1>1
      <4> QED  BY <1>1, <1>2, <4>1
    <3>6. \A a, b, c \in Nat : Skips(a, b, more) /\ Skips(b, c, more) /\ b \in more
             => Skips(a, c, more)
      BY DEF Skips
    <3> QED  BY <3>2, <3>3, <3>4, <3>5, <3>6
  <2>4. CASE m < i + 1
    <3>1. ~(i < m) /\ ~(i + 1 < m)
      BY <1>1, <2>4
    <3>2. q[i] = p[i + 1] /\ q[i + 1] = p[(i + 1) + 1]
      BY <1>2, <2>1, <3>1
    <3> QED  BY <1>6, <2>1, <3>2
  <2> QED  BY <1>1, <2>2, <2>3, <2>4
<1>8. q[0] = p[0]
  <2>1. 0 \in 0 .. n /\ 0 < m
    BY <1>1
  <2> QED  BY <1>2, <2>1
<1>9. Ahead(r, t, q, more)
  <2>1. (n - 1) + 1 = n
    BY <1>1
  <2> QED  BY <1>1, <1>3, <1>4, <1>5, <1>7, <2>1 DEF Ahead
<1> QED  BY <1>8, <1>9 DEF more

\* and a frame may be added.
LEMMA AheadGains ==
  ASSUME NEW rest, NEW r, NEW t, NEW u, NEW n, NEW f, NEW c, NEW p, NEW gone,
         Ahead(rest, t, p, gone), Text(t, n), Adds1(t, u, n, f, c),
         Len(f) \in Nat \ {0}, Gains(rest, r, f, n + 1)
  PROVE  \E q : Ahead(r, u, q, gone) /\ q[0] = p[0]
<1> DEFINE s == Len(rest)
           m == Len(f)
           l == t.len
           q == [ i \in 0 .. s + m + 1 |-> IF i <= s THEN p[i] ELSE l + (i - s) ]
<1>1. s \in Nat /\ m \in Nat \ {0} /\ l \in Nat /\ Len(r) = s + m /\ u.len = l + m
  BY DEF Ahead, Gains, Adds1
<1>2. /\ \A i \in 0 .. s + 1 : p[i] \in 0 .. l + 1
      /\ p[s + 1] = l + 1
      /\ \A i \in 0 .. s : Skips(p[i], p[i + 1], gone)
      /\ \A i \in 1 .. s : Shows(t, rest[i], p[i])
  BY DEF Ahead
<1>3. \A i \in 0 .. s + m + 1 : \/ i \in 0 .. s
                                \/ ~(i <= s) /\ i - s \in 1 .. m + 1 /\ i = s + (i - s)
  BY <1>1
<1>4. \A i \in 0 .. s + m + 1 : q[i] = IF i <= s THEN p[i] ELSE l + (i - s)
  OBVIOUS
<1>5. q \in [0 .. s + m + 1 -> 0 .. u.len + 1]
  <2>1. ASSUME NEW i \in 0 .. s + m + 1
        PROVE  (IF i <= s THEN p[i] ELSE l + (i - s)) \in 0 .. u.len + 1
    <3>1. CASE i \in 0 .. s
      <4>1. i <= s /\ p[i] \in 0 .. l + 1
        BY <1>1, <1>2, <3>1
      <4> QED  BY <1>1, <4>1
    <3>2. CASE ~(i <= s) /\ i - s \in 1 .. m + 1
      BY <1>1, <3>2
    <3> QED  BY <1>3, <3>1, <3>2
  <2> QED  BY <2>1
<1> HIDE DEF s, m, l, q
<1>6. /\ \A i \in 0 .. s + 1 : q[i] = p[i]
      /\ \A j \in 1 .. m + 1 : q[s + j] = l + j
  <2>1. \A i \in 0 .. s + 1 : i \in 0 .. s + m + 1 /\ (i <= s \/ (i = s + 1 /\ ~(i <= s) /\ l + (i - s) = l + 1))
    BY <1>1
  <2>2. \A j \in 1 .. m + 1 : s + j \in 0 .. s + m + 1 /\ ~(s + j <= s) /\ (s + j) - s = j
    BY <1>1
  <2> QED  BY <1>2, <1>4, <2>1, <2>2
<1>7. ASSUME NEW i \in 1 .. s + m PROVE Shows(u, r[i], q[i])
  <2>1. CASE i \in 1 .. s
    <3>1. i \in 0 .. s + 1 /\ i \in 0 .. s
      BY <1>1, <2>1
    <3>2. r[i] = rest[i] /\ q[i] = p[i] /\ Shows(t, rest[i], p[i])
      BY <1>2, <1>6, <2>1, <3>1 DEF Gains, s
    <3>3. p[i] \in 1 .. l
      <4>1. 0 \in 0 .. s + 1 /\ i - 1 \in 0 .. s /\ i - 1 \in 0 .. s + 1 /\ (i - 1) + 1 = i /\ i + 1 \in 0 .. s + 1
        BY <1>1, <2>1
      <4>2. p[i - 1] < p[i] /\ p[i] < p[i + 1]
        BY <1>2, <3>1, <4>1 DEF Skips
      <4>3. p[i - 1] \in 0 .. l + 1 /\ p[i] \in 0 .. l + 1 /\ p[i + 1] \in 0 .. l + 1
        BY <1>2, <3>1, <4>1
      <4> QED  BY <1>1, <4>2, <4>3
    <3>4. p[i] \in 0 .. l + 1
      BY <1>1, <3>3
    <3>5. t.of[p[i]] \in 1 .. n
      BY <3>3 DEF Text, l
    <3>6. u.of[p[i]] = t.of[p[i]] /\ u.at[p[i]] = t.at[p[i]] /\ u.f[t.of[p[i]]] = t.f[t.of[p[i]]]
      BY <3>4, <3>5 DEF Adds1, l
    <3> QED  BY <3>2, <3>6 DEF Shows
  <2>2. CASE i \notin 1 .. s
    <3> DEFINE j == i - s
    <3>1. j \in 1 .. m /\ j \in 1 .. m + 1 /\ i = s + j
      BY <1>1, <2>2
    <3> HIDE DEF j
    <3>2. q[i] = l + j /\ r[i] = [byte |-> f[j], frame |-> n + 1]
      BY <1>6, <3>1 DEF Gains, s, m
    <3>3. u.of[l + j] = n + 1 /\ u.at[l + j] = j /\ u.f[n + 1] = f
      BY <3>1 DEF Adds1, l, m
    <3> QED  BY <3>2, <3>3 DEF Shows
  <2> QED  BY <2>1, <2>2
<1>8. ASSUME NEW i \in 0 .. s + m PROVE Skips(q[i], q[i + 1], gone)
  <2>1. CASE i \in 0 .. s
    <3>1. i \in 0 .. s + 1 /\ i + 1 \in 0 .. s + 1
      BY <1>1, <2>1
    <3> QED  BY <1>2, <1>6, <2>1, <3>1
  <2>2. CASE i \notin 0 .. s
    <3> DEFINE j == i - s
    <3>1. j \in 1 .. m + 1 /\ j + 1 \in 1 .. m + 1 /\ i = s + j /\ i + 1 = s + (j + 1)
      BY <1>1, <2>2
    <3> HIDE DEF j
    <3>2. q[i] = l + j /\ q[i + 1] = l + (j + 1)
      BY <1>6, <3>1
    <3>3. \A x \in Nat : Skips(x, x + 1, gone)
      BY DEF Skips
    <3>4. l + j \in Nat /\ l + (j + 1) = (l + j) + 1
      BY <1>1, <3>1
    <3> QED  BY <3>2, <3>3, <3>4
  <2> QED  BY <2>1, <2>2
<1>9. q[s + m + 1] = u.len + 1 /\ q[0] = p[0]
  <2>1. m + 1 \in 1 .. m + 1 /\ s + (m + 1) = s + m + 1 /\ l + (m + 1) = u.len + 1 /\ 0 \in 0 .. s + 1
    BY <1>1
  <2> QED  BY <1>6, <2>1
<1>10. Ahead(r, u, q, gone)
  <2>1. Len(r) \in Nat /\ u.len \in Nat
    BY <1>1
  <2> QED  BY <1>1, <1>5, <1>7, <1>8, <1>9, <2>1 DEF Ahead
<1> QED  BY <1>9, <1>10

-----------------------------------------------------------------------------
(***************************************************************************)
(* Types.  The room for a packet is not among them: that it is enough      *)
(* needs to be known of the line.                                          *)
(***************************************************************************)
Modes == {"hunting", "started", "data", "escape"}

Reader == [mode : Modes, arr : Seq(Byte)]

Blank(r) == r.mode \in {"hunting", "started"} => r.arr = <<>>

Reply == [frame : 1 .. MaxFrames, packet : Seq(Byte)]

Types ==
  /\ wire \in Seq(Tagged) /\ stdio \in Seq(Tagged)
  /\ selecting \in BOOLEAN
  /\ fr \in Reader /\ Blank(fr)
  /\ lost \in 0 .. MaxLoss /\ breaks \in 0 .. MaxBreaks
  /\ sent \in Seq(Payloads) /\ Len(sent) <= MaxFrames
  /\ damaged \subseteq 1 .. MaxFrames
  /\ got \in Seq(Reply)

\* What SubSeq cuts out.
LEMMA Cuts ==
  ASSUME NEW S, NEW s \in Seq(S), NEW i \in 1 .. Len(s) + 1, NEW j \in 0 .. Len(s)
  PROVE  /\ SubSeq(s, i, j) \in Seq(S)
         /\ Len(SubSeq(s, i, j)) = IF i <= j THEN (j - i) + 1 ELSE 0
         /\ \A k \in 1 .. Len(SubSeq(s, i, j)) : SubSeq(s, i, j)[k] = s[(i + k) - 1]
OBVIOUS

\* Where the bytes of two sequences are when they are joined.
LEMMA Joint ==
  ASSUME NEW S, NEW s \in Seq(S), NEW r \in Seq(S)
  PROVE  /\ s \o r \in Seq(S)
         /\ Len(s) \in Nat /\ Len(r) \in Nat
         /\ Len(s \o r) = Len(s) + Len(r)
         /\ \A k \in 1 .. Len(s) : (s \o r)[k] = s[k]
         /\ \A k \in 1 .. Len(r) : (s \o r)[Len(s) + k] = r[k]
OBVIOUS

\* What is in a sequence.
LEMMA Members ==
  ASSUME NEW S, NEW s \in Seq(S)
  PROVE  /\ Len(s) \in Nat /\ DOMAIN s = 1 .. Len(s)
         /\ \A i \in 1 .. Len(s) : s[i] \in S
OBVIOUS

\* A frame is a sequence of bytes, and not empty.
LEMMA FrameTypes ==
  ASSUME NEW data \in Payloads, NEW writer \in Writers
  PROVE  /\ data \in Seq(Byte) /\ Len(data) = DataLen
         /\ writer \in {"serialFrame", "board"}
         /\ Frame(data, writer) \in Seq(Byte)
         /\ Len(Frame(data, writer)) \in Nat \ {0}
<1>1. data \in [1 .. DataLen -> Byte] /\ DataLen \in Nat /\ writer \in {"serialFrame", "board"}
  BY PacketGetAssumption
<1>2. data \in Seq(Byte) /\ Len(data) = DataLen
  BY <1>1
<1>3. PICK c : Murky(Frame(data, writer), c, data) \/ Clear(Frame(data, writer), c, data)
  BY <1>1, <1>2, Framed
<1> DEFINE f == Frame(data, writer)
<1> HIDE DEF f
<1>4. \E e : Upto(f, c, e, data) \/ Upto(f, c, e, Append(data, Checksum(data)))
  BY <1>3 DEF Murky, Clear, f
<1>5. f \in Seq(Byte) /\ \E e : e \in 2 .. Len(f) - 1
  BY <1>4 DEF Upto
<1>6. Len(f) \in Nat \ {0}
  BY <1>5
<1> QED  BY <1>1, <1>2, <1>5, <1>6 DEF f

\* The empty buffer holds nothing.
LEMMA EmptyTypes == Empty \in Reader /\ Blank(Empty)
BY DEF Empty, Reader, Modes, Blank

\* A byte leaves a buffer of this kind, or a whole packet.
LEMMA ReaderTypes ==
  ASSUME fr \in Reader, Blank(fr), NEW b \in Byte
  PROVE  LET r == ByteArray_PacketGet(b)
         IN  /\ r \in [mode : Modes \cup {"packet"}, arr : Seq(Byte)]
             /\ r.mode # "packet" => r \in Reader /\ Blank(r)
<1>1. /\ fr.mode \in Modes /\ fr.arr \in Seq(Byte) /\ Flip(b) \in Byte
      /\ fr = Now(fr.mode, fr.arr) /\ <<>> \in Seq(Byte)
  BY FlipTypes DEF Reader, Now
<1>2. \A x \in Byte : Append(fr.arr, x) \in Seq(Byte)
  BY <1>1
<1>3. /\ \A mode \in Modes, arr \in Seq(Byte) : Now(mode, arr) \in Reader
      /\ \A mode \in Modes \cup {"packet"}, arr \in Seq(Byte) :
           /\ Now(mode, arr) \in [mode : Modes \cup {"packet"}, arr : Seq(Byte)]
           /\ Now(mode, arr).mode = mode /\ Now(mode, arr).arr = arr
  BY DEF Reader, Now
<1>4. /\ "hunting" \in Modes /\ "started" \in Modes /\ "data" \in Modes /\ "escape" \in Modes
      /\ \A mode \in Modes : mode \in Modes \cup {"packet"} /\ mode # "packet"
  BY DEF Modes
<1>12. ASSUME NEW arr \in Seq(Byte), NEW mode \in {"data", "escape"}
       PROVE  LET r == Now(mode, arr)
              IN  /\ r \in [mode : Modes \cup {"packet"}, arr : Seq(Byte)]
                  /\ r.mode # "packet" /\ r \in Reader /\ Blank(r)
  <2>1. mode \in Modes /\ mode \in Modes \cup {"packet"} /\ mode # "packet" /\ mode \notin {"hunting", "started"}
    BY DEF Modes
  <2>2. /\ Now(mode, arr) \in Reader
        /\ Now(mode, arr) \in [mode : Modes \cup {"packet"}, arr : Seq(Byte)]
        /\ Now(mode, arr).mode = mode
    BY <1>3, <2>1
  <2> QED  BY <2>1, <2>2 DEF Blank
<1> DEFINE r == ByteArray_PacketGet(b)
<1>5. \/ r = Now("started", <<>>) \/ r = fr \/ r = Empty
      \/ r = Now("data", Append(fr.arr, Flip(b))) \/ r = Now("data", Append(fr.arr, b))
      \/ r = Now("escape", fr.arr) \/ r = Now("packet", fr.arr)
  BY <1>1 DEF ByteArray_PacketGet, Modes
<1> HIDE DEF r
<1>6. CASE r = Now("packet", fr.arr)
  BY <1>1, <1>3, <1>6 DEF r
<1>7. CASE r = fr
  BY <1>1, <1>3, <1>4, <1>7 DEF r
<1>8. CASE r = Empty
  BY <1>1, <1>3, <1>4, <1>8, EmptyTypes DEF r, Empty, Now
<1>9. CASE r = Now("started", <<>>)
  <2>1. /\ Now("started", <<>>) \in Reader /\ Now("started", <<>>).arr = <<>>
        /\ Now("started", <<>>) \in [mode : Modes \cup {"packet"}, arr : Seq(Byte)]
    BY <1>1, <1>3, <1>4
  <2>2. r \in Reader /\ r.arr = <<>> /\ r \in [mode : Modes \cup {"packet"}, arr : Seq(Byte)]
    BY <1>9, <2>1
  <2> QED  BY <2>2 DEF r, Blank
<1>10. CASE r = Now("data", Append(fr.arr, Flip(b))) \/ r = Now("data", Append(fr.arr, b))
  <2>1. PICK arr \in Seq(Byte) : r = Now("data", arr)
    BY <1>1, <1>2, <1>10
  <2>2. "data" \in {"data", "escape"}
    OBVIOUS
  <2> QED  BY <1>12, <2>1, <2>2 DEF r
<1>11. CASE r = Now("escape", fr.arr)
  <2>1. "escape" \in {"data", "escape"}
    OBVIOUS
  <2> QED  BY <1>1, <1>11, <1>12, <2>1 DEF r
<1> QED  BY <1>5, <1>6, <1>7, <1>8, <1>9, <1>10, <1>11 DEF r

\* Each step keeps the types.
LEMMA TypesStep ==
  ASSUME Types, [Next]_vars
  PROVE  Types'
<1> USE DEF Types
<1>1. /\ MaxFrames \in Nat /\ MaxLoss \in Nat /\ MaxBreaks \in Nat
      /\ <<>> \in Seq(Tagged) /\ DOMAIN wire = 1 .. Len(wire) /\ Len(wire) \in Nat
  BY PacketGetAssumption
<1>2. CASE Send
  <2>1. PICK data \in Payloads, writer \in Writers :
          LET frame == Frame(data, writer)
              n     == Len(sent) + 1
          IN  /\ sent' = Append(sent, data)
              /\ wire' = wire \o [ i \in DOMAIN frame |-> [byte |-> frame[i], frame |-> n] ]
              /\ damaged' = IF Unclear(data, writer) THEN damaged \cup {n} ELSE damaged
    BY <1>2 DEF Send
  <2> DEFINE frame == Frame(data, writer)
             n == Len(sent) + 1
             more == [ i \in DOMAIN frame |-> [byte |-> frame[i], frame |-> n] ]
  <2>2. frame \in Seq(Byte)
    BY FrameTypes
  <2>3. n \in 1 .. MaxFrames
    BY <1>1, <1>2 DEF Send
  <2> HIDE DEF frame, n
  <2>4. more \in Seq(Tagged)
    <3>1. DOMAIN frame = 1 .. Len(frame) /\ Len(frame) \in Nat /\ \A i \in DOMAIN frame : frame[i] \in Byte
      BY <2>2
    <3>2. \A i \in DOMAIN frame : [byte |-> frame[i], frame |-> n] \in Tagged
      BY <2>3, <3>1 DEF Tagged
    <3> QED  BY <3>1, <3>2
  <2> HIDE DEF more
  <2>5. wire' = wire \o more /\ damaged' \subseteq damaged \cup {n} /\ sent' = Append(sent, data)
    BY <2>1 DEF more, n, frame
  <2>6. wire' \in Seq(Tagged)
    BY <2>4, <2>5
  <2>7. sent' \in Seq(Payloads) /\ Len(sent') <= MaxFrames
    <3>1. sent' \in Seq(Payloads) /\ Len(sent') = n
      BY <2>5 DEF n
    <3> QED  BY <1>1, <2>3, <3>1
  <2>8. UNCHANGED <<stdio, selecting, fr, lost, breaks, got>>
    BY <1>2 DEF Send, bounds
  <2>9. damaged' \subseteq 1 .. MaxFrames
    BY <2>3, <2>5
  <2> QED  BY <2>6, <2>7, <2>8, <2>9
<1>3. CASE LoseByte
  <2>1. PICK i \in 1 .. Len(wire) : /\ wire' = RemoveAt(wire, i)
                                    /\ damaged' = damaged \cup {wire[i].frame}
    BY <1>1, <1>3 DEF LoseByte
  <2>2. wire[i].frame \in 1 .. MaxFrames
    <3>1. wire[i] \in Tagged
      BY <1>1, Members
    <3> QED  BY <3>1 DEF Tagged
  <2>3. wire' \in Seq(Tagged)
    <3>1. SubSeq(wire, 1, i - 1) \in Seq(Tagged)
      <4>1. 1 \in 1 .. Len(wire) + 1 /\ i - 1 \in 0 .. Len(wire)
        BY <1>1
      <4> QED  BY <4>1, Cuts
    <3>2. SubSeq(wire, i + 1, Len(wire)) \in Seq(Tagged)
      <4>1. i + 1 \in 1 .. Len(wire) + 1 /\ Len(wire) \in 0 .. Len(wire)
        BY <1>1
      <4> QED  BY <4>1, Cuts
    <3> QED  BY <2>1, <3>1, <3>2, Joint DEF RemoveAt
  <2>4. UNCHANGED <<stdio, selecting, fr, breaks, sent, got>> /\ lost < MaxLoss /\ lost' = lost + 1
    BY <1>3 DEF LoseByte
  <2>5. lost' \in 0 .. MaxLoss
    BY <1>1, <2>4
  <2>6. damaged' \subseteq 1 .. MaxFrames
    BY <2>1, <2>2
  <2> QED  BY <2>3, <2>4, <2>5, <2>6
<1>4. CASE filesWaitRead
  BY <1>4 DEF filesWaitRead, input, bounds, past
<1>5. CASE StdioReads
  <2>1. PICK n \in 1 .. Len(wire) : /\ stdio' = SubSeq(wire, 1, n)
                                    /\ wire' = SubSeq(wire, n + 1, Len(wire))
    BY <1>5 DEF StdioReads
  <2>2. stdio' \in Seq(Tagged)
    <3>1. 1 \in 1 .. Len(wire) + 1 /\ n \in 0 .. Len(wire)
      BY <1>1
    <3> QED  BY <2>1, <3>1, Cuts
  <2>3. wire' \in Seq(Tagged)
    <3>1. n + 1 \in 1 .. Len(wire) + 1 /\ Len(wire) \in 0 .. Len(wire)
      BY <1>1
    <3> QED  BY <2>1, <3>1, Cuts
  <2> QED  BY <1>5, <2>2, <2>3 DEF StdioReads, bounds, past
<1>6. CASE StdioIsEmpty
  BY <1>6 DEF StdioIsEmpty, input, bounds, past
<1>7. CASE fgetc
  <2> DEFINE b == Head(stdio).byte
             r == ByteArray_PacketGet(b)
  <2>1. Tail(stdio) \in Seq(Tagged) /\ Head(stdio) \in Tagged
    BY <1>7 DEF fgetc
  <2>2. b \in Byte /\ Head(stdio).frame \in 1 .. MaxFrames
    BY <2>1 DEF Tagged
  <2>3. /\ r \in [mode : Modes \cup {"packet"}, arr : Seq(Byte)]
        /\ r.mode # "packet" => r \in Reader /\ Blank(r)
    <3> HIDE DEF b
    <3> QED  BY <2>2, ReaderTypes
  <2> HIDE DEF b, r
  <2>4. (fr' = r /\ r.mode # "packet") \/ fr' = Empty
    BY <1>7 DEF fgetc, r, b
  <2>5. fr' \in Reader /\ Blank(fr')
    BY <2>3, <2>4, EmptyTypes
  <2>6. got' \in Seq(Reply)
    <3>1. Front(r.arr) \in Seq(Byte)
      <4>1. r.arr \in Seq(Byte)
        BY <2>3
      <4>2. \A s \in Seq(Byte) : SubSeq(s, 1, Len(s) - 1) \in Seq(Byte)
        OBVIOUS
      <4> QED  BY <4>1, <4>2 DEF Front
    <3> DEFINE g == [frame |-> Head(stdio).frame, packet |-> Front(r.arr)]
    <3>2. g \in Reply
      BY <2>2, <3>1 DEF Reply
    <3>3. got' = got \/ got' = Append(got, g)
      BY <1>7 DEF fgetc, r, b
    <3> HIDE DEF g
    <3>4. \A q \in Seq(Reply), e \in Reply : Append(q, e) \in Seq(Reply)
      OBVIOUS
    <3> QED  BY <3>2, <3>3, <3>4
  <2>7. selecting' \in BOOLEAN
    BY <1>7 DEF fgetc
  <2> QED  BY <1>7, <2>1, <2>5, <2>6, <2>7 DEF fgetc, bounds
<1>8. ASSUME Forget, wire' \in Seq(Tagged), NEW read \in Seq(Tagged),
             damaged' = damaged \cup Cut(read), breaks' \in 0 .. MaxBreaks
      PROVE  Types'
  <2>1. \A i \in DOMAIN read : read[i].frame \in 1 .. MaxFrames
    <3>1. \A i \in DOMAIN read : read[i] \in Tagged
      BY Members
    <3> QED  BY <3>1 DEF Tagged
  <2>2. wire' # <<>> => Head(wire').frame \in 1 .. MaxFrames
    <3>1. \A s \in Seq(Tagged) : s # <<>> => Head(s) \in Tagged
      OBVIOUS
    <3>2. wire' # <<>> => Head(wire') \in Tagged
      BY <1>8, <3>1
    <3> QED  BY <3>2 DEF Tagged
  <2>3. Cut(read) \subseteq 1 .. MaxFrames
    BY <2>1, <2>2 DEF Cut
  <2> QED  BY <1>1, <1>8, <2>3, EmptyTypes DEF Forget
<1>9. CASE GivesUp
  <2>1. breaks' \in 0 .. MaxBreaks
    BY <1>1, <1>9 DEF GivesUp
  <2> QED  BY <1>8, <1>9, <2>1 DEF GivesUp
<1>10. CASE fileFlushInput
  <2>1. PICK n \in 0 .. Len(wire) :
          /\ wire' = SubSeq(wire, n + 1, Len(wire))
          /\ damaged' = damaged \cup Cut(stdio \o SubSeq(wire, 1, n))
    BY <1>10 DEF fileFlushInput
  <2>2. SubSeq(wire, 1, n) \in Seq(Tagged)
    <3>1. 1 \in 1 .. Len(wire) + 1 /\ n \in 0 .. Len(wire)
      BY <1>1
    <3> QED  BY <2>1, <3>1, Cuts
  <2>3. wire' \in Seq(Tagged)
    <3>1. n + 1 \in 1 .. Len(wire) + 1 /\ Len(wire) \in 0 .. Len(wire)
      BY <1>1
    <3> QED  BY <2>1, <3>1, Cuts
  <2>4. breaks' \in 0 .. MaxBreaks
    BY <1>1, <1>10 DEF fileFlushInput
  <2>5. stdio \o SubSeq(wire, 1, n) \in Seq(Tagged)
    BY <2>2, Joint
  <2> QED  BY <1>8, <1>10, <2>1, <2>3, <2>4, <2>5 DEF fileFlushInput
<1>11. CASE UNCHANGED vars
  BY <1>11 DEF vars, input, bounds, past
<1> QED  BY <1>2, <1>3, <1>4, <1>5, <1>6, <1>7, <1>9, <1>10, <1>11 DEF Next

\* The types, but for the size of the buffer, hold whatever is lost.
LEMMA Typed == Spec => []Types
<1>1. Init => Types
  <2>1. /\ <<>> \in Seq(Tagged) /\ <<>> \in Seq(Payloads) /\ <<>> \in Seq(Reply) /\ Len(<<>>) = 0
        /\ 0 \in 0 .. MaxLoss /\ 0 \in 0 .. MaxBreaks /\ 0 <= MaxFrames
    BY PacketGetAssumption
  <2> QED  BY <2>1, EmptyTypes DEF Init, Types
<1> QED  BY <1>1, TypesStep, PTL DEF Spec

-----------------------------------------------------------------------------
(***************************************************************************)
(* What is known of the line: the text t, where in it the unread bytes are *)
(* (p), and which bytes are gone.  Frames that are not in hit have lost    *)
(* nothing and can be understood.                                          *)
(***************************************************************************)
Known(t, p, gone, rest, all, hit, n) ==
  /\ Text(t, Len(all))
  /\ \A k \in 1 .. Len(all) :
       \/ Clear(t.f[k], t.c[k], all[k])
       \/ k \in hit /\ Murky(t.f[k], t.c[k], all[k])
  /\ Ahead(rest, t, p, gone)
  /\ gone \subseteq 1 .. t.len /\ Cardinality(gone) <= n
  /\ \A z \in gone : t.of[z] \in hit

\* The unread bytes are bytes of the text.
LEMMA Places ==
  ASSUME NEW rest, NEW t, NEW p, NEW gone, NEW n, Ahead(rest, t, p, gone), Text(t, n),
         NEW i \in 1 .. Len(rest)
  PROVE  p[i] \in 1 .. t.len /\ t.of[p[i]] \in 1 .. n
<1>1. Len(rest) \in Nat /\ t.len \in Nat
  BY DEF Ahead
<1>2. /\ i - 1 \in 0 .. Len(rest) /\ i \in 0 .. Len(rest) /\ (i - 1) + 1 = i
      /\ i - 1 \in 0 .. Len(rest) + 1 /\ i \in 0 .. Len(rest) + 1 /\ i + 1 \in 0 .. Len(rest) + 1
  BY <1>1
<1>3. p[i - 1] < p[i] /\ p[i] < p[i + 1]
  BY <1>2 DEF Ahead, Skips
<1>4. p[i - 1] \in 0 .. t.len + 1 /\ p[i] \in 0 .. t.len + 1 /\ p[i + 1] \in 0 .. t.len + 1
  BY <1>2 DEF Ahead
<1>5. p[i] \in 1 .. t.len
  BY <1>1, <1>3, <1>4
<1> QED  BY <1>5 DEF Text

\* What lies between the last byte read and byte m of the rest is part of the
\* rest, or gone.
LEMMA Reached ==
  ASSUME NEW rest, NEW t, NEW p, NEW gone, Ahead(rest, t, p, gone),
         NEW m \in 0 .. Len(rest) + 1
  PROVE  /\ p[0] <= p[m]
         /\ \A y \in p[0] + 1 .. p[m] : y \in gone \/ \E i \in 1 .. m : y = p[i]
<1> DEFINE n == Len(rest)
           Upon(i) == /\ p[0] <= p[i]
                      /\ \A y \in p[0] + 1 .. p[i] : y \in gone \/ \E j \in 1 .. i : y = p[j]
           T == { i \in Nat : i <= n + 1 => Upon(i) }
<1>1. /\ n \in Nat /\ t.len \in Nat
      /\ \A i \in 0 .. n + 1 : p[i] \in 0 .. t.len + 1
      /\ \A i \in 0 .. n : Skips(p[i], p[i + 1], gone)
  BY DEF Ahead
<1> HIDE DEF n
<1>2. 0 \in T
  <2>1. 0 \in 0 .. n + 1 /\ p[0] \in Nat
    BY <1>1
  <2> QED  BY <2>1
<1>3. ASSUME NEW i \in T PROVE i + 1 \in T
  <2>1. ASSUME i + 1 <= n + 1 PROVE Upon(i + 1)
    <3>1. /\ i \in 0 .. n /\ i \in 0 .. n + 1 /\ i + 1 \in 0 .. n + 1 /\ i \in Nat
          /\ 0 \in 0 .. n + 1
      BY <1>1, <2>1
    <3>2. Upon(i) /\ Skips(p[i], p[i + 1], gone)
      BY <1>1, <2>1, <3>1
    <3>3. p[0] \in Nat /\ p[i] \in Nat /\ p[i + 1] \in Nat
      BY <1>1, <3>1
    <3>4. p[0] <= p[i + 1]
      BY <3>2, <3>3 DEF Skips
    <3>5. ASSUME NEW y \in p[0] + 1 .. p[i + 1]
          PROVE  y \in gone \/ \E j \in 1 .. i + 1 : y = p[j]
      <4>1. \/ y \in p[0] + 1 .. p[i] \/ y \in p[i] + 1 .. p[i + 1] - 1 \/ y = p[i + 1]
        BY <3>2, <3>3
      <4>2. i + 1 \in 1 .. i + 1 /\ \A j \in 1 .. i : j \in 1 .. i + 1
        BY <3>1
      <4> QED  BY <3>2, <4>1, <4>2 DEF Skips
    <3> QED  BY <3>4, <3>5
  <2> QED  BY <2>1
<1>4. m \in T
  <2>1. T \in SUBSET Nat /\ m \in Nat
    BY <1>1
  <2> HIDE DEF T
  <2> QED  BY <1>2, <1>3, <2>1, AllNumbers
<1>5. m <= n + 1
  BY <1>1 DEF n
<1> QED  BY <1>4, <1>5

\* Bytes that are read or thrown away are no longer ahead.
LEMMA KnownDrops ==
  ASSUME NEW t, NEW p, NEW gone, NEW rest, NEW all, NEW hit, NEW n,
         Known(t, p, gone, rest, all, hit, n),
         NEW r, NEW m \in 0 .. Len(rest), Drops(rest, r, m), NEW hit2, hit \subseteq hit2
  PROVE  \E q : Known(t, q, gone, r, all, hit2, n) /\ q[0] = p[m]
<1>1. PICK q : Ahead(r, t, q, gone) /\ q[0] = p[m]
  BY AheadDrops DEF Known
<1>2. Known(t, q, gone, r, all, hit2, n)
  BY <1>1 DEF Known
<1> QED  BY <1>1, <1>2

Loss(t, p, gone, rest, all, hit, n, r, m, hit2, n2) ==
  /\ n \in Nat /\ Known(t, p, gone, rest, all, hit, n)
  /\ m \in 1 .. Len(rest) /\ Lacks(rest, r, m)
  /\ hit2 = hit \cup {rest[m].frame} /\ n2 = n + 1

\* A byte that gets lost is one more that is gone, and its frame is hit.
LEMMA KnownLacks ==
  ASSUME NEW t, NEW p, NEW gone, NEW rest, NEW all, NEW hit, NEW n,
         NEW r, NEW m, NEW hit2, NEW n2,
         Loss(t, p, gone, rest, all, hit, n, r, m, hit2, n2)
  PROVE  \E q, g : /\ Known(t, q, g, r, all, hit2, n2)
                   /\ q[0] = p[0] /\ gone \subseteq g
<1> USE DEF Loss
<1> DEFINE z == p[m]
<1>1. PICK q : Ahead(r, t, q, gone \cup {z}) /\ q[0] = p[0]
  <2>1. Ahead(rest, t, p, gone) /\ z = p[m]
    BY DEF Known
  <2>2. m \in 1 .. Len(rest) /\ Lacks(rest, r, m)
    OBVIOUS
  <2> HIDE DEF z
  <2> QED  BY <2>1, <2>2, AheadLacks
<1>2. z \in 1 .. t.len
  BY Places DEF Known
<1>3. t.of[z] = rest[m].frame
  BY DEF Known, Ahead, Shows
<1>4. gone \cup {z} \subseteq 1 .. t.len /\ Cardinality(gone \cup {z}) <= n + 1
  <2>1. IsFiniteSet(gone)
    <3>1. t.len \in Nat /\ gone \subseteq 1 .. t.len
      BY DEF Known, Ahead
    <3>2. t.len \in Int /\ 1 \in Int
      BY <3>1
    <3>3. IsFiniteSet(1 .. t.len)
      BY <3>2, FS_Interval
    <3> QED  BY <3>1, <3>3, FS_Subset
  <2>2. /\ Cardinality(gone) \in Nat
        /\ Cardinality(gone \cup {z}) = Cardinality(gone) \/ Cardinality(gone \cup {z}) = Cardinality(gone) + 1
    BY <2>1, FS_CardinalityType, FS_AddElement
  <2>3. Cardinality(gone) <= n /\ gone \subseteq 1 .. t.len
    BY DEF Known
  <2>4. gone \cup {z} \subseteq 1 .. t.len
    BY <1>2, <2>3
  <2>5. \A a, b \in Nat : a <= b => a <= b + 1 /\ a + 1 <= b + 1
    OBVIOUS
  <2> HIDE DEF z
  <2>6. Cardinality(gone \cup {z}) <= n + 1
    BY ONLY <2>2, <2>3, <2>5, n \in Nat
  <2> QED  BY <2>4, <2>6
<1>5. \A y \in gone \cup {z} : t.of[y] \in hit \cup {rest[m].frame}
  BY <1>3 DEF Known
<1> HIDE DEF z
<1>6. Known(t, q, gone \cup {z}, r, all, hit2, n2)
  BY <1>1, <1>4, <1>5 DEF Known
<1> QED  BY <1>1, <1>6

Gain(t, p, gone, rest, all, hit, n, r, f, c, data, S, more, l1, hit2) ==
  /\ Known(t, p, gone, rest, all, hit, n)
  /\ Len(f) \in Nat \ {0}
  /\ all \in Seq(S) /\ data \in S
  /\ more = Append(all, data) /\ l1 = Len(all) + 1
  /\ Gains(rest, r, f, l1)
  /\ hit \subseteq hit2
  /\ Clear(f, c, data) \/ (l1 \in hit2 /\ Murky(f, c, data))

\* A frame that is sent continues the text.
LEMMA KnownGains ==
  ASSUME NEW t, NEW p, NEW gone, NEW rest, NEW all, NEW hit, NEW n,
         NEW r, NEW f, NEW c, NEW data, NEW S, NEW more, NEW l1, NEW hit2,
         Gain(t, p, gone, rest, all, hit, n, r, f, c, data, S, more, l1, hit2)
  PROVE  \E u, q : /\ Known(u, q, gone, r, more, hit2, n)
                   /\ Adds1(t, u, Len(all), f, c)
                   /\ q[0] = p[0]
<1> USE DEF Gain
<1> DEFINE l == Len(all)
<1>1. /\ l \in Nat /\ Len(more) = l + 1
      /\ \A k \in 1 .. l : more[k] = all[k]
      /\ more[l + 1] = data
  OBVIOUS
<1>0. l1 = l + 1
  OBVIOUS
<1> HIDE DEF l
<1>2. Text(t, l) /\ Ahead(rest, t, p, gone)
  BY DEF Known, l
<1>3. PICK u : Text(u, l + 1) /\ Adds1(t, u, l, f, c)
  BY <1>2, TextGrows
<1>4. PICK q : Ahead(r, u, q, gone) /\ q[0] = p[0]
  <2>1. Gains(rest, r, f, l + 1)
    BY <1>0
  <2>2. Ahead(rest, t, p, gone) /\ Text(t, l) /\ Adds1(t, u, l, f, c)
    BY <1>2, <1>3
  <2>3. Len(f) \in Nat \ {0}
    OBVIOUS
  <2> QED  BY ONLY <2>1, <2>2, <2>3, AheadGains, SMT
<1>5. ASSUME NEW k \in 1 .. l + 1
      PROVE  Clear(u.f[k], u.c[k], more[k]) \/ (k \in hit2 /\ Murky(u.f[k], u.c[k], more[k]))
  <2>1. CASE k \in 1 .. l
    <3>1. u.f[k] = t.f[k] /\ u.c[k] = t.c[k] /\ more[k] = all[k]
      BY <1>1, <1>3, <2>1 DEF Adds1
    <3> QED  BY <2>1, <3>1 DEF Known, l
  <2>2. CASE k = l + 1
    <3>1. u.f[k] = f /\ u.c[k] = c /\ more[k] = data
      BY <1>1, <1>3, <2>2 DEF Adds1
    <3> QED  BY <1>0, <2>2, <3>1
  <2> QED  BY <1>1, <2>1, <2>2
<1>6. gone \subseteq 1 .. u.len /\ \A z \in gone : u.of[z] \in hit2
  <2>1. t.len \in Nat /\ u.len = t.len + Len(f)
    BY <1>2, <1>3 DEF Text, Adds1
  <2>2. \A z \in 1 .. t.len : z \in 1 .. u.len /\ z \in 0 .. t.len + 1
    BY <2>1
  <2>3. \A z \in gone : z \in 1 .. t.len /\ t.of[z] \in hit
    BY DEF Known
  <2>4. \A z \in gone : u.of[z] = t.of[z]
    BY <1>3, <2>2, <2>3 DEF Adds1
  <2> QED  BY <2>2, <2>3, <2>4
<1>7. Known(u, q, gone, r, more, hit2, n)
  BY <1>1, <1>3, <1>4, <1>5, <1>6 DEF Known
<1> QED  BY <1>3, <1>4, <1>7 DEF l

-----------------------------------------------------------------------------
(***************************************************************************)
(* What each step does to the line.                                        *)
(***************************************************************************)
unread == stdio \o wire

Track(t, p, gone) == Known(t, p, gone, unread, sent, damaged, lost)

\* serialFramedSend: one more frame is under way.
LEMMA Sends ==
  ASSUME Types, Send, NEW t, NEW p, NEW gone, Track(t, p, gone)
  PROVE  \E u, q, f, c : /\ Track(u, q, gone)'
                         /\ Adds1(t, u, Len(sent), f, c) /\ Len(f) \in Nat
                         /\ q[0] = p[0]
<1>1. PICK data \in Payloads, writer \in Writers :
        LET frame == Frame(data, writer)
            n     == Len(sent) + 1
        IN  /\ sent' = Append(sent, data)
            /\ wire' = wire \o [ i \in DOMAIN frame |-> [byte |-> frame[i], frame |-> n] ]
            /\ damaged' = IF Unclear(data, writer) THEN damaged \cup {n} ELSE damaged
  BY DEF Send
<1> DEFINE f == Frame(data, writer)
           n == Len(sent) + 1
           more == [ i \in DOMAIN f |-> [byte |-> f[i], frame |-> n] ]
<1>2. /\ f \in Seq(Byte) /\ Len(f) \in Nat \ {0} /\ data \in Seq(Byte)
      /\ writer \in {"serialFrame", "board"}
  BY FrameTypes
<1>3. PICK c : IF Unclear(data, writer) THEN Murky(f, c, data) ELSE Clear(f, c, data)
  BY <1>2, Framed
<1>4. /\ sent' = Append(sent, data) /\ wire' = wire \o more /\ stdio' = stdio /\ lost' = lost
      /\ damaged \subseteq damaged'
      /\ Clear(f, c, data) \/ (n \in damaged' /\ Murky(f, c, data))
  BY <1>1, <1>3 DEF Send, bounds
<1> HIDE DEF f
<1>5. Gains(unread, unread', f, n)
  <2>1. /\ DOMAIN f = 1 .. Len(f) /\ \A i \in 1 .. Len(f) : f[i] \in Byte
        /\ n \in Nat
    BY <1>2 DEF Types
  <2> HIDE DEF n
  <2> DEFINE S == [byte : Byte, frame : Nat]
  <2>2. wire \in Seq(S) /\ stdio \in Seq(S)
    <3>1. \A e \in Tagged : e \in S
      BY PacketGetAssumption DEF Tagged
    <3>2. \A q \in Seq(Tagged) : q \in Seq(S)
      <4> HIDE DEF S
      <4> QED  BY <3>1
    <3> QED  BY <3>2 DEF Types
  <2>3. more \in Seq(S) /\ Len(more) = Len(f) /\ \A i \in 1 .. Len(f) : more[i] = [byte |-> f[i], frame |-> n]
    <3>1. \A i \in 1 .. Len(f) : [byte |-> f[i], frame |-> n] \in S
      BY <2>1
    <3> HIDE DEF S
    <3> QED  BY <1>2, <2>1, <3>1
  <2> HIDE DEF S, more
  <2>4. unread' = stdio \o (wire \o more)
    BY <1>4 DEF unread
  <2>5. \A a, b, d \in Seq(S) : /\ Len(a \o (b \o d)) = Len(a \o b) + Len(d)
                                /\ \A i \in 1 .. Len(a \o b) : (a \o (b \o d))[i] = (a \o b)[i]
                                /\ \A j \in 1 .. Len(d) : (a \o (b \o d))[Len(a \o b) + j] = d[j]
    OBVIOUS
  <2>6. /\ Len(stdio \o (wire \o more)) = Len(stdio \o wire) + Len(more)
        /\ \A i \in 1 .. Len(stdio \o wire) : (stdio \o (wire \o more))[i] = (stdio \o wire)[i]
        /\ \A j \in 1 .. Len(more) : (stdio \o (wire \o more))[Len(stdio \o wire) + j] = more[j]
    BY ONLY <2>2, <2>3, <2>5, Zenon
  <2> QED  BY <2>3, <2>4, <2>6 DEF Gains, unread
<1> HIDE DEF more
<1>6. \E u, q : /\ Known(u, q, gone, unread', sent', damaged', lost)
                /\ Adds1(t, u, Len(sent), f, c)
                /\ q[0] = p[0]
  <2>1. Known(t, p, gone, unread, sent, damaged, lost)
    BY DEF Track
  <2>2. Gains(unread, unread', f, n) /\ sent \in Seq(Payloads) /\ n = Len(sent) + 1
    BY <1>5 DEF Types
  <2>3. Clear(f, c, data) \/ (n \in damaged' /\ Murky(f, c, data))
    BY <1>4
  <2>4. damaged \subseteq damaged' /\ Len(f) \in Nat \ {0} /\ data \in Payloads
    BY <1>2, <1>4
  <2>5. sent' = Append(sent, data)
    BY <1>4
  <2> HIDE DEF n
  <2>6. Gain(t, p, gone, unread, sent, damaged, lost, unread', f, c, data, Payloads, sent', n, damaged')
    BY <2>1, <2>2, <2>3, <2>4, <2>5 DEF Gain
  <2> QED  BY <2>6, KnownGains
<1> QED  BY <1>2, <1>4, <1>6 DEF Track

\* The line loses a byte: it is gone, and the reader stays where it is.
LEMMA Loses ==
  ASSUME Types, LoseByte, NEW t, NEW p, NEW gone, Track(t, p, gone)
  PROVE  \E q, g : Track(t, q, g)' /\ q[0] = p[0] /\ gone \subseteq g
<1>1. PICK i \in 1 .. Len(wire) : /\ wire' = RemoveAt(wire, i)
                                  /\ damaged' = damaged \cup {wire[i].frame}
  BY Members DEF LoseByte, Types
<1>2. stdio' = stdio /\ sent' = sent /\ lost' = lost + 1 /\ lost \in Nat
  BY DEF LoseByte, Types
<1> DEFINE l == Len(stdio)
           n == Len(wire)
<1>3. /\ l \in Nat /\ n \in Nat /\ i \in 1 .. n
      /\ Len(unread) = l + n
      /\ \A k \in 1 .. l : unread[k] = stdio[k]
      /\ \A k \in 1 .. n : unread[l + k] = wire[k]
  BY Joint DEF unread, Types
<1>4. /\ wire' \in Seq(Tagged) /\ Len(wire') = n - 1
      /\ \A k \in 1 .. i - 1 : wire'[k] = wire[k]
      /\ \A k \in i .. n - 1 : wire'[k] = wire[k + 1]
  <2> DEFINE a == SubSeq(wire, 1, i - 1)
             b == SubSeq(wire, i + 1, n)
  <2>1. a \in Seq(Tagged) /\ Len(a) = i - 1 /\ \A k \in 1 .. i - 1 : a[k] = wire[k]
    <3>1. 1 \in 1 .. n + 1 /\ i - 1 \in 0 .. n
      BY <1>3
    <3>2. /\ a \in Seq(Tagged)
          /\ Len(a) = IF 1 <= i - 1 THEN ((i - 1) - 1) + 1 ELSE 0
          /\ \A k \in 1 .. Len(a) : a[k] = wire[(1 + k) - 1]
      BY <3>1, Cuts DEF Types
    <3> HIDE DEF a
    <3> QED  BY <1>3, <3>2
  <2>2. b \in Seq(Tagged) /\ Len(b) = n - i /\ \A k \in 1 .. n - i : b[k] = wire[i + k]
    <3>1. i + 1 \in 1 .. n + 1 /\ n \in 0 .. n
      BY <1>3
    <3>2. /\ b \in Seq(Tagged)
          /\ Len(b) = IF i + 1 <= n THEN (n - (i + 1)) + 1 ELSE 0
          /\ \A k \in 1 .. Len(b) : b[k] = wire[((i + 1) + k) - 1]
      BY <3>1, Cuts DEF Types
    <3> HIDE DEF b
    <3> QED  BY <1>3, <3>2
  <2>3. wire' = a \o b
    BY <1>1 DEF RemoveAt
  <2> HIDE DEF a, b
  <2>4. /\ a \o b \in Seq(Tagged) /\ Len(a \o b) = Len(a) + Len(b)
        /\ \A k \in 1 .. Len(a) : (a \o b)[k] = a[k]
        /\ \A k \in 1 .. Len(b) : (a \o b)[Len(a) + k] = b[k]
    <3>1. \A q, r \in Seq(Tagged) :
            /\ q \o r \in Seq(Tagged) /\ Len(q \o r) = Len(q) + Len(r)
            /\ \A k \in 1 .. Len(q) : (q \o r)[k] = q[k]
            /\ \A k \in 1 .. Len(r) : (q \o r)[Len(q) + k] = r[k]
      BY Joint
    <3> QED  BY ONLY <2>1, <2>2, <3>1, Zenon
  <2>5. Len(wire') = n - 1
    BY <1>3, <2>1, <2>2, <2>3, <2>4
  <2>6. ASSUME NEW k \in i .. n - 1 PROVE wire'[k] = wire[k + 1]
    <3>1. k - (i - 1) \in 1 .. n - i /\ (i - 1) + (k - (i - 1)) = k /\ i + (k - (i - 1)) = k + 1
      BY <1>3
    <3>2. (a \o b)[(i - 1) + (k - (i - 1))] = b[k - (i - 1)]
      BY <2>1, <2>2, <2>4, <3>1
    <3>3. b[k - (i - 1)] = wire[i + (k - (i - 1))]
      BY <2>2, <3>1
    <3> QED  BY <2>3, <3>1, <3>2, <3>3
  <2> QED  BY <2>1, <2>3, <2>4, <2>5, <2>6
<1>5. /\ Len(unread') = l + (n - 1)
      /\ \A k \in 1 .. l : unread'[k] = stdio[k]
      /\ \A k \in 1 .. n - 1 : unread'[l + k] = wire'[k]
  <2>1. unread' = stdio \o wire'
    BY <1>2 DEF unread
  <2>2. stdio \in Seq(Tagged) /\ wire' \in Seq(Tagged)
    BY <1>4 DEF Types
  <2>3. /\ Len(stdio \o wire') = Len(stdio) + Len(wire')
        /\ \A k \in 1 .. Len(stdio) : (stdio \o wire')[k] = stdio[k]
        /\ \A k \in 1 .. Len(wire') : (stdio \o wire')[Len(stdio) + k] = wire'[k]
    <3>1. \A a, b \in Seq(Tagged) :
            /\ Len(a \o b) = Len(a) + Len(b)
            /\ \A k \in 1 .. Len(a) : (a \o b)[k] = a[k]
            /\ \A k \in 1 .. Len(b) : (a \o b)[Len(a) + k] = b[k]
      BY Joint
    <3> QED  BY ONLY <2>2, <3>1, Zenon
  <2> QED  BY <1>4, <2>1, <2>3
<1> HIDE DEF l, n
<1> DEFINE m == l + i
<1>6. m \in 1 .. Len(unread)
  BY <1>3
<1>7. Lacks(unread, unread', m)
  <2>1. ASSUME NEW k \in 1 .. m - 1 PROVE unread'[k] = unread[k]
    <3>1. CASE k \in 1 .. l
      BY <1>3, <1>5, <3>1
    <3>2. CASE k \notin 1 .. l
      <4> DEFINE j == k - l
      <4>1. j \in 1 .. i - 1 /\ j \in 1 .. n - 1 /\ j \in 1 .. n /\ k = l + j
        BY <1>3, <3>2
      <4> HIDE DEF j
      <4>2. unread'[l + j] = wire'[j]
        BY <1>5, <4>1
      <4>3. wire'[j] = wire[j]
        BY <1>4, <4>1
      <4>4. unread[l + j] = wire[j]
        BY <1>3, <4>1
      <4> QED  BY <4>1, <4>2, <4>3, <4>4
    <3> QED  BY <3>1, <3>2
  <2>2. ASSUME NEW k \in m .. (l + n) - 1 PROVE unread'[k] = unread[k + 1]
    <3> DEFINE j == k - l
    <3>1. /\ j \in i .. n - 1 /\ j \in 1 .. n - 1 /\ j + 1 \in 1 .. n
          /\ k = l + j /\ k + 1 = l + (j + 1)
      BY <1>3
    <3> HIDE DEF j
    <3>2. unread'[l + j] = wire'[j] /\ wire'[j] = wire[j + 1] /\ unread[l + (j + 1)] = wire[j + 1]
      BY <1>3, <1>4, <1>5, <3>1
    <3> QED  BY <3>1, <3>2
  <2>3. Len(unread') = Len(unread) - 1
    BY <1>3, <1>5
  <2> HIDE DEF m
  <2> QED  BY <1>3, <2>1, <2>2, <2>3 DEF Lacks
<1>8. unread[m].frame = wire[i].frame
  BY <1>3
<1> HIDE DEF m
<1>9. \E q, g : /\ Known(t, q, g, unread', sent, damaged', lost')
                /\ q[0] = p[0] /\ gone \subseteq g
  <2>1. Known(t, p, gone, unread, sent, damaged, lost) /\ lost \in Nat
    BY <1>2 DEF Track
  <2>2. damaged' = damaged \cup {unread[m].frame} /\ lost' = lost + 1
    BY <1>1, <1>2, <1>8
  <2>3. Loss(t, p, gone, unread, sent, damaged, lost, unread', m, damaged', lost')
    BY <1>6, <1>7, <2>1, <2>2 DEF Loss
  <2> QED  BY <2>3, KnownLacks
<1> QED  BY <1>2, <1>9 DEF Track

\* select, and stdio that takes bytes over, change nothing that is to come.
LEMMA Waits ==
  ASSUME Types, filesWaitRead \/ StdioReads \/ StdioIsEmpty \/ UNCHANGED vars,
         NEW t, NEW p, NEW gone, Track(t, p, gone)
  PROVE  \E q : Track(t, q, gone)' /\ q[0] = p[0]
<1>1. unread' = unread /\ UNCHANGED <<sent, damaged, lost>>
  <2>1. CASE filesWaitRead \/ StdioIsEmpty \/ UNCHANGED vars
    BY <2>1 DEF filesWaitRead, StdioIsEmpty, vars, input, bounds, past, unread
  <2>2. CASE StdioReads
    <3>1. PICK n \in 1 .. Len(wire) : /\ stdio' = SubSeq(wire, 1, n)
                                      /\ wire' = SubSeq(wire, n + 1, Len(wire))
      BY <2>2 DEF StdioReads
    <3>2. \A s \in Seq(Tagged) : \A m \in 1 .. Len(s) :
            SubSeq(s, 1, m) \o SubSeq(s, m + 1, Len(s)) = <<>> \o s
      OBVIOUS
    <3>3. stdio = <<>> /\ UNCHANGED <<sent, damaged, lost>>
      BY <2>2 DEF StdioReads, bounds, past
    <3> QED  BY <3>1, <3>2, <3>3 DEF unread, Types
  <2> QED  BY <2>1, <2>2
<1>2. Track(t, p, gone)'
  BY <1>1 DEF Track
<1> QED  BY <1>2

\* fgetc reads the next byte that is left.
LEMMA Reads ==
  ASSUME Types, fgetc, NEW t, NEW p, NEW gone, Track(t, p, gone)
  PROVE  \E q : /\ Track(t, q, gone)' /\ q[0] = p[1]
                /\ Shows(t, Head(stdio), p[1]) /\ Skips(p[0], p[1], gone)
                /\ p[0] \in 0 .. t.len /\ p[1] \in 1 .. t.len
<1>1. stdio' = Tail(stdio) /\ stdio # <<>> /\ UNCHANGED <<wire, sent, damaged, lost>>
  BY DEF fgetc, bounds
<1>2. \A s, r \in Seq(Tagged) : s # <<>> =>
        /\ Len(s \o r) \in Nat /\ 1 \in 1 .. Len(s \o r)
        /\ (s \o r)[1] = Head(s)
        /\ Len(Tail(s) \o r) = Len(s \o r) - 1
        /\ \A i \in 1 .. Len(s \o r) - 1 : (Tail(s) \o r)[i] = (s \o r)[i + 1]
  OBVIOUS
<1>3. /\ Len(unread) \in Nat /\ 1 \in 1 .. Len(unread)
      /\ unread[1] = Head(stdio)
      /\ Drops(unread, unread', 1)
  BY <1>1, <1>2 DEF unread, Drops, Types
<1>4. Known(t, p, gone, unread, sent, damaged, lost)
  BY DEF Track
<1>5. PICK q : Known(t, q, gone, unread', sent, damaged, lost) /\ q[0] = p[1]
  <2>1. 1 \in 0 .. Len(unread) /\ damaged \subseteq damaged
    BY <1>3
  <2> QED  BY <1>3, <1>4, <2>1, KnownDrops
<1>6. Track(t, q, gone)'
  BY <1>1, <1>5 DEF Track
<1>7. Shows(t, Head(stdio), p[1])
  BY <1>3, <1>4 DEF Known, Ahead
<1>8. Skips(p[0], p[1], gone)
  <2>1. 0 \in 0 .. Len(unread) /\ 0 + 1 = 1
    BY <1>3
  <2>2. Ahead(unread, t, p, gone)
    BY <1>4 DEF Known
  <2>3. Skips(p[0], p[0 + 1], gone)
    BY <2>1, <2>2 DEF Ahead
  <2> QED  BY <2>1, <2>3
<1>9. p[1] \in 1 .. t.len
  BY <1>3, <1>4, Places DEF Known
<1>10. p[0] \in 0 .. t.len
  <2>1. p[0] \in 0 .. t.len + 1 /\ t.len \in Nat
    <3>1. 0 \in 0 .. Len(unread) + 1
      BY <1>3
    <3> QED  BY <1>4, <3>1 DEF Known, Ahead
  <2> QED  BY <1>8, <1>9, <2>1 DEF Skips
<1> QED  BY <1>5, <1>6, <1>7, <1>8, <1>9, <1>10

\* There is one start in a frame that can be understood.
LEMMA OneStart ==
  ASSUME NEW f, NEW c, NEW data, Clear(f, c, data), NEW j \in 2 .. Len(f)
  PROVE  f[j] # STX
<1>1. Upto(f, c, Len(f) - 1, Append(data, Checksum(data)))
  BY DEF Clear
<1>2. Len(f) \in Nat /\ f[Len(f)] = ETX
  BY <1>1 DEF Upto
<1>3. CASE j = Len(f)
  BY <1>2, <1>3 DEF STX, ETX
<1>4. CASE j \in 2 .. Len(f) - 1
  BY <1>1, <1>4 DEF Upto, Decodes
<1> QED  BY <1>2, <1>3, <1>4

\* A frame that is neither hit nor finished goes on at once.
LEMMA GoesOn ==
  ASSUME NEW t, NEW p, NEW gone, NEW rest, NEW all, NEW hit, NEW n,
         Known(t, p, gone, rest, all, hit, n), 0 \notin hit,
         t.of[p[0]] \notin hit, ~Ends(t, p[0], t.of[p[0]])
  PROVE  /\ Len(rest) \in Nat \ {0}
         /\ rest[1].frame = t.of[p[0]]
         /\ rest[1].byte # STX
<1> DEFINE x == p[0]
           k == t.of[x]
           l == Len(all)
           y == p[1]
<1>1. /\ Text(t, l) /\ Ahead(rest, t, p, gone) /\ t.len \in Nat /\ l \in Nat /\ Len(rest) \in Nat
      /\ \A z \in gone : t.of[z] \in hit
  BY DEF Known, Text, Ahead
<1>2. Skips(x, y, gone) /\ x \in 0 .. t.len + 1 /\ y \in 0 .. t.len + 1
  <2>1. 0 \in 0 .. Len(rest) /\ 0 + 1 = 1 /\ 0 \in 0 .. Len(rest) + 1 /\ 1 \in 0 .. Len(rest) + 1
    BY <1>1
  <2>2. Skips(p[0], p[0 + 1], gone)
    BY <1>1, <2>1 DEF Ahead
  <2> QED  BY <1>1, <2>1, <2>2 DEF Ahead
<1> HIDE DEF x, y
<1>3. x \in 0 .. t.len
  BY <1>1, <1>2 DEF Skips
<1>4. k \in 1 .. l /\ t.at[x] \in 1 .. Size(t, k) /\ t.at[x] # Size(t, k)
  <2>1. x # 0
    <3>1. x = 0 => Ends(t, x, k)
      BY <1>1 DEF Text, Ends, Size
    <3> QED  BY <3>1 DEF x
  <2>2. x \in 1 .. t.len
    BY <1>1, <1>3, <2>1
  <2>3. t.at[x] # Size(t, k)
    BY DEF Ends, x
  <2> QED  BY <1>1, <2>2, <2>3 DEF Text
<1>5. Clear(t.f[k], t.c[k], all[k]) /\ k \notin hit
  <2>1. k \notin hit
    BY DEF x
  <2>2. \A i \in 1 .. l : \/ Clear(t.f[i], t.c[i], all[i])
                          \/ i \in hit /\ Murky(t.f[i], t.c[i], all[i])
    BY DEF Known
  <2> HIDE DEF k
  <2> QED  BY <1>4, <2>1, <2>2
<1>6. Size(t, k) = Len(t.f[k]) /\ Size(t, k) \in Nat
  <2> HIDE DEF k
  <2>1. k # 0
    BY <1>1, <1>4
  <2>2. t.f[k] \in Seq(Byte)
    BY <1>5 DEF Clear, Upto
  <2>3. \A s \in Seq(Byte) : Len(s) \in Nat
    OBVIOUS
  <2>4. Len(t.f[k]) \in Nat
    BY <2>2, <2>3
  <2> QED  BY <2>1, <2>4 DEF Size
<1>7. t.at[x] < Size(t, k) /\ t.at[x] \in Nat /\ t.at[x] + 1 \in 2 .. Len(t.f[k])
  <2>1. \A a, s \in Nat : a \in 1 .. s /\ a # s => a < s /\ a + 1 \in 2 .. s
    OBVIOUS
  <2>2. t.at[x] \in Nat
    BY <1>4, <1>6
  <2> HIDE DEF k
  <2> QED  BY ONLY <1>4, <1>6, <2>1, <2>2
<1>8. Follows(t, x, x + 1)
  BY <1>1, <1>3 DEF Text
<1>9. t.of[x + 1] = k /\ t.at[x + 1] = t.at[x] + 1
  BY <1>7, <1>8 DEF Follows
<1>10. y = x + 1
  <2>1. x + 1 \notin gone
    BY <1>1, <1>5, <1>9
  <2>2. x + 1 \in x + 1 .. y - 1 => x + 1 \in gone
    BY <1>2 DEF Skips
  <2> QED  BY <1>1, <1>2, <1>3, <2>1, <2>2 DEF Skips
<1>11. y # t.len + 1
  <2>1. t.of[t.len + 1] = l + 1
    BY <1>1 DEF Text
  <2> HIDE DEF k
  <2>2. k # l + 1
    BY <1>1, <1>4
  <2> QED  BY <1>9, <1>10, <2>1, <2>2
<1>12. Len(rest) # 0
  BY <1>1, <1>11 DEF Ahead, y
<1>13. Shows(t, rest[1], y)
  BY <1>1, <1>12 DEF Ahead, y
<1>14. rest[1].frame = k /\ rest[1].byte = t.f[k][t.at[x] + 1]
  BY <1>9, <1>10, <1>13 DEF Shows
<1>15. rest[1].byte # STX
  BY <1>5, <1>7, <1>14, OneStart
<1> QED  BY <1>1, <1>12, <1>14, <1>15 DEF x

\* A time-out and a flush: whatever is thrown away is of frames that are hit.
LEMMA Throws ==
  ASSUME Types, Types', GivesUp \/ fileFlushInput, NEW t, NEW p, NEW gone, Track(t, p, gone)
  PROVE  \E q : /\ Track(t, q, gone)' /\ p[0] <= q[0] /\ q[0] \in 0 .. t.len
                /\ \A y \in p[0] + 1 .. q[0] : t.of[y] \in damaged'
                /\ \/ t.of[q[0]] \in damaged'
                   \/ Ends(t, q[0], t.of[q[0]])
                /\ fr' = Empty /\ damaged \subseteq damaged' /\ UNCHANGED <<sent, got, lost>>
<1>1. PICK read \in Seq(Tagged) :
        /\ Forget /\ damaged' = damaged \cup Cut(read)
        /\ Len(read) \in 0 .. Len(unread)
        /\ \A i \in 1 .. Len(read) : unread[i] = read[i]
        /\ Drops(unread, wire', Len(read))
  <2>1. CASE GivesUp
    <3>1. /\ stdio \in Seq(Tagged) /\ Forget /\ damaged' = damaged \cup Cut(stdio)
          /\ wire' = wire
      BY <2>1 DEF GivesUp, Types
    <3>2. \A a, b \in Seq(Tagged) :
            /\ Len(a) \in 0 .. Len(a \o b)
            /\ \A i \in 1 .. Len(a) : (a \o b)[i] = a[i]
            /\ Len(b) = Len(a \o b) - Len(a)
            /\ \A i \in 1 .. Len(a \o b) - Len(a) : b[i] = (a \o b)[i + Len(a)]
      OBVIOUS
    <3> QED  BY <3>1, <3>2 DEF unread, Drops, Types
  <2>2. CASE fileFlushInput
    <3>1. PICK n \in 0 .. Len(wire) :
            /\ wire' = SubSeq(wire, n + 1, Len(wire))
            /\ damaged' = damaged \cup Cut(stdio \o SubSeq(wire, 1, n))
      BY <2>2 DEF fileFlushInput
    <3> DEFINE a == SubSeq(wire, 1, n)
               b == SubSeq(wire, n + 1, Len(wire))
    <3>2. \A s \in Seq(Tagged) : \A m \in 0 .. Len(s) :
            /\ SubSeq(s, 1, m) \in Seq(Tagged) /\ SubSeq(s, m + 1, Len(s)) \in Seq(Tagged)
            /\ s = SubSeq(s, 1, m) \o SubSeq(s, m + 1, Len(s))
      <4> SUFFICES ASSUME NEW s \in Seq(Tagged), NEW m \in 0 .. Len(s)
                   PROVE  /\ SubSeq(s, 1, m) \in Seq(Tagged) /\ SubSeq(s, m + 1, Len(s)) \in Seq(Tagged)
                          /\ s = SubSeq(s, 1, m) \o SubSeq(s, m + 1, Len(s))
        OBVIOUS
      <4> DEFINE d == SubSeq(s, 1, m)
                 e == SubSeq(s, m + 1, Len(s))
      <4>1. 1 \in 1 .. Len(s) + 1 /\ m + 1 \in 1 .. Len(s) + 1 /\ Len(s) \in 0 .. Len(s) /\ Len(s) \in Nat
        OBVIOUS
      <4>2. /\ d \in Seq(Tagged) /\ Len(d) = m
            /\ \A i \in 1 .. m : d[i] = s[i]
        <5>1. /\ d \in Seq(Tagged) /\ Len(d) = IF 1 <= m THEN (m - 1) + 1 ELSE 0
              /\ \A k \in 1 .. Len(d) : d[k] = s[(1 + k) - 1]
          BY <4>1, Cuts
        <5> HIDE DEF d
        <5> QED  BY <4>1, <5>1
      <4>3. /\ e \in Seq(Tagged) /\ Len(e) = Len(s) - m
            /\ \A i \in 1 .. Len(s) - m : e[i] = s[m + i]
        <5>1. /\ e \in Seq(Tagged) /\ Len(e) = IF m + 1 <= Len(s) THEN (Len(s) - (m + 1)) + 1 ELSE 0
              /\ \A k \in 1 .. Len(e) : e[k] = s[((m + 1) + k) - 1]
          BY <4>1, Cuts
        <5> HIDE DEF e
        <5> QED  BY <4>1, <5>1
      <4> HIDE DEF d, e
      <4>4. /\ d \o e \in Seq(Tagged) /\ Len(d \o e) = Len(s)
            /\ \A i \in 1 .. m : (d \o e)[i] = d[i]
            /\ \A i \in 1 .. Len(s) - m : (d \o e)[m + i] = e[i]
        BY <4>1, <4>2, <4>3, Joint
      <4>5. \A i \in 1 .. Len(s) : (d \o e)[i] = s[i]
        <5> SUFFICES ASSUME NEW i \in 1 .. Len(s) PROVE (d \o e)[i] = s[i]
          OBVIOUS
        <5>1. CASE i <= m
          BY <4>2, <4>4, <5>1
        <5>2. CASE i > m
          <6>1. i - m \in 1 .. Len(s) - m /\ m + (i - m) = i
            BY <5>2, <4>1
          <6> QED  BY <4>3, <4>4, <6>1
        <5>3. i <= m \/ i > m
          <6> QED  BY ONLY <4>1, m \in 0 .. Len(s), i \in 1 .. Len(s)
        <5> QED  BY ONLY <5>1, <5>2, <5>3
      <4>6. \A u, v \in Seq(Tagged) : Len(u) = Len(v) /\ (\A i \in 1 .. Len(v) : u[i] = v[i]) => u = v
        OBVIOUS
      <4>7. s = d \o e
        BY ONLY <4>4, <4>5, <4>6, s \in Seq(Tagged)
      <4> QED  BY <4>2, <4>3, <4>7 DEF d, e
    <3>3. a \in Seq(Tagged) /\ b \in Seq(Tagged) /\ wire = a \o b /\ stdio \in Seq(Tagged)
      BY <3>2 DEF Types
    <3> HIDE DEF a, b
    <3>4. \A d, e, g \in Seq(Tagged) :
            /\ d \o e \in Seq(Tagged)
            /\ Len(d \o e) \in 0 .. Len(d \o (e \o g))
            /\ \A i \in 1 .. Len(d \o e) : (d \o (e \o g))[i] = (d \o e)[i]
            /\ Len(g) = Len(d \o (e \o g)) - Len(d \o e)
            /\ \A i \in 1 .. Len(d \o (e \o g)) - Len(d \o e) :
                 g[i] = (d \o (e \o g))[i + Len(d \o e)]
      OBVIOUS
    <3> DEFINE r == stdio \o a
    <3>5. /\ r \in Seq(Tagged)
          /\ Len(r) \in 0 .. Len(unread)
          /\ \A i \in 1 .. Len(r) : unread[i] = r[i]
          /\ Len(b) = Len(unread) - Len(r)
          /\ \A i \in 1 .. Len(unread) - Len(r) : b[i] = unread[i + Len(r)]
      <4>1. unread = stdio \o (a \o b)
        BY <3>3 DEF unread
      <4>2. r = stdio \o a
        OBVIOUS
      <4> HIDE DEF r
      <4>3. /\ stdio \o a \in Seq(Tagged)
            /\ Len(stdio \o a) \in 0 .. Len(stdio \o (a \o b))
            /\ \A i \in 1 .. Len(stdio \o a) : (stdio \o (a \o b))[i] = (stdio \o a)[i]
            /\ Len(b) = Len(stdio \o (a \o b)) - Len(stdio \o a)
            /\ \A i \in 1 .. Len(stdio \o (a \o b)) - Len(stdio \o a) :
                 b[i] = (stdio \o (a \o b))[i + Len(stdio \o a)]
        BY ONLY <3>3, <3>4, Zenon
      <4> QED  BY ONLY <4>1, <4>2, <4>3, Zenon
    <3>6. wire' = b /\ damaged' = damaged \cup Cut(r) /\ Forget
      BY <2>2, <3>1 DEF a, b, fileFlushInput
    <3> HIDE DEF r
    <3> QED  BY <3>5, <3>6 DEF Drops
  <2> QED  BY <2>1, <2>2
<1> DEFINE m == Len(read)
<1>2. unread' = wire'
  <2>1. \A s \in Seq(Tagged) : <<>> \o s = s
    OBVIOUS
  <2> QED  BY <1>1, <2>1 DEF Forget, unread, Types
<1>3. fr' = Empty /\ damaged \subseteq damaged' /\ UNCHANGED <<sent, got, lost>>
  BY <1>1 DEF Forget
<1>4. Known(t, p, gone, unread, sent, damaged, lost)
  BY DEF Track
<1>5. PICK q : Known(t, q, gone, wire', sent, damaged', lost) /\ q[0] = p[m]
  <2>1. m \in 0 .. Len(unread) /\ Drops(unread, wire', m) /\ damaged \subseteq damaged'
    BY <1>1
  <2>2. \A h : damaged \subseteq h /\ m \in 0 .. Len(unread) /\ Drops(unread, wire', m) =>
          \E q : Known(t, q, gone, wire', sent, h, lost) /\ q[0] = p[m]
    <3> HIDE DEF m
    <3> QED  BY <1>4, KnownDrops
  <2> HIDE DEF m
  <2> QED  BY <2>1, <2>2
<1>6. Track(t, q, gone)'
  BY <1>2, <1>3, <1>5 DEF Track
<1>7. /\ Ahead(unread, t, p, gone) /\ Len(unread) \in Nat /\ t.len \in Nat
      /\ \A z \in gone : t.of[z] \in damaged
  BY <1>4 DEF Known, Ahead
<1>8. \A i \in 1 .. m : t.of[p[i]] \in damaged'
  <2>1. \A i \in 1 .. m : read[i].frame \in Cut(read)
    BY Members DEF Cut
  <2>2. \A i \in 1 .. m : i \in 1 .. Len(unread)
    BY <1>1, <1>7
  <2>3. \A i \in 1 .. m : t.of[p[i]] = read[i].frame
    BY <1>1, <1>7, <2>2 DEF Ahead, Shows
  <2> QED  BY <1>1, <2>1, <2>3
<1>9. p[0] <= q[0] /\ \A y \in p[0] + 1 .. q[0] : t.of[y] \in damaged'
  <2>1. m \in 0 .. Len(unread) + 1
    BY <1>1, <1>7
  <2>2. /\ p[0] <= p[m]
        /\ \A y \in p[0] + 1 .. p[m] : y \in gone \/ \E i \in 1 .. m : y = p[i]
    BY <1>7, <2>1, Reached
  <2> HIDE DEF m
  <2> QED  BY <1>3, <1>5, <1>7, <1>8, <2>2
<1>10. q[0] \in 0 .. t.len
  <2>1. /\ Ahead(wire', t, q, gone)
    BY <1>5 DEF Known
  <2>2. Len(wire') \in Nat /\ 0 \in 0 .. Len(wire') /\ 0 \in 0 .. Len(wire') + 1 /\ 0 + 1 = 1 /\ 1 \in 0 .. Len(wire') + 1
    BY <2>1 DEF Ahead
  <2>3. Skips(q[0], q[0 + 1], gone) /\ q[0] \in 0 .. t.len + 1 /\ q[1] \in 0 .. t.len + 1
    BY <2>1, <2>2 DEF Ahead
  <2> QED  BY <1>7, <2>2, <2>3 DEF Skips
<1>11. t.of[q[0]] \in damaged' \/ Ends(t, q[0], t.of[q[0]])
  <2>1. CASE m = 0
    <3> SUFFICES ASSUME t.of[q[0]] \notin damaged', ~Ends(t, q[0], t.of[q[0]])
                 PROVE  FALSE
      OBVIOUS
    <3>1. 0 \notin damaged'
      BY DEF Types
    <3>2. /\ Len(wire') \in Nat \ {0}
          /\ wire'[1].frame = t.of[q[0]]
          /\ wire'[1].byte # STX
      BY <1>5, <3>1, GoesOn
    <3>3. wire' # <<>> /\ Head(wire') = wire'[1]
      <4>1. \A s \in Seq(Tagged) : Len(s) # 0 => s # <<>> /\ Head(s) = s[1]
        OBVIOUS
      <4> QED  BY <3>2, <4>1 DEF Types
    <3>4. t.of[q[0]] \in Cut(read)
      BY <3>2, <3>3 DEF Cut
    <3> QED  BY <1>1, <3>4
  <2>2. CASE m # 0
    <3>1. m \in 1 .. m
      BY <1>1, <1>7, <2>2
    <3> QED  BY <1>5, <1>8, <3>1
  <2> QED  BY <2>1, <2>2
<1> QED  BY <1>3, <1>6, <1>9, <1>10, <1>11

-----------------------------------------------------------------------------
(***************************************************************************)
(* What the reader makes of a byte, and of a frame that nothing hit.  x is *)
(* the place of the last byte read.                                        *)
(***************************************************************************)
Byt(t, x) == t.f[t.of[x]][t.at[x]]

Inside(t, x) == t.at[x] < Size(t, t.of[x])

Taken(b) == IF b = ESC THEN "escape" ELSE IF b = STX THEN "started" ELSE "data"

InStep(t, x, r) == r = Now(Taken(Byt(t, x)), t.c[t.of[x]][t.at[x]])

Astray(t, x, r) ==
  r.mode = "hunting" \/ r.mode = IF Byt(t, x) = ESC THEN "escape" ELSE "data"

Local(t, x, r, hit) ==
  \/ t.of[x] \in hit
  \/ Ends(t, x, t.of[x]) /\ r = Empty
  \/ Inside(t, x) /\ InStep(t, x, r)
  \/ Inside(t, x) /\ t.of[x] - 1 \in hit /\ Astray(t, x, r)

After(r) == IF r.mode = "packet" THEN Empty ELSE r

\* ByteArray_PacketGet, as a table: what each mode makes of each byte.
LEMMA Moves ==
  ASSUME fr \in Reader, Blank(fr), NEW b
  PROVE  LET r == ByteArray_PacketGet(b)
         IN  /\ fr.mode \in Modes
             /\ fr.mode = "hunting" /\ b = STX => r = Now("started", <<>>)
             /\ fr.mode = "hunting" /\ b # STX => r = Empty
             /\ fr.mode = "escape" => r = Now("data", Append(fr.arr, Flip(b)))
             /\ fr.mode = "started" /\ b = STX => r = Now("started", <<>>)
             /\ fr.mode = "started" /\ b = ESC => r = Now("escape", fr.arr)
             /\ fr.mode = "started" /\ b = ETX => r = Empty
             /\ fr.mode = "started" /\ b \notin {STX, ESC, ETX} =>
                  r = Now("data", Append(fr.arr, b))
             /\ fr.mode = "data" /\ b = STX => r = Empty
             /\ fr.mode = "data" /\ b = ESC => r = Now("escape", fr.arr)
             /\ fr.mode = "data" /\ b = ETX => r = Now("packet", fr.arr)
             /\ fr.mode = "data" /\ b \notin {STX, ESC, ETX} =>
                  r = Now("data", Append(fr.arr, b))
<1> DEFINE r == ByteArray_PacketGet(b)
<1>1. /\ fr.mode \in Modes /\ fr = [mode |-> fr.mode, arr |-> fr.arr]
      /\ fr.mode = "hunting" => fr = Empty
      /\ fr.mode = "started" => fr = Now("started", <<>>)
  <2>1. \A s \in Reader : s.mode \in Modes /\ s = [mode |-> s.mode, arr |-> s.arr]
    BY DEF Reader
  <2> QED  BY <2>1 DEF Blank, Empty, Now
<1>2. STX # ESC /\ STX # ETX /\ ESC # ETX
  BY FlipTypes
<1>3. /\ fr.mode = "hunting" => r = IF b = STX THEN Now("started", <<>>) ELSE fr
      /\ fr.mode = "escape" => r = Now("data", Append(fr.arr, Flip(b)))
  BY DEF ByteArray_PacketGet
<1>4. fr.mode = "started" =>
        /\ b = STX => r = fr
        /\ b = ESC => r = Now("escape", fr.arr)
        /\ b = ETX => r = Empty
        /\ b \notin {STX, ESC, ETX} => r = Now("data", Append(fr.arr, b))
  BY <1>2 DEF ByteArray_PacketGet
<1>5. fr.mode = "data" =>
        /\ b = STX => r = Empty
        /\ b = ESC => r = Now("escape", fr.arr)
        /\ b = ETX => r = Now("packet", fr.arr)
        /\ b \notin {STX, ESC, ETX} => r = Now("data", Append(fr.arr, b))
  BY <1>2 DEF ByteArray_PacketGet
<1> HIDE DEF r
<1>6. /\ fr.mode = "hunting" /\ b = STX => r = Now("started", <<>>)
      /\ fr.mode = "hunting" /\ b # STX => r = Empty
  BY <1>1, <1>3
<1>7. fr.mode = "started" /\ b = STX => r = Now("started", <<>>)
  BY <1>1, <1>4
<1> QED  BY <1>1, <1>3, <1>4, <1>5, <1>6, <1>7 DEF r

\* y is the place that is read after place x, and y - 1 is in its frame or
\* ends the one before.
Comes(t, n, gone, x, y) ==
  /\ y - 1 \in x .. t.len /\ (y - 1 = x \/ y - 1 \in gone)
  /\ t.of[y] \in 1 .. n /\ t.at[y] \in 1 .. Size(t, t.of[y])
  /\ \/ /\ t.at[y] = 1 /\ t.of[y - 1] = t.of[y] - 1
        /\ ~Inside(t, y - 1)
     \/ /\ t.at[y] # 1 /\ t.of[y - 1] = t.of[y] /\ t.at[y - 1] = t.at[y] - 1
        /\ Inside(t, y - 1)

\* Between two bytes that are read, one after the other, only lost ones lie.
LEMMA NextPlace ==
  ASSUME NEW t, NEW n, Text(t, n), NEW gone, gone \subseteq 1 .. t.len,
         NEW x \in 0 .. t.len, NEW y \in 1 .. t.len, Skips(x, y, gone)
  PROVE  Comes(t, n, gone, x, y)
<1> USE DEF Comes
<1>1. t.len \in Nat /\ n \in Nat
  BY DEF Text
<1>2. y - 1 \in x .. t.len /\ y - 1 \in 0 .. t.len /\ (y - 1) + 1 = y
      /\ (y - 1 = x \/ y - 1 \in x + 1 .. y - 1)
  BY <1>1 DEF Skips
<1>3. y - 1 = x \/ y - 1 \in gone
  BY <1>2 DEF Skips
<1>4. t.of[y] \in 1 .. n /\ t.at[y] \in 1 .. Size(t, t.of[y])
  BY DEF Text
<1>5. Follows(t, y - 1, y)
  <2>1. Follows(t, y - 1, (y - 1) + 1)
    BY <1>2 DEF Text
  <2> QED  BY <1>2, <2>1
<1>6. t.of[y - 1] \in Nat /\ t.at[y - 1] \in Nat
  <2>1. y - 1 \in 0 .. t.len + 1
    BY <1>1, <1>2
  <2> QED  BY <2>1 DEF Text
<1>7. CASE Inside(t, y - 1)
  <2>1. t.at[y - 1] # 0
    <3>1. CASE y - 1 = 0
      BY <1>1, <1>7, <3>1 DEF Text, Inside, Size
    <3>2. CASE y - 1 # 0
      <4>1. y - 1 \in 1 .. t.len
        BY <1>1, <1>2, <3>2
      <4> QED  BY <4>1 DEF Text
    <3> QED  BY <3>1, <3>2
  <2>2. t.of[y] = t.of[y - 1] /\ t.at[y] = t.at[y - 1] + 1
    BY <1>5, <1>7 DEF Follows, Inside
  <2>3. \A a, b \in Nat : a # 0 /\ b = a + 1 => b # 1 /\ a = b - 1
    OBVIOUS
  <2>4. t.at[y] \in Nat
    <3>1. y \in 0 .. t.len + 1
      BY <1>1
    <3> QED  BY <3>1 DEF Text
  <2>5. t.at[y] # 1 /\ t.at[y - 1] = t.at[y] - 1
    BY <1>6, <2>1, <2>2, <2>3, <2>4
  <2> QED  BY <1>2, <1>3, <1>4, <1>7, <2>2, <2>5
<1>8. CASE ~Inside(t, y - 1)
  <2>1. t.of[y] = t.of[y - 1] + 1 /\ t.at[y] = 1
    BY <1>5, <1>8 DEF Follows, Inside
  <2>2. t.of[y - 1] = t.of[y] - 1
    BY <1>6, <2>1
  <2> QED  BY <1>2, <1>3, <1>4, <1>8, <2>1, <2>2
<1> QED  BY <1>7, <1>8

\* A reader that is in step stays in step.
LEMMA StaysInStep ==
  ASSUME fr \in Reader, Blank(fr), NEW f, NEW c, NEW e, NEW data, Upto(f, c, e, data),
         NEW j \in 2 .. e, fr = Now(Taken(f[j - 1]), c[j - 1])
  PROVE  ByteArray_PacketGet(f[j]) = Now(Taken(f[j]), c[j])
<1> DEFINE b == f[j]
           d == f[j - 1]
           r == ByteArray_PacketGet(b)
<1>1. Decodes(f, c, j)
  BY DEF Upto
<1>2. b \notin {STX, ETX} /\ STX # ESC
  BY <1>1, FlipTypes DEF Decodes
<1>3. fr.mode = Taken(d) /\ fr.arr = c[j - 1]
  BY DEF Now
<1>4. CASE d = ESC
  <2>1. fr.mode = "escape"
    BY <1>3, <1>4 DEF Taken
  <2>2. r = Now("data", Append(fr.arr, Flip(b)))
    BY <2>1, Moves
  <2>3. b # ESC /\ c[j] = Append(c[j - 1], Flip(b))
    BY <1>1, <1>4 DEF Decodes
  <2>4. Taken(b) = "data"
    BY <1>2, <2>3 DEF Taken
  <2> QED  BY <1>3, <2>2, <2>3, <2>4
<1>5. CASE d # ESC
  <2>1. fr.mode = "started" \/ fr.mode = "data"
    BY <1>3, <1>5 DEF Taken
  <2>2. CASE b = ESC
    <3>1. r = Now("escape", fr.arr)
      BY <2>1, <2>2, Moves
    <3>2. c[j] = c[j - 1] /\ Taken(b) = "escape"
      BY <1>1, <1>5, <2>2 DEF Decodes, Taken
    <3> QED  BY <1>3, <3>1, <3>2
  <2>3. CASE b # ESC
    <3>1. r = Now("data", Append(fr.arr, b))
      BY <1>2, <2>1, <2>3, Moves
    <3>2. c[j] = Append(c[j - 1], b) /\ Taken(b) = "data"
      BY <1>1, <1>2, <1>5, <2>3 DEF Decodes, Taken
    <3> QED  BY <1>3, <3>1, <3>2
  <2> QED  BY <2>2, <2>3
<1> QED  BY <1>4, <1>5

\* A reader that lost its way finds no start before the frame ends.
LEMMA StaysAstray ==
  ASSUME fr \in Reader, Blank(fr), NEW f, NEW c, NEW e, NEW data, Upto(f, c, e, data),
         NEW j \in 2 .. e,
         fr.mode = "hunting" \/ fr.mode = (IF f[j - 1] = ESC THEN "escape" ELSE "data")
  PROVE  LET r == ByteArray_PacketGet(f[j])
         IN  r.mode = "hunting" \/ r.mode = IF f[j] = ESC THEN "escape" ELSE "data"
<1> DEFINE b == f[j]
           d == f[j - 1]
           r == ByteArray_PacketGet(b)
<1>1. Decodes(f, c, j)
  BY DEF Upto
<1>2. b \notin {STX, ETX} /\ STX # ESC
  BY <1>1, FlipTypes DEF Decodes
<1>3. CASE fr.mode = "hunting"
  <2>1. r = Empty
    BY <1>2, <1>3, Moves
  <2> QED  BY <2>1 DEF Empty
<1>4. CASE d = ESC /\ fr.mode = "escape"
  <2>1. r = Now("data", Append(fr.arr, Flip(b)))
    BY <1>4, Moves
  <2>2. b # ESC /\ r.mode = "data"
    BY <1>1, <1>4, <2>1 DEF Decodes, Now
  <2> QED  BY <2>2
<1>5. CASE d # ESC /\ fr.mode = "data"
  <2>1. CASE b = ESC
    <3>1. r = Now("escape", fr.arr)
      BY <1>5, <2>1, Moves
    <3>2. r.mode = "escape"
      BY <3>1 DEF Now
    <3> QED  BY <2>1, <3>2
  <2>2. CASE b # ESC
    <3>1. r = Now("data", Append(fr.arr, b))
      BY <1>2, <1>5, <2>2, Moves
    <3>2. r.mode = "data"
      BY <3>1 DEF Now
    <3> QED  BY <2>2, <3>2
  <2> QED  BY <2>1, <2>2
<1> QED  BY <1>3, <1>4, <1>5

\* A start: the packet is dropped, or becomes another one.
LEMMA Starts ==
  ASSUME fr \in Reader, Blank(fr)
  PROVE  LET r == ByteArray_PacketGet(STX)
         IN  \/ r = Now("started", <<>>) /\ fr.mode \in {"hunting", "started"}
             \/ r = Empty /\ fr.mode = "data"
             \/ r = Now("data", Append(fr.arr, Flip(STX))) /\ fr.mode = "escape"
BY Moves DEF Modes

\* An end, or a checksum that looks like one.
LEMMA Finishes ==
  ASSUME fr \in Reader, Blank(fr)
  PROVE  LET r == ByteArray_PacketGet(ETX)
         IN  \/ r = Empty /\ fr.mode \in {"hunting", "started"}
             \/ r = Now("packet", fr.arr) /\ fr.mode = "data"
             \/ r = Now("data", Append(fr.arr, Flip(ETX))) /\ fr.mode = "escape"
<1>1. STX # ETX
  BY FlipTypes
<1> QED  BY <1>1, Moves DEF Modes

\* How a frame that can be understood begins and ends.
LEMMA ClearBytes ==
  ASSUME NEW f, NEW c, NEW data, Clear(f, c, data)
  PROVE  /\ Len(f) \in Nat /\ Len(f) >= 3
         /\ f[1] = STX /\ c[1] = <<>> /\ f[Len(f)] = ETX
         /\ f[Len(f) - 1] \notin {STX, ESC, ETX}
         /\ c[Len(f) - 1] = Append(data, Checksum(data))
         /\ c[Len(f)] = Append(data, Checksum(data))
         /\ Upto(f, c, Len(f) - 1, Append(data, Checksum(data)))
<1>1. Upto(f, c, Len(f) - 1, Append(data, Checksum(data))) /\ c[Len(f)] = c[Len(f) - 1]
  BY DEF Clear
<1>2. /\ f \in Seq(Byte) /\ f[1] = STX /\ f[Len(f)] = ETX /\ c[1] = <<>>
      /\ Len(f) - 1 \in 2 .. Len(f) - 1 /\ f[Len(f) - 1] # ESC
      /\ c[Len(f) - 1] = Append(data, Checksum(data))
      /\ \A j \in 2 .. Len(f) - 1 : Decodes(f, c, j)
  BY <1>1 DEF Upto
<1>3. Len(f) \in Nat
  <2>1. \A s \in Seq(Byte) : Len(s) \in Nat
    OBVIOUS
  <2> QED  BY <1>2, <2>1
<1>4. Len(f) >= 3
  BY <1>2, <1>3
<1>5. f[Len(f) - 1] \notin {STX, ETX}
  BY <1>2 DEF Decodes
<1> QED  BY <1>1, <1>2, <1>3, <1>4, <1>5

\* A byte of a frame that nothing hit, and that the reader is in step with
\* or not, according to what happened to the frame before.
LEMMA LocalStep ==
  ASSUME fr \in Reader, Blank(fr),
         NEW t, NEW p, NEW gone, NEW rest, NEW all, NEW hit, NEW n,
         Known(t, p, gone, rest, all, hit, n), 0 \notin hit,
         NEW x \in 0 .. t.len, NEW y \in 1 .. t.len, Skips(x, y, gone),
         Local(t, x, fr, hit)
  PROVE  LET r == ByteArray_PacketGet(Byt(t, y))
         IN  /\ Local(t, y, After(r), hit)
             /\ t.at[y] = Size(t, t.of[y]) /\ t.of[y] \notin hit /\ t.of[y] - 1 \notin hit =>
                  r = Now("packet", Append(all[t.of[y]], Checksum(all[t.of[y]])))
<1> DEFINE k == t.of[y]
           j == t.at[y]
           r == ByteArray_PacketGet(Byt(t, y))
           w == y - 1
<1> SUFFICES ASSUME k \notin hit
             PROVE  /\ Local(t, y, After(r), hit)
                    /\ j = Size(t, k) /\ k - 1 \notin hit =>
                         r = Now("packet", Append(all[k], Checksum(all[k])))
  BY DEF Local
<1>1. /\ Text(t, Len(all)) /\ gone \subseteq 1 .. t.len
      /\ \A z \in gone : t.of[z] \in hit
  BY DEF Known
<1>2. /\ w \in x .. t.len /\ (w = x \/ w \in gone)
      /\ k \in 1 .. Len(all) /\ j \in 1 .. Size(t, k)
      /\ \/ j = 1 /\ t.of[w] = k - 1 /\ ~Inside(t, w)
         \/ j # 1 /\ t.of[w] = k /\ t.at[w] = j - 1 /\ Inside(t, w)
  <2> HIDE DEF k, j, w
  <2>1. Comes(t, Len(all), gone, x, y)
    BY <1>1, NextPlace
  <2> QED  BY <2>1 DEF Comes, k, j, w
<1>3. Clear(t.f[k], t.c[k], all[k])
  <2>1. \A i \in 1 .. Len(all) : \/ Clear(t.f[i], t.c[i], all[i])
                                 \/ i \in hit /\ Murky(t.f[i], t.c[i], all[i])
    BY DEF Known
  <2> HIDE DEF k
  <2> QED  BY <1>2, <2>1
<1> DEFINE f == t.f[k]
           c == t.c[k]
           data == all[k]
           l == Len(f)
<1>4. /\ l \in Nat /\ l >= 3
      /\ f[1] = STX /\ c[1] = <<>> /\ f[l] = ETX
      /\ f[l - 1] \notin {STX, ESC, ETX}
      /\ c[l - 1] = Append(data, Checksum(data)) /\ c[l] = Append(data, Checksum(data))
      /\ Upto(f, c, l - 1, Append(data, Checksum(data)))
  <2>1. Clear(f, c, data)
    BY <1>3
  <2> HIDE DEF f, c, data
  <2> QED  BY <2>1, ClearBytes
<1>5. Size(t, k) = l
  <2>1. k # 0
    <3>1. Len(all) \in Nat
      BY <1>1 DEF Text
    <3> QED  BY <1>2, <3>1
  <2> HIDE DEF k
  <2> QED  BY <2>1 DEF Size
<1>6. k \in Nat /\ k # 0 /\ k - 1 # k
  <2>1. Len(all) \in Nat
    BY <1>1 DEF Text
  <2> QED  BY <1>2, <2>1
<1>7. w \in gone => t.of[w] \in hit
  BY <1>1
<1>8. Byt(t, y) = f[j] /\ (Inside(t, y) <=> j < l)
  BY <1>5 DEF Byt, Inside
<1> HIDE DEF k, j, w, f, c, data, l, r
<1>9. CASE j = 1
  <2>1. t.of[w] = k - 1 /\ ~Inside(t, w)
    BY <1>2, <1>9
  <2>2. k - 1 \in hit \/ fr.mode = "hunting"
    <3>1. CASE w \in gone
      BY <1>7, <2>1, <3>1
    <3>2. CASE w = x
      <4>1. t.of[x] \in hit \/ fr = Empty
        BY <2>1, <3>2 DEF Local
      <4> QED  BY <2>1, <3>2, <4>1 DEF Empty
    <3> QED  BY <1>2, <3>1, <3>2
  <2>3. f[j] = STX /\ Inside(t, y)
    BY <1>4, <1>8, <1>9
  <2>4. Byt(t, y) = STX /\ Taken(STX) = "started" /\ STX # ESC
    BY <1>8, <2>3, FlipTypes DEF Taken
  <2>5. InStep(t, y, Now("started", <<>>))
    BY <1>4, <1>9, <2>4 DEF InStep, k, j, c
  <2>6. r = ByteArray_PacketGet(STX)
    BY <2>4 DEF r
  <2>7. Local(t, y, After(r), hit)
    <3>1. CASE r = Now("started", <<>>)
      <4>1. After(r) = r
        BY <3>1 DEF After, Now
      <4> QED  BY <2>3, <2>5, <3>1, <4>1 DEF Local
    <3>2. CASE r.mode \in {"hunting", "data"} /\ fr.mode # "hunting"
      <4>1. After(r) = r
        BY <3>2 DEF After
      <4>2. Astray(t, y, r)
        BY <2>4, <3>2 DEF Astray
      <4>3. t.of[y] - 1 \in hit
        BY <2>2, <3>2 DEF k
      <4> QED  BY <2>3, <4>1, <4>2, <4>3 DEF Local
    <3>3. \/ r = Now("started", <<>>)
          \/ r = Empty /\ fr.mode = "data"
          \/ r = Now("data", Append(fr.arr, Flip(STX))) /\ fr.mode = "escape"
      BY <2>6, Starts
    <3> QED  BY <3>1, <3>2, <3>3 DEF Empty, Now
  <2>8. j # Size(t, k)
    BY <1>4, <1>5, <1>9
  <2> QED  BY <2>7, <2>8
<1>10. CASE j # 1
  <2>1. t.of[w] = k /\ t.at[w] = j - 1 /\ Inside(t, w) /\ w = x
    BY <1>2, <1>7, <1>10
  <2>2. Byt(t, x) = f[j - 1] /\ Inside(t, x) /\ t.c[t.of[x]][t.at[x]] = c[j - 1]
    BY <2>1 DEF Byt, f, c
  <2>3. ~(Ends(t, x, t.of[x]) /\ fr = Empty)
    <3>1. t.at[x] \in Nat /\ Size(t, t.of[x]) \in Nat
      BY <1>2, <1>4, <1>5, <2>1
    <3> QED  BY <2>2, <3>1 DEF Inside, Ends
  <2>4. \/ fr = Now(Taken(f[j - 1]), c[j - 1])
        \/ k - 1 \in hit /\ (fr.mode = "hunting" \/ fr.mode = IF f[j - 1] = ESC THEN "escape" ELSE "data")
    BY <2>1, <2>2, <2>3 DEF Local, InStep, Astray
  <2>5. j \in 2 .. l - 1 \/ j = l
    BY <1>2, <1>4, <1>5, <1>10
  <2>6. CASE j \in 2 .. l - 1
    <3>1. j < l /\ j # Size(t, k)
      BY <1>4, <1>5, <2>6
    <3>2. f[j] \notin {STX, ETX}
      BY <1>4, <2>6 DEF Upto, Decodes
    <3>3. CASE fr = Now(Taken(f[j - 1]), c[j - 1])
      <4>1. r = Now(Taken(f[j]), c[j])
        BY <1>4, <1>8, <2>6, <3>3, StaysInStep DEF r
      <4>2. InStep(t, y, r)
        BY <1>8, <4>1 DEF InStep, k, j, c
      <4>3. After(r) = r
        BY <4>1 DEF After, Now, Taken
      <4> QED  BY <1>8, <3>1, <4>2, <4>3 DEF Local
    <3>4. CASE /\ k - 1 \in hit
               /\ fr.mode = "hunting" \/ fr.mode = IF f[j - 1] = ESC THEN "escape" ELSE "data"
      <4>1. r.mode = "hunting" \/ r.mode = IF f[j] = ESC THEN "escape" ELSE "data"
        BY <1>4, <1>8, <2>6, <3>4, StaysAstray DEF r
      <4>2. Astray(t, y, r)
        BY <1>8, <4>1 DEF Astray
      <4>3. After(r) = r
        BY <4>1 DEF After
      <4>4. t.of[y] - 1 \in hit
        BY <3>4 DEF k
      <4> QED  BY <1>8, <3>1, <4>2, <4>3, <4>4 DEF Local
    <3> QED  BY <2>4, <3>3, <3>4
  <2>7. CASE j = l
    <3>1. r = ByteArray_PacketGet(ETX) /\ Ends(t, y, t.of[y])
      BY <1>4, <1>5, <1>8, <2>7 DEF r, Ends, j, k
    <3>2. CASE fr = Now(Taken(f[j - 1]), c[j - 1])
      <4>1. fr.mode = "data" /\ fr.arr = Append(data, Checksum(data))
        BY <1>4, <2>7, <3>2 DEF Now, Taken
      <4>2. r = Now("packet", Append(data, Checksum(data)))
        BY <3>1, <4>1, Finishes
      <4>3. After(r) = Empty
        BY <4>2 DEF After, Now
      <4> QED  BY <3>1, <4>2, <4>3 DEF Local, data
    <3>3. CASE /\ k - 1 \in hit
               /\ fr.mode = "hunting" \/ fr.mode = IF f[j - 1] = ESC THEN "escape" ELSE "data"
      <4>1. fr.mode = "hunting" \/ fr.mode = "data"
        BY <1>4, <2>7, <3>3
      <4>2. r = Empty \/ r = Now("packet", fr.arr)
        BY <3>1, <4>1, Finishes
      <4>3. After(r) = Empty
        BY <4>2 DEF After, Now, Empty
      <4> QED  BY <3>1, <3>3, <4>3 DEF Local
    <3> QED  BY <2>4, <3>2, <3>3
  <2> QED  BY <2>5, <2>6, <2>7
<1> QED  BY <1>9, <1>10 DEF r, k, j

-----------------------------------------------------------------------------
(***************************************************************************)
(* The replies of full size, and how they grow.                            *)
(***************************************************************************)
Chosen(e) == IF Len(e.packet) = DataLen THEN <<e>> ELSE <<>>

WholeOf(g) == FlattenSeq([ i \in DOMAIN g |-> Chosen(g[i]) ])

\* Whole is a function of got.
LEMMA WholeIs == Whole = WholeOf(got) /\ Whole' = WholeOf(got')
BY DEF Whole, WholeOf, Chosen

\* Nothing has been handed out at first.
LEMMA WholeEmpty == WholeOf(<<>>) = <<>>
<1> DEFINE s == [ i \in DOMAIN <<>> |-> Chosen((<<>>)[i]) ]
<1>1. s = <<>>
  OBVIOUS
<1>2. \A r : r = <<>> => FlattenSeq(r) = <<>>
  BY DEF FlattenSeq
<1> QED  BY <1>1, <1>2 DEF WholeOf

\* A packet of full size is appended, another one is not.
LEMMA WholeAppend ==
  ASSUME NEW g \in Seq(Reply), NEW e \in Reply
  PROVE  /\ WholeOf(g) \in Seq(Reply)
         /\ Len(e.packet) = DataLen => WholeOf(Append(g, e)) = Append(WholeOf(g), e)
         /\ Len(e.packet) # DataLen => WholeOf(Append(g, e)) = WholeOf(g)
<1> DEFINE s == [ i \in DOMAIN g |-> Chosen(g[i]) ]
           h == Append(g, e)
           r == [ i \in DOMAIN h |-> Chosen(h[i]) ]
<1>1. \A d \in Reply : Chosen(d) \in Seq(Reply)
  BY DEF Chosen
<1>2. /\ Len(g) \in Nat /\ DOMAIN g = 1 .. Len(g) /\ \A i \in 1 .. Len(g) : g[i] \in Reply
      /\ DOMAIN h = 1 .. Len(g) + 1 /\ h[Len(g) + 1] = e
      /\ \A i \in 1 .. Len(g) : h[i] = g[i]
  OBVIOUS
<1> HIDE DEF h
<1>3. s \in Seq(Seq(Reply)) /\ Len(s) = Len(g) /\ DOMAIN s = 1 .. Len(g)
      /\ \A i \in 1 .. Len(g) : s[i] = Chosen(g[i])
  <2>1. s = [ i \in 1 .. Len(g) |-> Chosen(g[i]) ]
    BY <1>2
  <2>2. s \in [1 .. Len(g) -> Seq(Reply)]
    BY <1>1, <1>2, <2>1
  <2> HIDE DEF s
  <2>3. s \in Seq(Seq(Reply)) /\ Len(s) = Len(g) /\ DOMAIN s = 1 .. Len(g)
    BY <1>2, <2>2
  <2> QED  BY <2>1, <2>3
<1>4. r = Append(s, Chosen(e))
  <2>1. r = [ i \in 1 .. Len(g) + 1 |-> Chosen(h[i]) ]
    BY <1>2
  <2> HIDE DEF s
  <2>2. Append(s, Chosen(e)) = [ i \in 1 .. Len(g) + 1 |-> IF i = Len(g) + 1 THEN Chosen(e) ELSE s[i] ]
    <3>1. \A S : \A a \in Seq(S), d \in S :
            /\ Append(a, d) \in Seq(S) /\ Len(Append(a, d)) = Len(a) + 1
            /\ Append(a, d)[Len(a) + 1] = d
            /\ \A i \in 1 .. Len(a) : Append(a, d)[i] = a[i]
      OBVIOUS
    <3>2. Chosen(e) \in Seq(Reply)
      BY <1>1
    <3> DEFINE more == Append(s, Chosen(e))
    <3>3. /\ more \in Seq(Seq(Reply)) /\ Len(more) = Len(g) + 1 /\ more[Len(g) + 1] = Chosen(e)
          /\ \A i \in 1 .. Len(g) : more[i] = s[i]
      BY <1>3, <3>1, <3>2
    <3> HIDE DEF more
    <3>4. more = [ i \in 1 .. Len(more) |-> more[i] ]
      BY <3>3
    <3>5. \A i \in 1 .. Len(g) + 1 : more[i] = IF i = Len(g) + 1 THEN Chosen(e) ELSE s[i]
      BY <1>2, <3>3
    <3> QED  BY <3>3, <3>4, <3>5 DEF more
  <2>3. \A i \in 1 .. Len(g) + 1 :
          Chosen(h[i]) = IF i = Len(g) + 1 THEN Chosen(e) ELSE s[i]
    BY <1>2, <1>3
  <2> QED  BY <2>1, <2>2, <2>3
<1> HIDE DEF s, r
<1>5. FlattenSeq(s) \in Seq(Reply) /\ FlattenSeq(r) = FlattenSeq(s) \o Chosen(e)
  BY <1>1, <1>3, <1>4, FlattenAppend
<1>6. WholeOf(g) = FlattenSeq(s) /\ WholeOf(h) = FlattenSeq(r)
  BY DEF WholeOf, s, r
<1>7. \A a \in Seq(Reply), d \in Reply : a \o <<d>> = Append(a, d) /\ a \o <<>> = a
  OBVIOUS
<1>8. /\ Len(e.packet) = DataLen => Chosen(e) = <<e>>
      /\ Len(e.packet) # DataLen => Chosen(e) = <<>>
  BY DEF Chosen
<1> QED  BY <1>5, <1>6, <1>7, <1>8 DEF h

\* What has been handed out is packets with their frames.
LEMMA WholeType ==
  ASSUME NEW g \in Seq(Reply)
  PROVE  WholeOf(g) \in Seq(Reply)
<1>1. CASE Reply = {}
  <2>1. g = <<>>
    <3>1. \A S : S = {} => \A s \in Seq(S) : s = <<>>
      OBVIOUS
    <3> QED  BY <1>1, <3>1
  <2>2. <<>> \in Seq(Reply)
    OBVIOUS
  <2> QED  BY <2>1, <2>2, WholeEmpty, Zenon
<1>2. CASE Reply # {}
  BY <1>2, WholeAppend
<1> QED  BY <1>1, <1>2

\* A text that grows keeps what the reader has read of it.
LEMMA SamePlace ==
  ASSUME NEW t, NEW n, Text(t, n), NEW u, NEW f, NEW c, Adds1(t, u, n, f, c),
         NEW x \in 0 .. t.len
  PROVE  /\ u.of[x] = t.of[x] /\ u.at[x] = t.at[x] /\ t.of[x] \in 0 .. n /\ t.at[x] \in Nat
         /\ Size(u, t.of[x]) = Size(t, t.of[x])
         /\ x # 0 => Byt(u, x) = Byt(t, x) /\ u.c[t.of[x]][t.at[x]] = t.c[t.of[x]][t.at[x]]
         /\ x = 0 => ~Inside(t, x) /\ t.of[x] = 0
         /\ (Inside(u, x) <=> Inside(t, x)) /\ (Ends(u, x, t.of[x]) <=> Ends(t, x, t.of[x]))
<1>1. t.len \in Nat /\ n \in Nat /\ x \in 0 .. t.len + 1
  BY DEF Text
<1>2. u.of[x] = t.of[x] /\ u.at[x] = t.at[x]
  BY <1>1 DEF Adds1
<1>3. CASE x = 0
  <2>1. t.of[x] = 0 /\ t.at[x] = 0
    BY <1>3 DEF Text
  <2>2. Size(u, 0) = 0 /\ Size(t, 0) = 0
    BY DEF Size
  <2> QED  BY <1>1, <1>2, <1>3, <2>1, <2>2 DEF Inside, Ends
<1>4. CASE x # 0
  <2>1. x \in 1 .. t.len
    BY <1>1, <1>4
  <2>2. t.of[x] \in 1 .. n /\ t.at[x] \in Nat
    BY <1>1, <2>1 DEF Text
  <2> DEFINE k == t.of[x]
  <2>3. u.f[k] = t.f[k] /\ u.c[k] = t.c[k]
    BY <2>2 DEF Adds1
  <2>4. k \in 0 .. n /\ k # 0
    BY <1>1, <2>2
  <2> HIDE DEF k
  <2>5. Size(u, k) = Size(t, k)
    BY <2>3, <2>4 DEF Size
  <2>6. Byt(u, x) = Byt(t, x)
    BY <1>2, <2>3 DEF Byt, k
  <2> QED  BY <1>2, <1>4, <2>2, <2>3, <2>4, <2>5, <2>6 DEF k, Inside, Ends
<1> QED  BY <1>3, <1>4

\* A frame that is sent does not matter to the reader,
LEMMA LocalGrows ==
  ASSUME NEW t, NEW n, Text(t, n), NEW u, NEW f, NEW c, Adds1(t, u, n, f, c),
         NEW x \in 0 .. t.len, NEW r, NEW hit, NEW hit2, hit \subseteq hit2, Local(t, x, r, hit)
  PROVE  Local(u, x, r, hit2)
<1>1. /\ u.of[x] = t.of[x] /\ u.at[x] = t.at[x]
      /\ x # 0 => Byt(u, x) = Byt(t, x) /\ u.c[t.of[x]][t.at[x]] = t.c[t.of[x]][t.at[x]]
      /\ x = 0 => ~Inside(t, x)
      /\ (Inside(u, x) <=> Inside(t, x)) /\ (Ends(u, x, t.of[x]) <=> Ends(t, x, t.of[x]))
  BY SamePlace
<1>2. CASE t.of[x] \in hit
  BY <1>1, <1>2 DEF Local
<1>3. CASE Ends(t, x, t.of[x]) /\ r = Empty
  BY <1>1, <1>3 DEF Local
<1>4. CASE Inside(t, x) /\ InStep(t, x, r)
  BY <1>1, <1>4 DEF Local, InStep
<1>5. CASE Inside(t, x) /\ t.of[x] - 1 \in hit /\ Astray(t, x, r)
  BY <1>1, <1>5 DEF Local, Astray
<1> QED  BY <1>2, <1>3, <1>4, <1>5 DEF Local

\* nor does one that is hit.
LEMMA LocalHit ==
  ASSUME NEW t, NEW x, NEW r, NEW hit, NEW hit2, hit \subseteq hit2, Local(t, x, r, hit)
  PROVE  Local(t, x, r, hit2)
BY DEF Local

-----------------------------------------------------------------------------
(***************************************************************************)
(* What has been handed out.                                               *)
(***************************************************************************)
Served(t, x, hit, whole) ==
  \A y \in 1 .. x :
    t.at[y] = Size(t, t.of[y]) /\ t.of[y] \notin hit /\ t.of[y] - 1 \notin hit =>
      \E i \in 1 .. Len(whole) : whole[i].frame = t.of[y]

\* The next place that is read keeps the promise if its frame does.
LEMMA ServedStep ==
  ASSUME NEW t, NEW x \in 0 .. t.len, NEW y \in 1 .. t.len, t.len \in Nat,
         NEW gone, Skips(x, y, gone), NEW hit, \A z \in gone : t.of[z] \in hit,
         NEW whole, NEW more, Len(whole) \in Nat, Len(more) \in Nat, Len(whole) <= Len(more),
         \A i \in 1 .. Len(whole) : more[i] = whole[i],
         Served(t, x, hit, whole),
         t.at[y] = Size(t, t.of[y]) /\ t.of[y] \notin hit /\ t.of[y] - 1 \notin hit =>
           \E i \in 1 .. Len(more) : more[i].frame = t.of[y]
  PROVE  Served(t, y, hit, more)
<1> SUFFICES ASSUME NEW z \in 1 .. y,
                    t.at[z] = Size(t, t.of[z]), t.of[z] \notin hit, t.of[z] - 1 \notin hit
             PROVE  \E i \in 1 .. Len(more) : more[i].frame = t.of[z]
  BY DEF Served
<1>1. z \in 1 .. x \/ z \in x + 1 .. y - 1 \/ z = y
  OBVIOUS
<1>2. z \notin x + 1 .. y - 1
  BY DEF Skips
<1>3. CASE z \in 1 .. x
  <2>1. PICK i \in 1 .. Len(whole) : whole[i].frame = t.of[z]
    BY <1>3 DEF Served
  <2>2. i \in 1 .. Len(more)
    OBVIOUS
  <2> QED  BY <2>1, <2>2
<1>4. CASE z = y
  BY <1>4
<1> QED  BY <1>1, <1>2, <1>3, <1>4

\* More frames that are hit,
LEMMA ServedHit ==
  ASSUME NEW t, NEW x, NEW hit, NEW hit2, hit \subseteq hit2, NEW whole,
         Served(t, x, hit, whole)
  PROVE  Served(t, x, hit2, whole)
BY DEF Served

\* and a longer text promise no more.
LEMMA ServedGrows ==
  ASSUME NEW t, NEW n, Text(t, n), NEW u, NEW f, NEW c, Adds1(t, u, n, f, c),
         NEW x \in 0 .. t.len, NEW hit, NEW whole, Served(t, x, hit, whole)
  PROVE  Served(u, x, hit, whole)
<1>1. \A y \in 1 .. x : u.of[y] = t.of[y] /\ u.at[y] = t.at[y] /\ Size(u, t.of[y]) = Size(t, t.of[y])
  <2> SUFFICES ASSUME NEW y \in 1 .. x
               PROVE  u.of[y] = t.of[y] /\ u.at[y] = t.at[y] /\ Size(u, t.of[y]) = Size(t, t.of[y])
    OBVIOUS
  <2>1. y \in 0 .. t.len
    BY DEF Text
  <2> QED  BY <2>1, SamePlace
<1> QED  BY <1>1 DEF Served

\* What has been handed out stays.
LEMMA WholeGrows ==
  ASSUME Types, Types', got' = got \/ \E e : got' = Append(got, e)
  PROVE  /\ Whole \in Seq(Reply) /\ Whole' \in Seq(Reply)
         /\ Len(Whole) \in Nat /\ Len(Whole') \in Nat /\ Len(Whole) <= Len(Whole')
         /\ \A i \in 1 .. Len(Whole) : Whole'[i] = Whole[i]
<1>1. got \in Seq(Reply) /\ got' \in Seq(Reply)
  BY DEF Types
<1>2. \A s \in Seq(Reply) : Len(s) \in Nat
  OBVIOUS
<1>3. \A s \in Seq(Reply), e \in Reply :
        /\ Append(s, e) \in Seq(Reply) /\ Len(s) <= Len(Append(s, e))
        /\ \A i \in 1 .. Len(s) : Append(s, e)[i] = s[i]
  OBVIOUS
<1>4. CASE got' = got
  <2>1. WholeOf(got) \in Seq(Reply)
    BY <1>1, WholeType
  <2>2. \A s \in Seq(Reply) : Len(s) \in Nat /\ Len(s) <= Len(s)
    OBVIOUS
  <2> QED  BY <1>4, <2>1, <2>2, WholeIs
<1>5. ASSUME NEW e, got' = Append(got, e)
      PROVE  /\ Whole \in Seq(Reply) /\ Whole' \in Seq(Reply)
             /\ Len(Whole) \in Nat /\ Len(Whole') \in Nat /\ Len(Whole) <= Len(Whole')
             /\ \A i \in 1 .. Len(Whole) : Whole'[i] = Whole[i]
  <2>1. e \in Reply
    <3>1. Len(got) + 1 \in DOMAIN Append(got, e) /\ Append(got, e)[Len(got) + 1] = e
      BY <1>1
    <3>2. \A i \in DOMAIN got' : got'[i] \in Reply
      BY <1>1
    <3> QED  BY <1>5, <3>1, <3>2
  <2>2. /\ WholeOf(got) \in Seq(Reply)
        /\ WholeOf(got') = Append(WholeOf(got), e) \/ WholeOf(got') = WholeOf(got)
    BY <1>1, <1>5, <2>1, WholeAppend
  <2>3. CASE WholeOf(got') = WholeOf(got)
    <3>1. \A s \in Seq(Reply) : Len(s) \in Nat /\ Len(s) <= Len(s)
      OBVIOUS
    <3> QED  BY <2>2, <2>3, <3>1, WholeIs
  <2>4. CASE WholeOf(got') = Append(WholeOf(got), e)
    BY <1>2, <1>3, <2>1, <2>2, <2>4, WholeIs
  <2> QED  BY <2>2, <2>3, <2>4
<1> QED  BY <1>4, <1>5

\* What fgetc does with the next byte.
LEMMA Fgetc ==
  ASSUME fgetc
  PROVE  LET r == ByteArray_PacketGet(Head(stdio).byte)
         IN  /\ fr' = After(r) /\ UNCHANGED <<sent, damaged, lost>>
             /\ r.mode # "packet" => got' = got
             /\ r.mode = "packet" /\ ~IsValid(r.arr) => got' = got
             /\ r.mode = "packet" /\ IsValid(r.arr) =>
                  got' = Append(got, [frame |-> Head(stdio).frame, packet |-> Front(r.arr)])
BY DEF fgetc, After, bounds

\* The packet is what lies before its checksum.
LEMMA Fronts ==
  ASSUME NEW S, NEW s \in Seq(S), NEW e \in S
  PROVE  Front(Append(s, e)) = s
BY DEF Front

\* A packet that was sent is handed out with the frame it was sent in.
LEMMA Hands ==
  ASSUME Types, Types', fgetc, NEW data \in Payloads,
         ByteArray_PacketGet(Head(stdio).byte) = Now("packet", Append(data, Checksum(data)))
  PROVE  Whole' = Append(Whole, [frame |-> Head(stdio).frame, packet |-> data])
<1> DEFINE e == [frame |-> Head(stdio).frame, packet |-> data]
           b == Checksum(data)
           r == ByteArray_PacketGet(Head(stdio).byte)
<1>1. data \in Seq(Byte) /\ Len(data) = DataLen
  <2>1. data \in [1 .. DataLen -> Byte] /\ DataLen \in Nat
    BY PacketGetAssumption
  <2> QED  BY <2>1
<1>2. b \in Byte /\ IsValid(Append(data, b))
  BY <1>1, ChecksumFits
<1>3. Front(Append(data, b)) = data
  BY <1>1, <1>2, Fronts
<1>4. r.mode = "packet" /\ r.arr = Append(data, b)
  BY DEF Now
<1> HIDE DEF b, r
<1>5. got' = Append(got, e)
  <2>1. r.mode = "packet" /\ IsValid(r.arr) =>
          got' = Append(got, [frame |-> Head(stdio).frame, packet |-> Front(r.arr)])
    BY Fgetc DEF r
  <2> QED  BY <1>2, <1>3, <1>4, <2>1
<1>6. Head(stdio).frame \in 1 .. MaxFrames
  <2>1. stdio # <<>> /\ stdio \in Seq(Tagged)
    BY DEF fgetc, Types
  <2>2. Head(stdio) \in Tagged
    BY <2>1
  <2> QED  BY <2>2 DEF Tagged
<1>7. e \in Reply /\ e.packet = data
  BY <1>1, <1>6 DEF Reply
<1>8. got \in Seq(Reply)
  BY DEF Types
<1> HIDE DEF e
<1>9. WholeOf(got') = Append(WholeOf(got), e)
  BY <1>1, <1>5, <1>7, <1>8, WholeAppend
<1> QED  BY <1>9, WholeIs DEF e

-----------------------------------------------------------------------------
(***************************************************************************)
(* The bytes to come are a part of a text, and the reader has read up to   *)
(* place p[0] of it.  Nothing has been sent when the program starts.       *)
(***************************************************************************)
LEMMA Starting ==
  ASSUME Init
  PROVE  \E t, p, gone : Track(t, p, gone) /\ p[0] = 0 /\ t.len = 0
<1> DEFINE t == [ len |-> 0, of |-> [x \in 0 .. 1 |-> x], at |-> [x \in 0 .. 1 |-> x],
                  f |-> <<>>, c |-> <<>> ]
           p == [x \in 0 .. 1 |-> x]
<1>1. /\ t.len = 0 /\ t.of = [x \in 0 .. 1 |-> x] /\ t.at = [x \in 0 .. 1 |-> x]
      /\ p[0] = 0 /\ p[1] = 1 /\ t.of[0] = 0 /\ t.of[1] = 1 /\ t.at[0] = 0 /\ t.at[1] = 1
  OBVIOUS
<1>2. /\ t.of \in [0 .. 1 -> Nat] /\ t.at \in [0 .. 1 -> Nat] /\ p \in [0 .. 1 -> 0 .. 1]
      /\ 0 .. 0 + 1 = 0 .. 1 /\ 1 .. 0 = {} /\ 0 .. 0 = {0}
  BY <1>1
<1> HIDE DEF t, p
<1>3. Text(t, 0)
  <2>1. Follows(t, 0, 0 + 1)
    BY <1>1 DEF Follows, Size
  <2>2. \A x, y \in 0 .. 1 : x < y => Sooner(t, x, y)
    <3>1. \A x, y \in 0 .. 1 : x < y => x = 0 /\ y = 1
      OBVIOUS
    <3> QED  BY <1>1, <3>1 DEF Sooner
  <2> QED  BY <1>1, <1>2, <2>1, <2>2 DEF Text
<1>4. unread = <<>> /\ sent = <<>> /\ Len(unread) = 0 /\ Len(sent) = 0 /\ lost = 0
  BY DEF Init, unread
<1>5. Ahead(unread, t, p, {})
  <2>1. Skips(p[0], p[0 + 1], {})
    BY <1>1 DEF Skips
  <2> QED  BY <1>1, <1>2, <1>4, <2>1 DEF Ahead
<1>6. Cardinality({}) = 0
  BY FS_EmptySet
<1>7. Track(t, p, {})
  BY <1>1, <1>2, <1>3, <1>4, <1>5, <1>6 DEF Track, Known
<1> QED  BY <1>1, <1>7

(***************************************************************************)
(* A frame that nothing hit, and whose predecessor nothing hit, has been   *)
(* handed out as soon as it has been read.                                 *)
(***************************************************************************)
Harmless(t, p, gone) ==
  /\ Track(t, p, gone) /\ p[0] \in 0 .. t.len
  /\ Local(t, p[0], fr, damaged) /\ Served(t, p[0], damaged, Whole)

HarmInv == \E t, p, gone : Harmless(t, p, gone)

\* Nothing has been sent, nothing is owed.
LEMMA HarmStarts == Init => HarmInv
<1> SUFFICES ASSUME Init PROVE HarmInv
  OBVIOUS
<1>1. PICK t, p, gone : Track(t, p, gone) /\ p[0] = 0 /\ t.len = 0
  BY Starting
<1>2. Text(t, Len(sent))
  BY <1>1 DEF Track, Known
<1>3. Ends(t, 0, t.of[0])
  BY <1>2 DEF Text, Ends, Size
<1>4. Local(t, p[0], fr, damaged)
  BY <1>1, <1>3 DEF Local, Init
<1>5. Served(t, p[0], damaged, Whole)
  <2>1. 1 .. 0 = {}
    OBVIOUS
  <2> QED  BY <1>1, <2>1 DEF Served
<1>6. p[0] \in 0 .. t.len
  BY <1>1
<1> QED  BY <1>1, <1>4, <1>5, <1>6 DEF HarmInv, Harmless

\* A frame that is sent is owed only when it has been read.
LEMMA HarmSends ==
  ASSUME Types, Send, NEW t, NEW p, NEW gone, Harmless(t, p, gone)
  PROVE  HarmInv'
<1>1. UNCHANGED <<fr, got>> /\ damaged \subseteq damaged' /\ Whole' = Whole
  <2>1. UNCHANGED <<fr, got>> /\ damaged \subseteq damaged'
    BY DEF Send
  <2> QED  BY <2>1, WholeIs
<1>2. Track(t, p, gone) /\ p[0] \in 0 .. t.len
      /\ Local(t, p[0], fr, damaged) /\ Served(t, p[0], damaged, Whole)
  BY DEF Harmless
<1>3. PICK u, q, f, c : /\ Track(u, q, gone)'
                        /\ Adds1(t, u, Len(sent), f, c) /\ Len(f) \in Nat
                        /\ q[0] = p[0]
  BY <1>2, Sends
<1>4. Text(t, Len(sent)) /\ t.len \in Nat /\ u.len = t.len + Len(f)
  BY <1>2, <1>3 DEF Track, Known, Text, Adds1
<1>5. q[0] \in 0 .. u.len /\ q[0] \in 0 .. t.len
  BY <1>2, <1>3, <1>4
<1>6. Local(u, q[0], fr, damaged')
  BY <1>1, <1>2, <1>3, <1>4, <1>5, LocalGrows
<1>7. Served(u, q[0], damaged', Whole)
  <2>1. Served(u, q[0], damaged, Whole)
    BY <1>2, <1>3, <1>4, <1>5, ServedGrows
  <2> QED  BY <1>1, <2>1, ServedHit
<1>8. Local(u, q[0], fr, damaged)' /\ Served(u, q[0], damaged, Whole)'
  BY <1>1, <1>6, <1>7
<1> QED  BY <1>3, <1>5, <1>8 DEF HarmInv, Harmless

\* The steps that hand nothing out.
LEMMA HarmKeeps ==
  ASSUME UNCHANGED <<fr, got>>, damaged \subseteq damaged',
         NEW t, NEW p, NEW gone, Harmless(t, p, gone),
         NEW q, NEW g, Track(t, q, g)', q[0] = p[0]
  PROVE  HarmInv'
<1>1. Track(t, p, gone) /\ p[0] \in 0 .. t.len
      /\ Local(t, p[0], fr, damaged) /\ Served(t, p[0], damaged, Whole)
  BY DEF Harmless
<1>2. Whole' = Whole /\ fr' = fr
  BY WholeIs
<1>3. Local(t, q[0], fr, damaged)' /\ Served(t, q[0], damaged, Whole)'
  <2>1. Local(t, q[0], fr, damaged') /\ Served(t, q[0], damaged', Whole)
    BY <1>1, LocalHit, ServedHit
  <2> QED  BY <1>2, <2>1
<1> QED  BY <1>1, <1>3 DEF HarmInv, Harmless

\* What is thrown away is not owed.
LEMMA HarmThrows ==
  ASSUME Types, Types', GivesUp \/ fileFlushInput,
         NEW t, NEW p, NEW gone, Harmless(t, p, gone)
  PROVE  HarmInv'
<1>1. Track(t, p, gone) /\ p[0] \in 0 .. t.len
      /\ Local(t, p[0], fr, damaged) /\ Served(t, p[0], damaged, Whole)
  BY DEF Harmless
<1>2. PICK q : /\ Track(t, q, gone)' /\ p[0] <= q[0] /\ q[0] \in 0 .. t.len
               /\ \A y \in p[0] + 1 .. q[0] : t.of[y] \in damaged'
               /\ \/ t.of[q[0]] \in damaged'
                  \/ Ends(t, q[0], t.of[q[0]])
               /\ fr' = Empty /\ damaged \subseteq damaged' /\ UNCHANGED <<sent, got, lost>>
  BY <1>1, Throws
<1>3. Whole' = Whole
  BY <1>2, WholeIs
<1>4. Local(t, q[0], fr', damaged')
  BY <1>2 DEF Local
<1>5. Served(t, q[0], damaged', Whole)
  <2>1. t.len \in Nat
    BY <1>1 DEF Track, Known, Text
  <2>2. \A y \in 1 .. q[0] : y \in 1 .. p[0] \/ y \in p[0] + 1 .. q[0]
    BY <1>1, <1>2, <2>1
  <2> QED  BY <1>1, <1>2, <2>2 DEF Served
<1>6. Local(t, q[0], fr, damaged)' /\ Served(t, q[0], damaged, Whole)'
  BY <1>3, <1>4, <1>5
<1> QED  BY <1>2, <1>6 DEF HarmInv, Harmless

\* fgetc pays what is owed when it reads the end of a frame.
LEMMA HarmReads ==
  ASSUME Types, Types', fgetc, NEW t, NEW p, NEW gone, Harmless(t, p, gone)
  PROVE  HarmInv'
<1>1. Track(t, p, gone) /\ p[0] \in 0 .. t.len
      /\ Local(t, p[0], fr, damaged) /\ Served(t, p[0], damaged, Whole)
  BY DEF Harmless
<1>2. PICK q : /\ Track(t, q, gone)' /\ q[0] = p[1]
               /\ Shows(t, Head(stdio), p[1]) /\ Skips(p[0], p[1], gone)
               /\ p[0] \in 0 .. t.len /\ p[1] \in 1 .. t.len
  BY <1>1, Reads
<1> DEFINE x == p[0]
           y == p[1]
           k == t.of[y]
           r == ByteArray_PacketGet(Head(stdio).byte)
<1>3. Head(stdio).byte = Byt(t, y) /\ Head(stdio).frame = k
  BY <1>2 DEF Shows, Byt
<1>4. /\ fr \in Reader /\ Blank(fr) /\ 0 \notin damaged /\ sent \in Seq(Payloads)
      /\ got \in Seq(Reply)
  BY DEF Types
<1>5. /\ fr' = After(r) /\ UNCHANGED <<sent, damaged, lost>>
      /\ got' = got \/ \E e : got' = Append(got, e)
  <2>1. /\ fr' = After(r) /\ UNCHANGED <<sent, damaged, lost>>
        /\ r.mode # "packet" => got' = got
        /\ r.mode = "packet" /\ ~IsValid(r.arr) => got' = got
        /\ r.mode = "packet" /\ IsValid(r.arr) =>
             got' = Append(got, [frame |-> Head(stdio).frame, packet |-> Front(r.arr)])
    BY Fgetc
  <2> HIDE DEF r
  <2> QED  BY <2>1
<1>6. Known(t, p, gone, unread, sent, damaged, lost)
  BY <1>1 DEF Track
<1>7. /\ Local(t, y, After(r), damaged)
      /\ t.at[y] = Size(t, k) /\ k \notin damaged /\ k - 1 \notin damaged =>
           r = Now("packet", Append(sent[k], Checksum(sent[k])))
  <2>1. LET s == ByteArray_PacketGet(Byt(t, y))
        IN  /\ Local(t, y, After(s), damaged)
            /\ t.at[y] = Size(t, t.of[y]) /\ t.of[y] \notin damaged /\ t.of[y] - 1 \notin damaged =>
                 s = Now("packet", Append(sent[t.of[y]], Checksum(sent[t.of[y]])))
    <3> HIDE DEF x, y
    <3>1. Skips(x, y, gone) /\ x \in 0 .. t.len /\ y \in 1 .. t.len /\ Local(t, x, fr, damaged)
      BY <1>1, <1>2 DEF x, y
    <3> QED  BY <1>4, <1>6, <3>1, LocalStep
  <2> QED  BY <1>3, <2>1
<1>8. k \in 1 .. Len(sent) /\ sent[k] \in Payloads
  <2>1. Text(t, Len(sent))
    BY <1>6 DEF Known
  <2>2. k \in 1 .. Len(sent)
    BY <1>2, <2>1 DEF Text
  <2> HIDE DEF k
  <2>3. sent[k] \in Payloads
    BY <1>4, <2>2
  <2> QED  BY <2>2, <2>3
<1>9. /\ Whole \in Seq(Reply) /\ Whole' \in Seq(Reply)
      /\ Len(Whole) \in Nat /\ Len(Whole') \in Nat /\ Len(Whole) <= Len(Whole')
      /\ \A i \in 1 .. Len(Whole) : Whole'[i] = Whole[i]
  BY <1>5, WholeGrows
<1>10. t.at[y] = Size(t, k) /\ k \notin damaged /\ k - 1 \notin damaged =>
         \E i \in 1 .. Len(Whole') : Whole'[i].frame = k
  <2> SUFFICES ASSUME t.at[y] = Size(t, k), k \notin damaged, k - 1 \notin damaged
               PROVE  \E i \in 1 .. Len(Whole') : Whole'[i].frame = k
    OBVIOUS
  <2> DEFINE e == [frame |-> Head(stdio).frame, packet |-> sent[k]]
  <2>1. Whole' = Append(Whole, e)
    <3>1. r = Now("packet", Append(sent[k], Checksum(sent[k])))
      BY <1>7
    <3> HIDE DEF k
    <3> QED  BY <1>8, <3>1, Hands
  <2>2. e.frame = k
    BY <1>3
  <2> HIDE DEF e, k
  <2>3. Len(Whole) + 1 \in 1 .. Len(Whole') /\ Whole'[Len(Whole) + 1] = e
    <3>1. \A s \in Seq(Reply) : \A d :
            /\ Len(Append(s, d)) = Len(s) + 1 /\ Append(s, d)[Len(s) + 1] = d
      OBVIOUS
    <3>2. Len(Whole') = Len(Whole) + 1 /\ Whole'[Len(Whole) + 1] = e
      BY <1>9, <2>1, <3>1
    <3> QED  BY <1>9, <3>2
  <2> QED  BY <2>2, <2>3
<1>11. Served(t, y, damaged, Whole')
  <2>1. t.len \in Nat /\ \A z \in gone : t.of[z] \in damaged
    BY <1>6 DEF Known, Text
  <2> HIDE DEF x, y
  <2>2. Skips(x, y, gone) /\ x \in 0 .. t.len /\ y \in 1 .. t.len /\ Served(t, x, damaged, Whole)
    BY <1>1, <1>2 DEF x, y
  <2> QED  BY <1>9, <1>10, <2>1, <2>2, ServedStep
<1>12. Local(t, q[0], fr, damaged)' /\ Served(t, q[0], damaged, Whole)'
  BY <1>2, <1>5, <1>7, <1>11
<1>13. q[0] \in 0 .. t.len
  BY <1>2
<1> QED  BY <1>2, <1>12, <1>13 DEF HarmInv, Harmless

\* A function's values are no more than its arguments.
LEMMA Images ==
  ASSUME NEW S, IsFiniteSet(S), NEW g, NEW T, \A x \in T : \E s \in S : x = g[s]
  PROVE  IsFiniteSet(T) /\ Cardinality(T) <= Cardinality(S)
         /\ Cardinality(T) \in Nat /\ Cardinality(S) \in Nat
<1> DEFINE R == { g[s] : s \in S }
           h == [ s \in S |-> g[s] ]
<1>1. h \in Surjection(S, R)
  BY DEF Surjection
<1> HIDE DEF h
<1>2. IsFiniteSet(R) /\ Cardinality(R) <= Cardinality(S)
  <2> HIDE DEF R
  <2> QED  BY <1>1, FS_Surjection
<1>3. T \in SUBSET R
  OBVIOUS
<1> HIDE DEF R
<1>4. IsFiniteSet(T) /\ Cardinality(T) <= Cardinality(R)
  BY <1>2, <1>3, FS_Subset
<1>5. Cardinality(T) \in Nat /\ Cardinality(S) \in Nat /\ Cardinality(R) \in Nat
  BY <1>2, <1>4, FS_CardinalityType
<1> QED  BY <1>2, <1>4, <1>5

\* All steps.
LEMMA HarmStep ==
  ASSUME Types, Types', [Next]_vars, HarmInv
  PROVE  HarmInv'
<1>1. PICK t, p, gone : Harmless(t, p, gone)
  BY DEF HarmInv
<1>2. Track(t, p, gone)
  BY <1>1 DEF Harmless
<1>3. CASE Send
  BY <1>1, <1>3, HarmSends
<1>4. CASE LoseByte
  <2>1. UNCHANGED <<fr, got>> /\ damaged \subseteq damaged'
    BY <1>4 DEF LoseByte
  <2>2. PICK q, g : Track(t, q, g)' /\ q[0] = p[0]
    BY <1>2, <1>4, Loses
  <2> QED  BY <1>1, <2>1, <2>2, HarmKeeps
<1>5. CASE filesWaitRead \/ StdioReads \/ StdioIsEmpty \/ UNCHANGED vars
  <2>1. UNCHANGED <<fr, got>> /\ damaged \subseteq damaged'
    BY <1>5 DEF filesWaitRead, StdioReads, StdioIsEmpty, vars, past
  <2>2. PICK q : Track(t, q, gone)' /\ q[0] = p[0]
    BY <1>2, <1>5, Waits
  <2> QED  BY <1>1, <2>1, <2>2, HarmKeeps
<1>6. CASE fgetc
  BY <1>1, <1>6, HarmReads
<1>7. CASE GivesUp \/ fileFlushInput
  BY <1>1, <1>7, HarmThrows
<1> QED  BY <1>3, <1>4, <1>5, <1>6, <1>7 DEF Next

\* When all is read every frame was handed out, or was hit, or comes after one
\* that was: the frames not handed out are at most twice those hit.
LEMMA HarmEnd ==
  ASSUME Types, HarmInv
  PROVE  HarmIsLocal
<1> SUFFICES ASSUME wire = <<>>, stdio = <<>>
             PROVE  Len(Whole) >= Len(sent) - 2 * Cardinality(damaged)
  BY DEF HarmIsLocal
<1>1. PICK t, p, gone : Harmless(t, p, gone)
  BY DEF HarmInv
<1>2. /\ Known(t, p, gone, unread, sent, damaged, lost)
      /\ p[0] \in 0 .. t.len /\ Served(t, p[0], damaged, Whole)
  BY <1>1 DEF Harmless, Track
<1>3. /\ Text(t, Len(sent)) /\ Ahead(unread, t, p, gone)
      /\ \A z \in gone : t.of[z] \in damaged
  BY <1>2 DEF Known
<1> DEFINE n == Len(sent)
           m == Len(Whole)
<1>4. n \in Nat /\ t.len \in Nat /\ damaged \in SUBSET (1 .. MaxFrames) /\ MaxFrames \in Nat
  BY <1>3, PacketGetAssumption DEF Text, Types
<1>5. m \in Nat
  <2>1. Whole \in Seq(Reply)
    <3>1. got \in Seq(Reply)
      BY DEF Types
    <3>2. WholeOf(got) \in Seq(Reply)
      BY <3>1, WholeType
    <3> QED  BY <3>2, WholeIs
  <2>2. \A s \in Seq(Reply) : Len(s) \in Nat
    OBVIOUS
  <2> QED  BY <2>1, <2>2
<1> HIDE DEF n, m
<1>6. \A y \in p[0] + 1 .. t.len : y \in gone
  <2>1. Len(unread) = 0
    BY DEF unread
  <2>2. p[1] = t.len + 1 /\ Skips(p[0], p[1], gone)
    <3>1. 0 \in 0 .. 0 /\ 0 + 1 = 1
      OBVIOUS
    <3>2. p[0 + 1] = t.len + 1 /\ Skips(p[0], p[0 + 1], gone)
      BY <1>3, <2>1, <3>1 DEF Ahead
    <3> QED  BY <3>1, <3>2
  <2>3. (t.len + 1) - 1 = t.len
    BY <1>4
  <2> QED  BY <2>2, <2>3 DEF Skips
<1> DEFINE K == { k \in 1 .. n : k \notin damaged /\ k - 1 \notin damaged }
           N == { d + 1 : d \in damaged }
<1>7. \A k \in K : \E i \in 1 .. m : k = Whole[i].frame
  <2> SUFFICES ASSUME NEW k \in K PROVE \E i \in 1 .. m : k = Whole[i].frame
    OBVIOUS
  <2>1. k \in 1 .. n /\ k \notin damaged /\ k - 1 \notin damaged
    OBVIOUS
  <2>2. PICK y \in 1 .. t.len : Ends(t, y, k)
    BY <1>3, <2>1 DEF Text, n
  <2>3. t.of[y] = k /\ t.at[y] = Size(t, t.of[y])
    BY <2>2 DEF Ends
  <2>4. y \in 1 .. p[0]
    <3>1. y \notin gone
      BY <1>3, <2>1, <2>3
    <3>2. y \notin p[0] + 1 .. t.len
      BY <1>6, <3>1
    <3> QED  BY <1>2, <1>4, <3>2
  <2>5. \E i \in 1 .. Len(Whole) : Whole[i].frame = t.of[y]
    BY <1>2, <2>1, <2>3, <2>4 DEF Served
  <2> QED  BY <2>3, <2>5 DEF m
<1>8. IsFiniteSet(K) /\ Cardinality(K) <= m /\ Cardinality(K) \in Nat
  <2>1. IsFiniteSet(1 .. m) /\ Cardinality(1 .. m) = m
    BY <1>5, FS_Interval
  <2> DEFINE g == [ i \in 1 .. m |-> Whole[i].frame ]
  <2>2. \A k \in K : \E i \in 1 .. m : k = g[i]
    BY <1>7
  <2> HIDE DEF g, K
  <2> QED  BY <2>1, <2>2, Images
<1>9. IsFiniteSet(damaged) /\ Cardinality(damaged) \in Nat
  <2>1. 1 \in Int /\ MaxFrames \in Int
    BY <1>4
  <2>2. IsFiniteSet(1 .. MaxFrames)
    BY <2>1, FS_Interval
  <2>3. IsFiniteSet(damaged)
    BY <1>4, <2>2, FS_Subset
  <2> QED  BY <2>3, FS_CardinalityType
<1>10. IsFiniteSet(N) /\ Cardinality(N) <= Cardinality(damaged) /\ Cardinality(N) \in Nat
  <2> DEFINE g == [ d \in damaged |-> d + 1 ]
  <2>1. \A x \in N : \E d \in damaged : x = g[d]
    OBVIOUS
  <2> HIDE DEF g, N
  <2> QED  BY <1>9, <2>1, Images
<1>11. 1 .. n \subseteq (K \cup damaged) \cup N
  <2> SUFFICES ASSUME NEW k \in 1 .. n, k \notin damaged, k - 1 \in damaged PROVE k \in N
    OBVIOUS
  <2>1. k = (k - 1) + 1
    BY <1>4
  <2> QED  BY <2>1
<1> HIDE DEF K, N
<1>12. IsFiniteSet(1 .. n) /\ Cardinality(1 .. n) = n
  BY <1>4, FS_Interval, SMTT(30)
<1> DEFINE A == K \cup damaged
           B == A \cup N
<1>13. /\ IsFiniteSet(A) /\ IsFiniteSet(K \cap damaged)
       /\ Cardinality(A) = Cardinality(K) + Cardinality(damaged) - Cardinality(K \cap damaged)
  BY <1>8, <1>9, FS_Union, FS_Intersection
<1> HIDE DEF A
<1>14. /\ IsFiniteSet(B) /\ IsFiniteSet(A \cap N)
       /\ Cardinality(B) = Cardinality(A) + Cardinality(N) - Cardinality(A \cap N)
  BY <1>10, <1>13, FS_Union, FS_Intersection
<1>15. 1 .. n \in SUBSET B
  BY <1>11 DEF A
<1> HIDE DEF B
<1>16. n <= Cardinality(B)
  BY <1>12, <1>14, <1>15, FS_Subset
<1>17. /\ Cardinality(K \cap damaged) \in Nat /\ Cardinality(A \cap N) \in Nat
       /\ Cardinality(A) \in Nat /\ Cardinality(B) \in Nat
  BY <1>13, <1>14, FS_CardinalityType
<1>18. m >= n - 2 * Cardinality(damaged)
  BY <1>4, <1>5, <1>8, <1>9, <1>10, <1>13, <1>14, <1>16, <1>17, SMTT(30)
<1> QED  BY <1>18 DEF m, n

(***************************************************************************)
(* HarmIsLocal, for every value of the constants and any number of lost    *)
(* bytes, silences and flushes. An STX inside of a packet ends it in       *)
(* ByteArray_PacketGet without starting the next one, so a frame that was  *)
(* hit costs the next one as well; it never costs a third, and no frame is *)
(* handed out so that another one would be missing from the count.         *)
(***************************************************************************)
THEOREM Harm == Spec => []HarmIsLocal
<1>1. Init => HarmInv
  BY HarmStarts
<1>2. Types /\ Types' /\ HarmInv /\ [Next]_vars => HarmInv'
  BY HarmStep
<1>3. Types /\ HarmInv => HarmIsLocal
  BY HarmEnd
<1> QED  BY <1>1, <1>2, <1>3, Typed, PTL DEF Spec

-----------------------------------------------------------------------------
(***************************************************************************)
(* How long a packet gets.  What a frame holds never has more than Room    *)
(* bytes, and a packet that goes on in a later frame does so because of a  *)
(* byte that was lost between the two.                                     *)
(***************************************************************************)
\* m[j] is what there is of the packet after j bytes of the frame.
Fits(f, m) ==
  /\ Len(f) \in Nat \ {0} /\ f[1] = STX /\ f[Len(f)] = ETX
  /\ m \in [1 .. Len(f) -> 0 .. Room]
  /\ \A j \in 2 .. Len(f) :
       /\ m[j - 1] <= m[j]
       /\ f[j] \notin {STX, ESC, ETX} => m[j] = m[j - 1] + 1
       /\ f[j - 1] = ESC => m[j] = m[j - 1] + 1

Lens(c) == [ i \in 1 .. Len(c) |-> Len(c[i]) ]

\* A sequence of numbers that grows has its largest at the end.
LEMMA GrowingStays ==
  ASSUME NEW n \in Nat, NEW m \in [1 .. n -> Nat], \A j \in 2 .. n : m[j - 1] <= m[j]
  PROVE  \A j \in 1 .. n : m[j] <= m[n]
<1> DEFINE T == { i \in Nat : i < n => m[n - i] <= m[n] }
<1>1. 0 \in T
  BY DEF T
<1>2. ASSUME NEW i \in T PROVE i + 1 \in T
  <2> SUFFICES ASSUME i + 1 < n PROVE m[n - (i + 1)] <= m[n]
    OBVIOUS
  <2>1. i \in Nat /\ i < n /\ m[n - i] <= m[n]
    OBVIOUS
  <2>2. n - i \in 2 .. n /\ (n - i) - 1 = n - (i + 1) /\ n - (i + 1) \in 1 .. n /\ n - i \in 1 .. n /\ n \in 1 .. n
    BY <2>1
  <2>3. m[n - (i + 1)] <= m[n - i]
    BY <2>2
  <2>4. m[n - (i + 1)] \in Nat /\ m[n - i] \in Nat /\ m[n] \in Nat
    BY <2>2
  <2> QED  BY <2>1, <2>3, <2>4
<1>3. T \in SUBSET Nat
  OBVIOUS
<1> HIDE DEF T
<1>4. \A i \in Nat : i \in T
  BY <1>1, <1>2, <1>3, AllNumbers
<1> SUFFICES ASSUME NEW j \in 1 .. n PROVE m[j] <= m[n]
  OBVIOUS
<1>5. n - j \in Nat /\ n - j < n /\ n - (n - j) = j
  OBVIOUS
<1> QED  BY <1>4, <1>5 DEF T

\* A byte makes the packet longer by one, if it is not a mark or an escape.
LEMMA LensGrow ==
  ASSUME NEW f, NEW c \in Seq(Seq(Byte)), NEW j \in 2 .. Len(c),
         NEW b \in Byte, Decodes(f, c, j), \A d \in Byte : Flip(d) \in Byte
  PROVE  /\ Lens(c)[j - 1] <= Lens(c)[j]
         /\ f[j] \notin {STX, ESC, ETX} => Lens(c)[j] = Lens(c)[j - 1] + 1
         /\ f[j - 1] = ESC => Lens(c)[j] = Lens(c)[j - 1] + 1
<1>1. /\ j \in 1 .. Len(c) /\ j - 1 \in 1 .. Len(c)
      /\ c[j] \in Seq(Byte) /\ c[j - 1] \in Seq(Byte)
  OBVIOUS
<1>2. Lens(c)[j] = Len(c[j]) /\ Lens(c)[j - 1] = Len(c[j - 1])
  BY <1>1 DEF Lens
<1>3. \A s \in Seq(Byte), d \in Byte : Len(s) \in Nat /\ Len(Append(s, d)) = Len(s) + 1
  OBVIOUS
<1>4. f[j] \in Byte /\ Flip(f[j]) \in Byte
  BY DEF Decodes
<1>5. CASE f[j - 1] = ESC
  <2>1. Len(c[j]) = Len(c[j - 1]) + 1 /\ Len(c[j - 1]) \in Nat
    BY <1>1, <1>3, <1>4, <1>5 DEF Decodes
  <2> QED  BY <1>2, <2>1
<1>6. CASE f[j - 1] # ESC /\ f[j] = ESC
  <2>1. Len(c[j]) = Len(c[j - 1]) /\ Len(c[j - 1]) \in Nat
    BY <1>1, <1>3, <1>6 DEF Decodes
  <2> QED  BY <1>2, <1>6, <2>1
<1>7. CASE f[j - 1] # ESC /\ f[j] # ESC
  <2>1. Len(c[j]) = Len(c[j - 1]) + 1 /\ Len(c[j - 1]) \in Nat
    BY <1>1, <1>3, <1>4, <1>7 DEF Decodes
  <2> QED  BY <1>2, <1>7, <2>1
<1> QED  BY <1>5, <1>6, <1>7

\* The frames of both writers are of this kind.
LEMMA FrameFits ==
  ASSUME NEW f, NEW c, NEW data \in Seq(Byte), Len(data) = DataLen,
         Clear(f, c, data) \/ Murky(f, c, data)
  PROVE  Fits(f, Lens(c))
<1> DEFINE n == Len(f)
           m == Lens(c)
           b == Checksum(data)
           more == Append(data, b)
<1>0. /\ b \in Byte /\ \A d \in Byte : Flip(d) \in Byte
      /\ STX # ESC /\ STX # ETX /\ ESC # ETX /\ DataLen \in Nat
      /\ more \in Seq(Byte) /\ Len(more) = DataLen + 1
  <2>1. b \in Byte
    BY ChecksumFits
  <2> HIDE DEF b
  <2>2. more \in Seq(Byte) /\ Len(more) = DataLen + 1
    BY <2>1
  <2> QED  BY <2>1, <2>2, FlipTypes, PacketGetAssumption
<1> HIDE DEF b, more
<1>1. /\ f \in Seq(Byte) /\ f[1] = STX /\ f[n] = ETX
      /\ c \in Seq(Seq(Byte)) /\ Len(c) = n
  BY DEF Clear, Murky, Upto
<1>2. n \in Nat
  BY <1>1
<1>3. \E e : /\ e \in 2 .. n - 1 /\ f[e] # ESC /\ \A j \in 2 .. e : Decodes(f, c, j)
             /\ \/ e = n - 1 /\ c[e] = more /\ c[n] = more
                \/ /\ e = n - 2 /\ c[e] = data /\ c[n - 1] = data /\ c[n] = more
                   /\ f[n - 1] \in {STX, ESC, ETX}
  <2>1. CASE Clear(f, c, data)
    BY <2>1 DEF Clear, Upto, more, b
  <2>2. CASE Murky(f, c, data)
    BY <2>2 DEF Murky, Upto, more, b
  <2> QED  BY <2>1, <2>2
<1>4. PICK e \in 2 .. n - 1 :
             /\ f[e] # ESC /\ \A j \in 2 .. e : Decodes(f, c, j)
             /\ \/ e = n - 1 /\ c[e] = more /\ c[n] = more
                \/ /\ e = n - 2 /\ c[e] = data /\ c[n - 1] = data /\ c[n] = more
                   /\ f[n - 1] \in {STX, ESC, ETX}
  BY <1>3
<1>5. m \in [1 .. n -> Nat] /\ \A i \in 1 .. n : m[i] = Len(c[i])
  <2>1. \A s \in Seq(Byte) : Len(s) \in Nat
    OBVIOUS
  <2>2. \A i \in 1 .. n : c[i] \in Seq(Byte)
    BY <1>1
  <2> HIDE DEF n
  <2> QED  BY <1>1, <2>1, <2>2 DEF Lens
<1> HIDE DEF n, m
<1>6. ASSUME NEW j \in 2 .. n
      PROVE  /\ m[j - 1] <= m[j]
             /\ f[j] \notin {STX, ESC, ETX} => m[j] = m[j - 1] + 1
             /\ f[j - 1] = ESC => m[j] = m[j - 1] + 1
  <2>1. CASE j <= e
    <3>1. j \in 2 .. e /\ j \in 2 .. Len(c)
      BY <1>1, <1>2, <2>1
    <3>2. Decodes(f, c, j)
      BY <1>4, <3>1
    <3> QED  BY <1>0, <1>1, <3>1, <3>2, LensGrow DEF m
  <2>2. CASE j > e /\ e = n - 1
    <3>1. j = n /\ j - 1 = e /\ e \in 1 .. n /\ n \in 1 .. n
      BY <1>2, <2>2
    <3>2. c[e] = more /\ c[n] = more
      BY <1>2, <1>4, <2>2
    <3>3. m[j - 1] = Len(more) /\ m[j] = Len(more)
      BY <1>5, <3>1, <3>2
    <3>4. f[j] = ETX /\ f[j - 1] # ESC
      BY <1>1, <1>4, <3>1
    <3> QED  BY <1>0, <3>3, <3>4
  <2>3. CASE j > e /\ e = n - 2
    <3>1. (j = n - 1 \/ j = n) /\ e \in 1 .. n /\ n \in 1 .. n /\ n - 1 \in 1 .. n /\ (n - 1) - 1 = e
      BY <1>2, <2>3
    <3>2. c[e] = data /\ c[n - 1] = data /\ c[n] = more /\ f[n - 1] \in {STX, ESC, ETX}
      BY <1>2, <1>4, <2>3
    <3>3. m[e] = DataLen /\ m[n - 1] = DataLen /\ m[n] = DataLen + 1
      BY <1>0, <1>5, <3>1, <3>2
    <3>4. CASE j = n - 1
      <4>1. j - 1 = e /\ f[j] \in {STX, ESC, ETX} /\ f[j - 1] # ESC
        BY <1>4, <3>1, <3>2, <3>4
      <4> QED  BY <1>0, <3>3, <3>4, <4>1
    <3>5. CASE j = n
      BY <1>0, <3>3, <3>5
    <3> QED  BY <3>1, <3>4, <3>5
  <2> QED  BY <1>2, <1>4, <2>1, <2>2, <2>3
<1>7. \A i \in 1 .. n : m[i] \in 0 .. Room
  <2>1. \A i \in 1 .. n : m[i] <= m[n]
    BY <1>2, <1>5, <1>6, GrowingStays
  <2>2. n \in 1 .. n /\ c[n] = more
    BY <1>2, <1>4
  <2>3. m[n] = DataLen + 1
    BY <1>0, <1>5, <2>2
  <2>4. \A i \in 1 .. n : m[i] \in Nat /\ m[i] <= DataLen + 1
    BY <1>5, <2>1, <2>3
  <2> QED  BY <1>0, <2>4 DEF Room
<1>8. m \in [1 .. n -> 0 .. Room] /\ n \in Nat \ {0}
  <2>1. n # 0
    BY <1>2, <1>4
  <2> QED  BY <1>2, <1>5, <1>7, <2>1
<1> QED  BY <1>1, <1>6, <1>8 DEF Fits, n, m

Held(t, x) == Lens(t.c[t.of[x]])[t.at[x]]

Within(t, x, gone, arr) ==
  \E H \in SUBSET gone : /\ \A z \in H : z <= x
                         /\ Len(arr) <= Room * Cardinality(H) + Held(t, x)

Bounded(t, x, gone, r) ==
  \/ r.mode = "hunting"
  \/ /\ x \in 1 .. t.len
     /\ r.mode = "escape" => Byt(t, x) = ESC /\ Inside(t, x)
     /\ Within(t, x, gone, r.arr)

\* So are all frames of the text.
LEMMA PlaceFits ==
  ASSUME NEW t, NEW p, NEW gone, NEW rest, NEW all \in Seq(Payloads), NEW hit, NEW n,
         Known(t, p, gone, rest, all, hit, n), NEW y \in 1 .. t.len
  PROVE  /\ Fits(t.f[t.of[y]], Lens(t.c[t.of[y]]))
         /\ Size(t, t.of[y]) = Len(t.f[t.of[y]]) /\ t.at[y] \in 1 .. Len(t.f[t.of[y]])
         /\ Held(t, y) \in 0 .. Room
<1> DEFINE k == t.of[y]
<1>1. /\ Text(t, Len(all)) /\ Len(all) \in Nat
      /\ \A i \in 1 .. Len(all) : \/ Clear(t.f[i], t.c[i], all[i])
                                  \/ i \in hit /\ Murky(t.f[i], t.c[i], all[i])
  BY DEF Known
<1>2. k \in 1 .. Len(all) /\ t.at[y] \in 1 .. Size(t, k)
  BY <1>1 DEF Text
<1> HIDE DEF k
<1>3. k # 0
  BY <1>1, <1>2
<1>4. all[k] \in Seq(Byte) /\ Len(all[k]) = DataLen
  <2>1. all[k] \in Payloads
    BY <1>2
  <2>2. all[k] \in [1 .. DataLen -> Byte] /\ DataLen \in Nat
    BY <2>1, PacketGetAssumption
  <2> QED  BY <2>2
<1>5. Clear(t.f[k], t.c[k], all[k]) \/ Murky(t.f[k], t.c[k], all[k])
  BY <1>1, <1>2
<1>6. Fits(t.f[k], Lens(t.c[k]))
  BY <1>4, <1>5, FrameFits
<1>7. Size(t, k) = Len(t.f[k])
  BY <1>3 DEF Size
<1>8. Lens(t.c[k])[t.at[y]] \in 0 .. Room
  BY <1>2, <1>6, <1>7 DEF Fits
<1> QED  BY <1>2, <1>6, <1>7, <1>8 DEF k, Held

\* The room for one more frame.
LEMMA MoreRoom ==
  ASSUME NEW r \in Nat, NEW a \in Nat, NEW h \in Nat, NEW s \in Nat, NEW v \in Nat,
         a <= r * h + s, s <= r
  PROVE  a <= r * (h + 1) + v /\ (s + 1 <= r \/ v >= 1 => a + 1 <= r * (h + 1) + v)
<1>1. r * (h + 1) = r * h + r /\ r * h \in Nat
  OBVIOUS
<1> QED  BY <1>1

\* fgetc: the packet is longer than the frame holds by what the frames before
\* left in the buffer, each for a byte that is gone.
LEMMA BoundedStep ==
  ASSUME fr \in Reader, Blank(fr),
         NEW t, NEW p, NEW gone, NEW rest, NEW all \in Seq(Payloads), NEW hit, NEW n,
         Known(t, p, gone, rest, all, hit, n),
         NEW x \in 0 .. t.len, NEW y \in 1 .. t.len, Skips(x, y, gone),
         Bounded(t, x, gone, fr), Byt(t, y) \in Byte
  PROVE  Bounded(t, y, gone, After(ByteArray_PacketGet(Byt(t, y))))
<1> DEFINE b == Byt(t, y)
           r == ByteArray_PacketGet(b)
           k == t.of[y]
           j == t.at[y]
           f == t.f[k]
           m == Lens(t.c[k])
<1>1. /\ Text(t, Len(all)) /\ gone \subseteq 1 .. t.len /\ t.len \in Nat
      /\ STX # ESC /\ STX # ETX /\ ESC # ETX /\ Room \in Nat
      /\ x \in Nat /\ y \in Nat
  <2>1. Text(t, Len(all)) /\ gone \subseteq 1 .. t.len
    BY DEF Known
  <2>2. t.len \in Nat
    BY <2>1 DEF Text
  <2>3. Room \in Nat
    BY PacketGetAssumption DEF Room
  <2> QED  BY <2>1, <2>2, <2>3, FlipTypes
<1>2. /\ Fits(f, m) /\ Size(t, k) = Len(f) /\ j \in 1 .. Len(f) /\ Held(t, y) \in 0 .. Room
  BY PlaceFits
<1>3. Comes(t, Len(all), gone, x, y)
  BY <1>1, NextPlace
<1>4. Held(t, y) = m[j] /\ b = f[j] /\ (Inside(t, y) <=> j < Len(f))
  BY <1>2 DEF Held, Byt, Inside
<1>5. f[1] = STX /\ f[Len(f)] = ETX /\ Len(f) \in Nat
  BY <1>2 DEF Fits
<1> HIDE DEF r, k, j, f, m, b
<1>6. CASE After(r).mode = "hunting"
  BY <1>6 DEF Bounded, r, b
<1>7. CASE r = Now("started", <<>>)
  <2>1. After(r) = r /\ r.mode # "escape" /\ r.arr = <<>>
    BY <1>7 DEF After, Now
  <2>2. Within(t, y, gone, <<>>)
    <3>1. Cardinality({}) = 0 /\ Room * 0 = 0 /\ Len(<<>>) = 0
      BY FS_EmptySet, <1>1
    <3>2. Len(<<>>) <= Room * Cardinality({}) + Held(t, y)
      BY <1>1, <1>2, <3>1
    <3> QED  BY <3>2 DEF Within
  <2> QED  BY <2>1, <2>2 DEF Bounded, r, b
\* How much longer the packet gets.
<1> DEFINE grows == Len(r.arr) = Len(fr.arr) + 1
           stays == Len(r.arr) = Len(fr.arr)
<1>8. CASE /\ After(r) = r /\ fr.mode # "hunting" /\ (r.mode = "escape" => b = ESC)
           /\ \/ grows /\ fr.mode = "escape"
              \/ grows /\ b \notin {STX, ESC, ETX}
              \/ stays /\ b = ESC
  <2>1. PICK H \in SUBSET gone : /\ \A z \in H : z <= x
                                 /\ Len(fr.arr) <= Room * Cardinality(H) + Held(t, x)
    BY <1>8 DEF Bounded, Within
  <2>2. x \in 1 .. t.len /\ (fr.mode = "escape" => Byt(t, x) = ESC /\ Inside(t, x))
    BY <1>8 DEF Bounded
  <2>3. IsFiniteSet(H) /\ Cardinality(H) \in Nat
    <3>1. IsFiniteSet(1 .. t.len) /\ H \in SUBSET (1 .. t.len)
      <4>1. 1 \in Int /\ t.len \in Int
        BY <1>1
      <4> QED  BY <1>1, <4>1, FS_Interval
    <3> QED  BY <3>1, FS_Subset, FS_CardinalityType
  <2>4. Held(t, x) \in 0 .. Room
    BY <2>2, PlaceFits
  <2>5. Len(fr.arr) \in Nat
    <3>1. fr.arr \in Seq(Byte)
      BY DEF Reader
    <3> QED  BY <3>1
  <2> DEFINE a == Len(fr.arr)
             h == Cardinality(H)
             s == Held(t, x)
             v == Held(t, y)
  <2>6. a \in Nat /\ h \in Nat /\ s \in Nat /\ v \in Nat /\ s <= Room /\ a <= Room * h + s
        /\ Room * h \in Nat
    BY <1>1, <1>2, <2>1, <2>3, <2>4, <2>5
  <2>7. r.mode = "escape" => b = ESC /\ Inside(t, y)
    <3>1. b = ESC => j # Len(f)
      BY <1>1, <1>4, <1>5
    <3> QED  BY <1>2, <1>4, <1>5, <1>8, <3>1
  <2>8. \/ y - 1 = x /\ j # 1 /\ t.of[x] = k /\ t.at[x] = j - 1
        \/ y - 1 = x /\ j = 1 /\ ~Inside(t, x)
        \/ y - 1 # x /\ y - 1 \in gone
    BY <1>3 DEF Comes, k, j
  <2>9. b = STX => fr.mode = "escape"
    BY <1>1, <1>8
  <2>10. CASE y - 1 = x /\ j # 1 /\ t.of[x] = k /\ t.at[x] = j - 1
    <3>1. j \in 2 .. Len(f)
      BY <1>2, <1>5, <2>10
    <3>2. s = m[j - 1] /\ Byt(t, x) = f[j - 1]
      BY <2>10 DEF Held, Byt, m, f
    <3>3. /\ m[j - 1] <= m[j]
          /\ f[j] \notin {STX, ESC, ETX} => m[j] = m[j - 1] + 1
          /\ f[j - 1] = ESC => m[j] = m[j - 1] + 1
      BY <1>2, <3>1 DEF Fits
    <3> HIDE DEF a, h, s, v
    <3>4. Len(r.arr) <= Room * h + v
      <4>1. v = m[j]
        BY <1>4 DEF v
      <4>2. CASE stays /\ b = ESC
        BY <2>6, <3>2, <3>3, <4>1, <4>2, SMTT(30) DEF a
      <4>3. CASE grows /\ (fr.mode = "escape" \/ b \notin {STX, ESC, ETX})
        <5>1. v = s + 1
          BY <1>4, <2>2, <3>2, <3>3, <4>1, <4>3
        <5> QED  BY <2>6, <4>3, <5>1 DEF a
      <4> QED  BY <1>8, <4>2, <4>3
    <3>5. Within(t, y, gone, r.arr)
      <4>1. \A z \in H : z <= y
        <5>1. \A z \in H : z \in Nat
          BY <1>1
        <5>2. \A z \in Nat : z <= x => z <= y
          BY <1>1, <2>10
        <5> QED  BY <2>1, <5>1, <5>2
      <4> QED  BY <3>4, <4>1 DEF Within, h, v
    <3> QED  BY <1>8, <2>7, <3>5 DEF Bounded, r, b
  <2>11. CASE y - 1 = x /\ j = 1 /\ ~Inside(t, x)
    BY <1>1, <1>4, <1>5, <1>8, <2>2, <2>11
  <2>12. CASE y - 1 # x /\ y - 1 \in gone
    <3>1. y - 1 \notin H /\ H \cup {y - 1} \in SUBSET gone
          /\ \A z \in H \cup {y - 1} : z <= y
      <4>1. y - 1 > x
        BY <1>1, <1>3, <2>12 DEF Comes
      <4>2. \A z \in H : z \in Nat /\ z <= x
        BY <1>1, <2>1
      <4>3. \A z \in Nat : z <= x => z <= y /\ z # y - 1
        BY <1>1, <4>1
      <4>4. y - 1 <= y
        BY <1>1
      <4> QED  BY <2>12, <4>2, <4>3, <4>4
    <3>2. Cardinality(H \cup {y - 1}) = h + 1
      BY <2>3, <3>1, FS_AddElement
    <3> HIDE DEF a, h, s, v
    <3>3. a <= Room * (h + 1) + v /\ (s + 1 <= Room \/ v >= 1 => a + 1 <= Room * (h + 1) + v)
      BY <1>1, <2>6, MoreRoom
    <3>4. grows => s + 1 <= Room \/ v >= 1
      <4>1. CASE fr.mode = "escape"
        <5> DEFINE kx == t.of[x]
                   jx == t.at[x]
                   fx == t.f[kx]
                   mx == Lens(t.c[kx])
        <5>1. /\ Fits(fx, mx) /\ Size(t, kx) = Len(fx) /\ jx \in 1 .. Len(fx)
          BY <2>2, PlaceFits
        <5>2. s = mx[jx] /\ fx[jx] = ESC /\ jx < Size(t, kx)
          BY <2>2, <4>1 DEF Held, Byt, s, Inside
        <5> HIDE DEF kx, jx, fx, mx
        <5>3. Len(fx) \in Nat
          BY <5>1 DEF Fits
        <5>4. jx + 1 \in 2 .. Len(fx) /\ jx + 1 \in 1 .. Len(fx) /\ (jx + 1) - 1 = jx
          BY <5>1, <5>2, <5>3
        <5>5. mx[jx + 1] = mx[jx] + 1 /\ mx[jx + 1] \in 0 .. Room
          <6>1. fx[(jx + 1) - 1] = ESC => mx[jx + 1] = mx[(jx + 1) - 1] + 1
            BY <5>1, <5>4 DEF Fits
          <6>2. mx[jx + 1] \in 0 .. Room
            BY <5>1, <5>4 DEF Fits
          <6> QED  BY <5>2, <5>4, <6>1, <6>2
        <5> QED  BY <1>1, <2>6, <5>2, <5>5
      <4>2. CASE b \notin {STX, ESC, ETX}
        <5>1. j # 1
          BY <1>4, <1>5, <4>2
        <5>2. j \in 2 .. Len(f) /\ j - 1 \in 1 .. Len(f)
          BY <1>2, <1>5, <5>1
        <5>3. m[j] = m[j - 1] + 1 /\ m[j - 1] \in Nat
          BY <1>1, <1>2, <1>4, <4>2, <5>2, SMTT(30) DEF Fits
        <5> QED  BY <1>4, <5>3 DEF v
      <4>3. CASE stays
        BY <2>6, <4>3 DEF a
      <4> QED  BY <1>8, <4>1, <4>2, <4>3
    <3>5. Len(r.arr) <= Room * (h + 1) + v
      BY <1>8, <3>3, <3>4 DEF a
    <3>6. Within(t, y, gone, r.arr)
      BY <3>1, <3>2, <3>5 DEF Within, v
    <3> QED  BY <1>8, <2>7, <3>6 DEF Bounded, r, b
  <2> QED  BY <2>8, <2>10, <2>11, <2>12
<1>9. \/ After(r).mode = "hunting"
      \/ r = Now("started", <<>>)
      \/ /\ After(r) = r /\ fr.mode # "hunting" /\ (r.mode = "escape" => b = ESC)
         /\ \/ grows /\ fr.mode = "escape"
            \/ grows /\ b \notin {STX, ESC, ETX}
            \/ stays /\ b = ESC
  <2>1. fr.arr \in Seq(Byte)
    BY DEF Reader
  <2>2. b \in Byte /\ Flip(b) \in Byte
    BY FlipTypes DEF b
  <2>3. \A z \in Byte : Len(Append(fr.arr, z)) = Len(fr.arr) + 1
    BY <2>1
  <2>4. /\ \A z : After(Now("data", z)) = Now("data", z) /\ Now("data", z).arr = z
        /\ \A z : Now("data", z).mode = "data"
        /\ \A z : After(Now("escape", z)) = Now("escape", z) /\ Now("escape", z).arr = z
        /\ \A z : After(Now("packet", z)) = Empty
        /\ After(Empty) = Empty /\ Empty.mode = "hunting"
    BY DEF After, Now, Empty
  <2>5. CASE fr.mode = "hunting"
    BY <2>4, <2>5, Moves DEF r
  <2>6. CASE fr.mode = "escape"
    <3>1. r = Now("data", Append(fr.arr, Flip(b)))
      BY <2>6, Moves DEF r
    <3> QED  BY <2>2, <2>3, <2>4, <2>6, <3>1
  <2>7. CASE fr.mode \in {"started", "data"}
    <3>1. CASE b = STX
      BY <2>4, <2>7, <3>1, Moves DEF r
    <3>2. CASE b = ETX
      BY <2>4, <2>7, <3>2, Moves DEF r
    <3>3. CASE b = ESC
      <4>1. r = Now("escape", fr.arr)
        BY <2>7, <3>3, Moves DEF r
      <4> QED  BY <2>4, <2>7, <3>3, <4>1
    <3>4. CASE b \notin {STX, ESC, ETX}
      <4>1. r = Now("data", Append(fr.arr, b))
        BY <2>7, <3>4, Moves DEF r
      <4>2. After(r) = r /\ r.mode = "data" /\ r.arr = Append(fr.arr, b)
        BY <2>4, <4>1
      <4>3. grows
        BY <2>2, <2>3, <4>2
      <4> QED  BY <2>7, <3>4, <4>2, <4>3
    <3> QED  BY <3>1, <3>2, <3>3, <3>4
  <2>8. fr.mode \in Modes
    BY DEF Reader
  <2> QED  BY <2>5, <2>6, <2>7, <2>8 DEF Modes
<1> QED  BY <1>6, <1>7, <1>8, <1>9

Roomy(t, p, gone) ==
  Track(t, p, gone) /\ p[0] \in 0 .. t.len /\ Bounded(t, p[0], gone, fr)

RoomInv == \E t, p, gone : Roomy(t, p, gone)

\* The buffer is empty at first,
LEMMA RoomStarts == Init => RoomInv
<1> SUFFICES ASSUME Init PROVE RoomInv
  OBVIOUS
<1>1. PICK t, p, gone : Track(t, p, gone) /\ p[0] = 0 /\ t.len = 0
  BY Starting
<1>2. Bounded(t, p[0], gone, fr)
  BY DEF Init, Bounded, Empty
<1>3. p[0] \in 0 .. t.len
  BY <1>1
<1> QED  BY <1>1, <1>2, <1>3 DEF RoomInv, Roomy

\* a frame that is sent does not fill it,
LEMMA RoomSends ==
  ASSUME Types, Send, NEW t, NEW p, NEW gone, Roomy(t, p, gone)
  PROVE  RoomInv'
<1>1. Track(t, p, gone) /\ p[0] \in 0 .. t.len /\ Bounded(t, p[0], gone, fr) /\ fr' = fr
  BY DEF Roomy, Send
<1>2. PICK u, q, f, c : /\ Track(u, q, gone)'
                        /\ Adds1(t, u, Len(sent), f, c) /\ Len(f) \in Nat
                        /\ q[0] = p[0]
  BY <1>1, Sends
<1>3. Text(t, Len(sent)) /\ t.len \in Nat /\ u.len = t.len + Len(f)
  BY <1>1, <1>2 DEF Track, Known, Text, Adds1
<1>4. q[0] \in 0 .. u.len /\ (p[0] \in 1 .. t.len => p[0] \in 1 .. u.len)
  BY <1>1, <1>2, <1>3
<1> DEFINE x == p[0]
<1>5. /\ u.of[x] = t.of[x] /\ u.at[x] = t.at[x]
      /\ x # 0 => Byt(u, x) = Byt(t, x) /\ u.c[t.of[x]] = t.c[t.of[x]]
      /\ (Inside(u, x) <=> Inside(t, x))
  <2>1. x # 0 => u.c[t.of[x]] = t.c[t.of[x]]
    <3>1. x # 0 => t.of[x] \in 1 .. Len(sent)
      <4>1. x # 0 => x \in 1 .. t.len
        BY <1>1, <1>3
      <4> QED  BY <1>3, <4>1 DEF Text
    <3> QED  BY <1>2, <3>1 DEF Adds1
  <2> HIDE DEF x
  <2>2. x \in 0 .. t.len
    BY <1>1 DEF x
  <2> QED  BY <1>2, <1>3, <2>1, <2>2, SamePlace
<1>6. x \in 1 .. t.len => x # 0
  BY <1>3
<1>8. ASSUME x \in 1 .. t.len, Bounded(t, x, gone, fr), fr.mode # "hunting"
      PROVE  Bounded(u, q[0], gone, fr)
  <2> HIDE DEF x
  <2>1. Held(u, x) = Held(t, x)
    BY <1>5, <1>6, <1>8 DEF Held
  <2>2. Within(u, x, gone, fr.arr)
    BY <1>8, <2>1 DEF Bounded, Within
  <2>3. x \in 1 .. u.len
    BY <1>4, <1>8 DEF x
  <2> QED  BY <1>2, <1>5, <1>6, <1>8, <2>2, <2>3 DEF Bounded, x
<1>9. Bounded(u, q[0], gone, fr)
  <2>1. fr.mode = "hunting" => Bounded(u, q[0], gone, fr)
    BY DEF Bounded
  <2>2. fr.mode # "hunting" => x \in 1 .. t.len
    BY <1>1 DEF Bounded
  <2> QED  BY <1>1, <1>8, <2>1, <2>2
<1>10. Bounded(u, q[0], gone, fr)'
  BY <1>1, <1>9
<1> QED  BY <1>2, <1>4, <1>10 DEF RoomInv, Roomy

\* nor does a loss or a wait,
LEMMA RoomKeeps ==
  ASSUME UNCHANGED fr, NEW t, NEW p, NEW gone, Roomy(t, p, gone),
         NEW q, NEW g, Track(t, q, g)', q[0] = p[0], gone \subseteq g
  PROVE  RoomInv'
<1>1. p[0] \in 0 .. t.len /\ Bounded(t, p[0], gone, fr)
  BY DEF Roomy
<1>2. Bounded(t, q[0], g, fr)
  <2>1. \A arr : Within(t, p[0], gone, arr) => Within(t, p[0], g, arr)
    BY DEF Within
  <2> QED  BY <1>1, <2>1 DEF Bounded
<1>3. Bounded(t, q[0], g, fr)'
  BY <1>2
<1> QED  BY <1>1, <1>3 DEF RoomInv, Roomy

\* a time-out or a flush empties it,
LEMMA RoomThrows ==
  ASSUME Types, Types', GivesUp \/ fileFlushInput,
         NEW t, NEW p, NEW gone, Roomy(t, p, gone)
  PROVE  RoomInv'
<1>1. Track(t, p, gone)
  BY DEF Roomy
<1>2. PICK q : Track(t, q, gone)' /\ q[0] \in 0 .. t.len /\ fr' = Empty
  BY <1>1, Throws
<1>3. Bounded(t, q[0], gone, fr)'
  BY <1>2 DEF Bounded, Empty
<1> QED  BY <1>2, <1>3 DEF RoomInv, Roomy

\* and fgetc appends what is left of the room.
LEMMA RoomReads ==
  ASSUME Types, fgetc, NEW t, NEW p, NEW gone, Roomy(t, p, gone)
  PROVE  RoomInv'
<1>1. Track(t, p, gone) /\ Bounded(t, p[0], gone, fr)
  BY DEF Roomy
<1>2. PICK q : /\ Track(t, q, gone)' /\ q[0] = p[1]
               /\ Shows(t, Head(stdio), p[1]) /\ Skips(p[0], p[1], gone)
               /\ p[0] \in 0 .. t.len /\ p[1] \in 1 .. t.len
  BY <1>1, Reads
<1> DEFINE x == p[0]
           y == p[1]
<1>3. Head(stdio).byte = Byt(t, y)
  BY <1>2 DEF Shows, Byt
<1>4. Byt(t, y) \in Byte
  <2>1. stdio # <<>> /\ stdio \in Seq(Tagged)
    BY DEF fgetc, Types
  <2>2. Head(stdio) \in Tagged
    BY <2>1
  <2>3. Head(stdio).byte \in Byte
    BY <2>2 DEF Tagged
  <2> QED  BY <1>3, <2>3
<1>5. fr' = After(ByteArray_PacketGet(Byt(t, y)))
  BY <1>3, Fgetc
<1>6. Bounded(t, y, gone, After(ByteArray_PacketGet(Byt(t, y))))
  <2>1. Known(t, p, gone, unread, sent, damaged, lost)
    BY <1>1 DEF Track
  <2>2. fr \in Reader /\ Blank(fr) /\ sent \in Seq(Payloads)
    BY DEF Types
  <2> HIDE DEF x, y
  <2>3. x \in 0 .. t.len /\ y \in 1 .. t.len /\ Skips(x, y, gone) /\ Bounded(t, x, gone, fr)
    BY <1>1, <1>2 DEF x, y
  <2> QED  BY <1>4, <2>1, <2>2, <2>3, BoundedStep
<1>7. Bounded(t, q[0], gone, fr)'
  BY <1>2, <1>5, <1>6
<1>8. q[0] \in 0 .. t.len
  <2>1. t.len \in Nat
    BY <1>1 DEF Track, Known, Text
  <2> QED  BY <1>2, <2>1
<1> QED  BY <1>2, <1>7, <1>8 DEF RoomInv, Roomy

\* All steps.
LEMMA RoomStep ==
  ASSUME Types, Types', [Next]_vars, RoomInv
  PROVE  RoomInv'
<1>1. PICK t, p, gone : Roomy(t, p, gone)
  BY DEF RoomInv
<1>2. Track(t, p, gone)
  BY <1>1 DEF Roomy
<1>3. CASE Send
  BY <1>1, <1>3, RoomSends
<1>4. CASE LoseByte
  <2>1. UNCHANGED fr
    BY <1>4 DEF LoseByte
  <2>2. PICK q, g : Track(t, q, g)' /\ q[0] = p[0] /\ gone \subseteq g
    BY <1>2, <1>4, Loses
  <2> QED  BY <1>1, <2>1, <2>2, RoomKeeps
<1>5. CASE filesWaitRead \/ StdioReads \/ StdioIsEmpty \/ UNCHANGED vars
  <2>1. UNCHANGED fr
    BY <1>5 DEF filesWaitRead, StdioReads, StdioIsEmpty, vars
  <2>2. PICK q : Track(t, q, gone)' /\ q[0] = p[0]
    BY <1>2, <1>5, Waits
  <2> QED  BY <1>1, <2>1, <2>2, RoomKeeps
<1>6. CASE fgetc
  BY <1>1, <1>6, RoomReads
<1>7. CASE GivesUp \/ fileFlushInput
  BY <1>1, <1>7, RoomThrows
<1> QED  BY <1>3, <1>4, <1>5, <1>6, <1>7 DEF Next

\* The sum of it.
LEMMA RoomEnough ==
  ASSUME NEW r \in Nat, NEW h \in Nat, NEW m \in Nat, NEW s \in Nat, NEW a \in Nat,
         a <= r * h + s, s <= r, h <= m
  PROVE  a <= (m + 1) * r
<1>1. m - h \in Nat /\ m = h + (m - h)
  OBVIOUS
<1>2. \A d \in Nat : ((h + d) + 1) * r = (r * h + r * d) + r /\ r * d \in Nat /\ r * h \in Nat
  OBVIOUS
<1>3. (m + 1) * r = (r * h + r * (m - h)) + r /\ r * (m - h) \in Nat /\ r * h \in Nat
  BY <1>1, <1>2
<1> QED  BY <1>3

\* No more bytes are gone than were lost.
LEMMA RoomEnds ==
  ASSUME Types, RoomInv
  PROVE  StaysInRoom
<1>1. PICK t, p, gone : Track(t, p, gone) /\ Bounded(t, p[0], gone, fr)
  BY DEF RoomInv, Roomy
<1>2. fr \in Reader /\ Blank(fr) /\ fr.arr \in Seq(Byte) /\ fr.mode \in Modes
  BY DEF Types, Reader
<1>3. Len(fr.arr) \in Nat /\ Room \in Nat /\ lost \in Nat
  BY <1>2, PacketGetAssumption DEF Types, Room
<1>4. Len(fr.arr) <= (lost + 1) * Room
  <2>1. CASE fr.mode = "hunting"
    <3>1. fr.arr = <<>>
      BY <1>2, <2>1 DEF Blank
    <3>2. Len(<<>>) = 0 /\ 0 <= (lost + 1) * Room
      BY <1>3
    <3> QED  BY <1>3, <3>1, <3>2
  <2>2. CASE fr.mode # "hunting"
    <3>1. p[0] \in 1 .. t.len /\ Within(t, p[0], gone, fr.arr)
      BY <1>1, <2>2 DEF Bounded
    <3>2. PICK H \in SUBSET gone : Len(fr.arr) <= Room * Cardinality(H) + Held(t, p[0])
      BY <3>1 DEF Within
    <3>3. /\ Known(t, p, gone, unread, sent, damaged, lost) /\ sent \in Seq(Payloads)
          /\ t.len \in Nat /\ gone \subseteq 1 .. t.len /\ Cardinality(gone) <= lost
      BY <1>1 DEF Track, Known, Types, Text
    <3>4. Held(t, p[0]) \in 0 .. Room
      BY <3>1, <3>3, PlaceFits
    <3>5. IsFiniteSet(gone)
      <4>1. 1 \in Int /\ t.len \in Int
        BY <3>3
      <4>2. IsFiniteSet(1 .. t.len)
        BY <4>1, FS_Interval
      <4> QED  BY <3>3, <4>2, FS_Subset
    <3>6. IsFiniteSet(H) /\ Cardinality(H) <= Cardinality(gone)
      BY <3>2, <3>5, FS_Subset
    <3>7. Cardinality(H) \in Nat /\ Cardinality(gone) \in Nat
      BY <3>5, <3>6, FS_CardinalityType
    <3>8. Cardinality(H) <= lost
      BY <1>3, <3>3, <3>6, <3>7
    <3>10. Held(t, p[0]) \in Nat /\ Held(t, p[0]) <= Room
      BY <1>3, <3>4
    <3> QED  BY <1>3, <3>2, <3>7, <3>8, <3>10, RoomEnough
  <2> QED  BY <2>1, <2>2
<1> QED  BY <1>4 DEF StaysInRoom

(***************************************************************************)
(* TypeOK: the modes, the places and the numbers of the frames.            *)
(***************************************************************************)
THEOREM Typing == Spec => []TypeOK
<1>1. Types => TypeOK
  BY DEF Types, TypeOK, Reader, Modes, Reply
<1> QED  BY <1>1, Typed, PTL

(***************************************************************************)
(* StaysInRoom, for every size of packet and every number of lost bytes:   *)
(* filePacketGet appends whatever comes until an end or a start, and does  *)
(* not know how long a packet should be.  Two frames are joined when the   *)
(* end of one is lost and the start of the next is lost too, or is taken   *)
(* for an escaped byte.  So a BAT3reply, the room that all callers give,   *)
(* is enough as long as nothing is lost, whatever silences and flushes cut *)
(* off; each lost byte may take as much room again behind it.              *)
(***************************************************************************)
THEOREM Fitting == Spec => []StaysInRoom
<1>1. Init => RoomInv
  BY RoomStarts
<1>2. Types /\ Types' /\ RoomInv /\ [Next]_vars => RoomInv'
  BY RoomStep
<1>3. Types /\ RoomInv => StaysInRoom
  BY RoomEnds
<1> QED  BY <1>1, <1>2, <1>3, Typed, PTL DEF Spec

-----------------------------------------------------------------------------
(***************************************************************************)
(* A line that loses nothing.  A reader that finds a frame under way takes *)
(* nothing of it, unless the checksum looks like a start, which the end    *)
(* follows at once.                                                        *)
(***************************************************************************)
Exact(t, x, r) ==
  \/ r = Empty
  \/ r.mode = "data" /\ ~Inside(t, x)
  \/ Inside(t, x) /\ InStep(t, x, r)
  \/ r.mode = "started" /\ t.at[x] + 1 = Size(t, t.of[x])

\* How a frame that cannot be understood begins and ends.
LEMMA MurkyBytes ==
  ASSUME NEW f, NEW c, NEW data, Murky(f, c, data)
  PROVE  /\ Len(f) \in Nat /\ Len(f) >= 4
         /\ f[1] = STX /\ c[1] = <<>> /\ f[Len(f)] = ETX
         /\ f[Len(f) - 2] \notin {STX, ESC, ETX}
         /\ f[Len(f) - 1] = Checksum(data) /\ Checksum(data) \in {STX, ESC, ETX}
         /\ c[Len(f) - 2] = data /\ c[Len(f) - 1] = data
         /\ Upto(f, c, Len(f) - 2, data)
<1>1. Upto(f, c, Len(f) - 2, data)
  BY DEF Murky
<1>2. /\ f \in Seq(Byte) /\ f[1] = STX /\ f[Len(f)] = ETX /\ c[1] = <<>>
      /\ Len(f) - 2 \in 2 .. Len(f) - 1 /\ f[Len(f) - 2] # ESC
      /\ c[Len(f) - 2] = data
      /\ \A j \in 2 .. Len(f) - 2 : Decodes(f, c, j)
  BY <1>1 DEF Upto
<1>3. Len(f) \in Nat
  <2>1. \A s \in Seq(Byte) : Len(s) \in Nat
    OBVIOUS
  <2> QED  BY <1>2, <2>1
<1>4. Len(f) >= 4 /\ Len(f) - 2 \in 2 .. Len(f) - 2
  BY <1>2, <1>3
<1>5. f[Len(f) - 2] \notin {STX, ETX}
  BY <1>2, <1>4 DEF Decodes
<1> QED  BY <1>1, <1>2, <1>3, <1>4, <1>5 DEF Murky

\* The ways in which a byte leaves the reader where it may be.
Fine(t, y, r, data) ==
  /\ Exact(t, y, After(r))
  /\ r.mode = "packet" =>
       \/ ~IsValid(r.arr)
       \/ t.at[y] = Size(t, t.of[y]) /\ r.arr = Append(data, Checksum(data))

\* A byte may empty the buffer,
LEMMA FineEmpty ==
  ASSUME NEW t, NEW y, NEW data
  PROVE  Fine(t, y, Empty, data)
BY DEF Fine, Exact, After, Empty

\* complete a packet that is refused, or the one that was sent,
LEMMA FinePacket ==
  ASSUME NEW t, NEW y, NEW data, NEW arr,
         \/ ~IsValid(arr)
         \/ t.at[y] = Size(t, t.of[y]) /\ arr = Append(data, Checksum(data))
  PROVE  Fine(t, y, Now("packet", arr), data)
<1>1. /\ Now("packet", arr).mode = "packet" /\ Now("packet", arr).arr = arr
      /\ After(Now("packet", arr)) = Empty
  BY DEF Now, After
<1> QED  BY <1>1 DEF Fine, Exact

\* or leave the reader in step.
LEMMA FineInStep ==
  ASSUME NEW t, NEW y, NEW data, NEW r, Inside(t, y), InStep(t, y, r)
  PROVE  Fine(t, y, r, data)
<1>1. r.mode = Taken(Byt(t, y))
  BY DEF InStep, Now
<1>2. r.mode # "packet"
  BY <1>1 DEF Taken
<1> QED  BY <1>2 DEF Fine, Exact, After

\* If nothing has been lost, every byte is of one of these kinds.
LEMMA ExactStep ==
  ASSUME fr \in Reader, Blank(fr),
         NEW t, NEW p, NEW rest, NEW all \in Seq(Payloads), NEW hit, NEW n,
         Known(t, p, {}, rest, all, hit, n),
         NEW x \in 0 .. t.len, NEW y \in 1 .. t.len, Skips(x, y, {}),
         Exact(t, x, fr)
  PROVE  Fine(t, y, ByteArray_PacketGet(Byt(t, y)), all[t.of[y]])
<1> DEFINE b == Byt(t, y)
           r == ByteArray_PacketGet(b)
           k == t.of[y]
           j == t.at[y]
           f == t.f[k]
           c == t.c[k]
           l == Len(f)
           data == all[k]
<1>1. /\ Text(t, Len(all)) /\ STX # ESC /\ STX # ETX /\ ESC # ETX
      /\ \A i \in 1 .. Len(all) : \/ Clear(t.f[i], t.c[i], all[i])
                                  \/ i \in hit /\ Murky(t.f[i], t.c[i], all[i])
  BY FlipTypes DEF Known
<1>2. Comes(t, Len(all), {}, x, y)
  BY <1>1, NextPlace
<1>3. /\ y - 1 = x /\ k \in 1 .. Len(all) /\ j \in 1 .. Size(t, k)
      /\ \/ j = 1 /\ ~Inside(t, x)
         \/ j # 1 /\ t.of[x] = k /\ t.at[x] = j - 1 /\ Inside(t, x)
  BY <1>2 DEF Comes
<1>4. Size(t, k) = l /\ Len(all) \in Nat
  <2>1. Size(t, k) = Len(t.f[t.of[y]])
    BY PlaceFits
  <2> QED  BY <1>1, <2>1 DEF Text
<1>5. b = f[j] /\ (Inside(t, y) <=> j < l)
  BY <1>4 DEF Byt, Inside
<1>6. Clear(f, c, data) \/ Murky(f, c, data)
  BY <1>1, <1>3
<1>7. data \in Seq(Byte)
  <2>1. data \in Payloads
    BY <1>3
  <2> QED  BY <2>1, PacketGetAssumption
<1> HIDE DEF b, r, k, j, f, c, l, data
<1>8. /\ l \in Nat /\ l >= 3 /\ f[1] = STX /\ c[1] = <<>> /\ f[l] = ETX
  BY <1>6, ClearBytes, MurkyBytes DEF l
<1>9. CASE j = 1
  <2>1. b = STX /\ Inside(t, y) /\ ~Inside(t, x)
    BY <1>3, <1>5, <1>8, <1>9
  <2>2. fr = Empty \/ fr.mode = "data" \/ fr.mode = "started"
    BY <2>1 DEF Exact
  <2>3. r = Now("started", <<>>) \/ r = Empty
    <3>1. fr = Empty => fr.mode = "hunting"
      BY DEF Empty
    <3> QED  BY <2>1, <2>2, <3>1, Moves DEF r
  <2>4. InStep(t, y, Now("started", <<>>))
    BY <1>1, <1>8, <1>9, <2>1 DEF InStep, Taken, b, k, j, c
  <2> QED  BY <2>1, <2>3, <2>4, FineEmpty, FineInStep DEF r, b, data, k
<1>10. CASE j # 1
  <2>1. j \in 2 .. l /\ t.of[x] = k /\ t.at[x] = j - 1 /\ Inside(t, x)
    BY <1>3, <1>4, <1>8, <1>10
  <2>2. \/ fr = Empty
        \/ fr = Now(Taken(f[j - 1]), c[j - 1])
        \/ fr.mode = "started" /\ j = l
    <3>1. InStep(t, x, fr) => fr = Now(Taken(f[j - 1]), c[j - 1])
      BY <2>1 DEF InStep, Byt, f, c
    <3>2. t.at[x] + 1 = Size(t, t.of[x]) => j = l
      <4>1. (j - 1) + 1 = j
        BY <1>8, <2>1
      <4> QED  BY <1>4, <2>1, <4>1
    <3> QED  BY <2>1, <3>1, <3>2 DEF Exact
  <2>3. \E e, d : /\ Upto(f, c, e, d) /\ f[e] \notin {STX, ESC, ETX} /\ c[e] = d
                  /\ \/ e = l - 1 /\ d = Append(data, Checksum(data))
                     \/ /\ e = l - 2 /\ d = data /\ c[l - 1] = data
                        /\ f[l - 1] = Checksum(data) /\ Checksum(data) \in {STX, ESC, ETX}
    <3>1. CASE Clear(f, c, data)
      <4>1. /\ f[l - 1] \notin {STX, ESC, ETX} /\ c[l - 1] = Append(data, Checksum(data))
            /\ Upto(f, c, l - 1, Append(data, Checksum(data)))
        BY <3>1, ClearBytes DEF l
      <4> QED  BY <4>1
    <3>2. CASE Murky(f, c, data)
      <4>1. /\ f[l - 2] \notin {STX, ESC, ETX}
            /\ f[l - 1] = Checksum(data) /\ Checksum(data) \in {STX, ESC, ETX}
            /\ c[l - 2] = data /\ c[l - 1] = data
            /\ Upto(f, c, l - 2, data)
        BY <3>2, MurkyBytes DEF l
      <4> QED  BY <4>1
    <3> QED  BY <1>6, <3>1, <3>2
  <2>4. PICK e, d : /\ Upto(f, c, e, d) /\ f[e] \notin {STX, ESC, ETX} /\ c[e] = d
                    /\ \/ e = l - 1 /\ d = Append(data, Checksum(data))
                       \/ /\ e = l - 2 /\ d = data /\ c[l - 1] = data
                          /\ f[l - 1] = Checksum(data) /\ Checksum(data) \in {STX, ESC, ETX}
    BY <2>3
  <2>5. /\ e \in 2 .. l - 1
        /\ \A i \in 2 .. e : f[i] \notin {STX, ETX}
    BY <2>4 DEF Upto, Decodes, l
  <2>6. j \in 2 .. e \/ (j = l - 1 /\ e = l - 2) \/ j = l
    BY <1>8, <2>1, <2>4, <2>5
  <2>7. r = ByteArray_PacketGet(f[j])
    BY <1>5 DEF r
  <2>8. CASE fr = Empty
    <3>1. fr.mode = "hunting"
      BY <2>8 DEF Empty
    <3>2. CASE f[j] # STX
      BY <2>7, <3>1, <3>2, Moves, FineEmpty DEF r, b, data, k
    <3>3. CASE f[j] = STX
      <4>1. j = l - 1
        BY <1>1, <1>8, <2>5, <2>6, <3>3
      <4>2. r = Now("started", <<>>)
        BY <2>7, <3>1, <3>3, Moves
      <4>3. After(r) = r /\ r.mode = "started"
        BY <4>2 DEF After, Now
      <4>4. t.at[y] + 1 = Size(t, t.of[y])
        BY <1>4, <1>8, <4>1 DEF j, k
      <4> QED  BY <4>3, <4>4 DEF Fine, Exact, r, b, data, k
    <3> QED  BY <3>2, <3>3
  <2>9. CASE fr.mode = "started" /\ j = l
    <3>1. r = Empty
      BY <1>8, <2>7, <2>9, Moves
    <3> QED  BY <3>1, FineEmpty DEF r, b, data, k
  <2>10. CASE fr = Now(Taken(f[j - 1]), c[j - 1])
    <3>1. fr.mode = Taken(f[j - 1]) /\ fr.arr = c[j - 1]
      BY <2>10 DEF Now
    <3>2. CASE j \in 2 .. e
      <4>1. r = Now(Taken(f[j]), c[j])
        BY <2>4, <2>7, <2>10, <3>2, StaysInStep
      <4>2. Inside(t, y)
        BY <1>5, <1>8, <2>5, <3>2
      <4>3. InStep(t, y, r)
        BY <1>5, <4>1 DEF InStep, b, c, j, k
      <4> QED  BY <4>2, <4>3, FineInStep DEF r, b, data, k
    <3>3. CASE j = l /\ e = l - 1
      <4>1. fr.mode = "data" /\ fr.arr = Append(data, Checksum(data))
        <5>1. j - 1 = e /\ d = Append(data, Checksum(data))
          BY <1>8, <2>4, <3>3
        <5> QED  BY <2>4, <3>1, <5>1 DEF Taken
      <4>2. r = Now("packet", Append(data, Checksum(data)))
        BY <1>8, <2>7, <3>3, <4>1, Moves
      <4>3. t.at[y] = Size(t, t.of[y])
        BY <1>4, <3>3 DEF j, k
      <4> QED  BY <4>2, <4>3, FinePacket DEF r, b, data, k
    <3>4. CASE j = l - 1 /\ e = l - 2
      <4>1. /\ j - 1 = e /\ d = data /\ c[j] = data
            /\ f[j] = Checksum(data) /\ Checksum(data) \in {STX, ESC, ETX}
        BY <1>8, <2>4, <3>4
      <4>2. fr.mode = "data" /\ fr.arr = data
        BY <2>4, <3>1, <4>1 DEF Taken
      <4>3. CASE f[j] = STX
        <5>1. r = Empty
          BY <2>7, <4>2, <4>3, Moves
        <5> QED  BY <5>1, FineEmpty DEF r, b, data, k
      <4>4. CASE f[j] = ESC
        <5>1. r = Now("escape", data)
          BY <2>7, <4>2, <4>4, Moves
        <5>2. Inside(t, y)
          BY <1>5, <1>8, <3>4
        <5>3. InStep(t, y, r)
          BY <1>5, <4>1, <4>4, <5>1 DEF InStep, Taken, b, c, j, k
        <5> QED  BY <5>2, <5>3, FineInStep DEF r, b, data, k
      <4>5. CASE f[j] = ETX
        <5>1. r = Now("packet", data)
          BY <2>7, <4>2, <4>5, Moves
        <5>2. ~IsValid(data)
          BY <1>7, <4>1, <4>5, ChecksumFits
        <5> QED  BY <5>1, <5>2, FinePacket DEF r, b, data, k
      <4> QED  BY <4>1, <4>3, <4>4, <4>5
    <3>5. CASE j = l /\ e = l - 2
      <4>1. /\ c[j - 1] = data
            /\ f[j - 1] = Checksum(data) /\ Checksum(data) \in {STX, ESC, ETX}
            /\ f[j] = ETX /\ ~Inside(t, y)
        <5>1. e # l - 1
          BY <1>8, <3>5
        <5> QED  BY <1>5, <1>8, <2>4, <3>5, <5>1
      <4>2. CASE f[j - 1] = STX
        <5>1. fr.mode = "started"
          BY <1>1, <3>1, <4>2 DEF Taken
        <5>2. r = Empty
          BY <2>7, <4>1, <5>1, Moves
        <5> QED  BY <5>2, FineEmpty DEF r, b, data, k
      <4>3. CASE f[j - 1] = ESC
        <5>1. fr.mode = "escape"
          BY <3>1, <4>3 DEF Taken
        <5>2. r = Now("data", Append(fr.arr, Flip(f[j])))
          BY <2>7, <5>1, Moves
        <5>3. After(r) = r /\ r.mode = "data"
          BY <5>2 DEF After, Now
        <5> QED  BY <4>1, <5>3 DEF Fine, Exact, r, b, data, k
      <4>4. CASE f[j - 1] = ETX
        <5>1. fr.mode = "data" /\ fr.arr = data
          BY <1>1, <3>1, <4>1, <4>4 DEF Taken
        <5>2. r = Now("packet", data)
          BY <2>7, <4>1, <5>1, Moves
        <5>3. ~IsValid(data)
          BY <1>7, <4>1, <4>4, ChecksumFits
        <5> QED  BY <5>2, <5>3, FinePacket DEF r, b, data, k
      <4> QED  BY <4>1, <4>2, <4>3, <4>4
    <3>6. \/ j \in 2 .. e
          \/ j = l /\ e = l - 1
          \/ j = l - 1 /\ e = l - 2
          \/ j = l /\ e = l - 2
      BY <2>4, <2>6
    <3> QED  BY <3>2, <3>3, <3>4, <3>5, <3>6
  <2> QED  BY <2>2, <2>8, <2>9, <2>10
<1> QED  BY <1>9, <1>10 DEF r, b, data, k

\* The last packet handed out is from a frame before those to come.
Sorted(t, x, last) == \A z \in x + 1 .. t.len + 1 : last < t.of[z]

LastOf(whole) == IF whole = <<>> THEN 0 ELSE whole[Len(whole)].frame

\* The last frame is a number.
LEMMA LastType ==
  ASSUME NEW whole \in Seq(Reply)
  PROVE  LastOf(whole) \in Nat
<1>1. MaxFrames \in Nat /\ \A e \in Reply : e.frame \in 1 .. MaxFrames
  BY PacketGetAssumption DEF Reply
<1>2. \A s \in Seq(Reply) : s # <<>> => s[Len(s)] \in Reply
  OBVIOUS
<1>3. whole # <<>> => whole[Len(whole)].frame \in Nat
  BY <1>1, <1>2
<1> QED  BY <1>3 DEF LastOf

Lossless(t, p) ==
  /\ Track(t, p, {}) /\ p[0] \in 0 .. t.len
  /\ Exact(t, p[0], fr) /\ Sorted(t, p[0], LastOf(Whole))

ExactInv == lost = 0 => \E t, p : Lossless(t, p)

\* Nothing has been read.
LEMMA ExactStarts == Init => ExactInv
<1> SUFFICES ASSUME Init PROVE \E t, p : Lossless(t, p)
  BY DEF ExactInv
<1>1. PICK t, p, gone : Track(t, p, gone) /\ p[0] = 0 /\ t.len = 0
  BY Starting
<1>2. gone = {}
  <2>1. gone \subseteq 1 .. 0
    BY <1>1 DEF Track, Known
  <2> QED  BY <2>1
<1>3. Exact(t, p[0], fr)
  BY DEF Init, Exact
<1>4. Whole = <<>>
  BY WholeIs, WholeEmpty DEF Init
<1>5. Sorted(t, p[0], LastOf(Whole))
  <2>1. Text(t, Len(sent)) /\ Len(sent) = 0
    BY <1>1 DEF Track, Known, Init
  <2>2. t.of[1] = 1
    <3>1. t.of[t.len + 1] = Len(sent) + 1
      BY <2>1 DEF Text
    <3> QED  BY <1>1, <2>1, <3>1
  <2>3. \A z \in 0 + 1 .. 0 + 1 : z = 1
    OBVIOUS
  <2> QED  BY <1>1, <1>4, <2>2, <2>3 DEF Sorted, LastOf
<1>6. p[0] \in 0 .. t.len
  BY <1>1
<1> QED  BY <1>1, <1>2, <1>3, <1>5, <1>6 DEF Lossless

\* A frame that is sent comes after all that were read.
LEMMA ExactSends ==
  ASSUME Types, Send, NEW t, NEW p, Lossless(t, p)
  PROVE  ExactInv'
<1>1. /\ Track(t, p, {}) /\ p[0] \in 0 .. t.len
      /\ Exact(t, p[0], fr) /\ Sorted(t, p[0], LastOf(Whole))
  BY DEF Lossless
<1>2. fr' = fr /\ Whole' = Whole
  <2>1. UNCHANGED <<fr, got>>
    BY DEF Send
  <2> QED  BY <2>1, WholeIs
<1>3. PICK u, q, f, c : /\ Track(u, q, {})'
                        /\ Adds1(t, u, Len(sent), f, c) /\ Len(f) \in Nat
                        /\ q[0] = p[0]
  BY <1>1, Sends
<1>4. Text(t, Len(sent)) /\ t.len \in Nat /\ u.len = t.len + Len(f) /\ Len(sent) \in Nat
  BY <1>1, <1>3 DEF Track, Known, Text, Adds1
<1>5. q[0] \in 0 .. u.len
  BY <1>1, <1>3, <1>4
<1> DEFINE x == p[0]
<1>6. /\ u.of[x] = t.of[x] /\ u.at[x] = t.at[x] /\ Size(u, t.of[x]) = Size(t, t.of[x])
      /\ x # 0 => Byt(u, x) = Byt(t, x) /\ u.c[t.of[x]][t.at[x]] = t.c[t.of[x]][t.at[x]]
      /\ x = 0 => ~Inside(t, x)
      /\ (Inside(u, x) <=> Inside(t, x))
  <2> HIDE DEF x
  <2>1. x \in 0 .. t.len
    BY <1>1 DEF x
  <2> QED  BY <1>3, <1>4, <2>1, SamePlace
<1>7. Exact(u, q[0], fr)
  <2>1. Exact(t, x, fr)
    BY <1>1
  <2> HIDE DEF x
  <2>2. Exact(u, x, fr)
    <3>1. Inside(t, x) /\ InStep(t, x, fr) => InStep(u, x, fr)
      BY <1>6 DEF InStep
    <3> QED  BY <1>6, <2>1, <3>1 DEF Exact
  <2> QED  BY <1>3, <2>2 DEF x
<1>8. Sorted(u, q[0], LastOf(Whole))
  <2> DEFINE last == LastOf(Whole)
             l == t.len
             n == Len(sent)
  <2> HIDE DEF x, last, l, n
  <2>1. x \in 0 .. l /\ l \in Nat /\ n \in Nat /\ Len(f) \in Nat /\ u.len = l + Len(f)
    BY <1>1, <1>3, <1>4 DEF x, l, n
  <2>2. \A z \in x + 1 .. l + 1 : last < t.of[z]
    BY <1>1 DEF Sorted, x, last, l
  <2>3. t.of[l + 1] = n + 1 /\ l + 1 \in x + 1 .. l + 1
    BY <1>4, <2>1 DEF Text, n, l
  <2>4. last < n + 1
    BY <2>2, <2>3
  <2>5. u.of[u.len + 1] = (n + 1) + 1
    <3>1. Text(u, Len(sent'))
      BY <1>3 DEF Track, Known
    <3>2. Len(sent') = n + 1
      <4>1. \E d \in Payloads : sent' = Append(sent, d)
        BY DEF Send
      <4>2. sent \in Seq(Payloads)
        BY DEF Types
      <4> QED  BY <4>1, <4>2 DEF n
    <3> QED  BY <3>1, <3>2 DEF Text
  <2>6. LastOf(Whole) = last
    BY DEF last
  <2>7. last \in Int
    <3>1. got \in Seq(Reply)
      BY DEF Types
    <3>2. WholeOf(got) \in Seq(Reply)
      BY <3>1, WholeType
    <3> QED  BY <3>2, WholeIs, LastType DEF last
  <2>8. ASSUME NEW z \in x + 1 .. u.len + 1 PROVE last < u.of[z]
    <3>1. z \in x + 1 .. l \/ z - l \in 1 .. Len(f) \/ z = u.len + 1
      BY <2>1
    <3>2. CASE z \in x + 1 .. l
      <4>1. z \in x + 1 .. l + 1 /\ z \in 0 .. l + 1
        BY <2>1, <3>2
      <4>2. u.of[z] = t.of[z]
        BY <1>3, <4>1 DEF Adds1, l
      <4> QED  BY <2>2, <4>1, <4>2
    <3>3. CASE z - l \in 1 .. Len(f)
      <4>1. u.of[l + (z - l)] = n + 1
        BY <1>3, <3>3 DEF Adds1, l, n
      <4>2. l + (z - l) = z
        BY <2>1
      <4> QED  BY <2>4, <4>1, <4>2
    <3>4. CASE z = u.len + 1
      BY <2>1, <2>4, <2>5, <2>7, <3>4
    <3> QED  BY <3>1, <3>2, <3>3, <3>4
  <2> QED  BY <1>3, <2>6, <2>8 DEF Sorted, x
<1>9. Exact(u, q[0], fr)' /\ Sorted(u, q[0], LastOf(Whole))'
  BY <1>2, <1>7, <1>8
<1> QED  BY <1>3, <1>5, <1>9 DEF ExactInv, Lossless

\* The steps that read nothing.
LEMMA ExactKeeps ==
  ASSUME UNCHANGED <<fr, got>>, NEW t, NEW p, Lossless(t, p),
         NEW q, Track(t, q, {})', q[0] = p[0]
  PROVE  ExactInv'
<1>1. p[0] \in 0 .. t.len /\ Exact(t, p[0], fr) /\ Sorted(t, p[0], LastOf(Whole))
  BY DEF Lossless
<1>2. fr' = fr /\ Whole' = Whole
  BY WholeIs
<1>3. Exact(t, q[0], fr)' /\ Sorted(t, q[0], LastOf(Whole))'
  BY <1>1, <1>2
<1> QED  BY <1>1, <1>3 DEF ExactInv, Lossless

\* What is thrown away does not come any more.
LEMMA ExactThrows ==
  ASSUME Types, Types', GivesUp \/ fileFlushInput, NEW t, NEW p, Lossless(t, p)
  PROVE  ExactInv'
<1>1. Track(t, p, {}) /\ p[0] \in 0 .. t.len /\ Sorted(t, p[0], LastOf(Whole))
  BY DEF Lossless
<1>2. PICK q : /\ Track(t, q, {})' /\ p[0] <= q[0] /\ q[0] \in 0 .. t.len
               /\ fr' = Empty /\ UNCHANGED got
  BY <1>1, Throws
<1>3. Exact(t, q[0], fr)'
  BY <1>2 DEF Exact
<1>4. Sorted(t, q[0], LastOf(Whole))
  <2>1. t.len \in Nat
    BY <1>1 DEF Track, Known, Text
  <2>2. \A z \in q[0] + 1 .. t.len + 1 : z \in p[0] + 1 .. t.len + 1
    BY <1>1, <1>2, <2>1
  <2> QED  BY <1>1, <2>2 DEF Sorted
<1>5. Sorted(t, q[0], LastOf(Whole))'
  BY <1>2, <1>4, WholeIs
<1> QED  BY <1>2, <1>3, <1>5 DEF ExactInv, Lossless

\* fgetc hands nothing out, or the packet of the frame that it is in.
LEMMA ExactReads ==
  ASSUME Types, Types', fgetc, NEW t, NEW p, Lossless(t, p)
  PROVE  /\ ExactInv'
         /\ \/ Whole' = Whole
            \/ \E k \in 1 .. Len(sent) :
                 /\ LastOf(Whole) < k
                 /\ Whole' = Append(Whole, [frame |-> k, packet |-> sent[k]])
<1>1. /\ Track(t, p, {}) /\ p[0] \in 0 .. t.len
      /\ Exact(t, p[0], fr) /\ Sorted(t, p[0], LastOf(Whole))
  BY DEF Lossless
<1>2. PICK q : /\ Track(t, q, {})' /\ q[0] = p[1]
               /\ Shows(t, Head(stdio), p[1]) /\ Skips(p[0], p[1], {})
               /\ p[0] \in 0 .. t.len /\ p[1] \in 1 .. t.len
  BY <1>1, Reads
<1> DEFINE x == p[0]
           y == p[1]
           k == t.of[y]
           b == Byt(t, y)
           r == ByteArray_PacketGet(b)
<1>3. Head(stdio).byte = b /\ Head(stdio).frame = k
  BY <1>2 DEF Shows, Byt
<1>4. Known(t, p, {}, unread, sent, damaged, lost) /\ Text(t, Len(sent)) /\ t.len \in Nat
  BY <1>1 DEF Track, Known, Text
<1>5. fr \in Reader /\ Blank(fr) /\ sent \in Seq(Payloads) /\ got \in Seq(Reply)
  BY DEF Types
<1>6. Fine(t, y, r, sent[k])
  <2>1. x \in 0 .. t.len /\ y \in 1 .. t.len /\ Skips(x, y, {}) /\ Exact(t, x, fr)
    BY <1>1, <1>2
  <2> HIDE DEF x, y
  <2> QED  BY <1>4, <1>5, <2>1, ExactStep
<1>7. k \in 1 .. Len(sent) /\ sent[k] \in Payloads
  <2>1. k \in 1 .. Len(sent)
    BY <1>2, <1>4 DEF Text
  <2> HIDE DEF k
  <2>2. sent[k] \in Payloads
    BY <1>5, <2>1
  <2> QED  BY <2>1, <2>2
<1>8. x \in 0 .. t.len /\ y \in 1 .. t.len /\ x < y
  BY <1>2 DEF Skips
<1>9. /\ fr' = After(r)
      /\ r.mode # "packet" => got' = got
      /\ r.mode = "packet" /\ ~IsValid(r.arr) => got' = got
      /\ r.mode = "packet" /\ IsValid(r.arr) =>
           got' = Append(got, [frame |-> Head(stdio).frame, packet |-> Front(r.arr)])
  BY <1>3, Fgetc
<1>10. Exact(t, q[0], fr)'
  BY <1>2, <1>6, <1>9 DEF Fine
<1>11. q[0] \in 0 .. t.len
  BY <1>2, <1>4
<1>12. CASE got' = got
  <2>1. Whole' = Whole
    BY <1>12, WholeIs
  <2>2. Sorted(t, q[0], LastOf(Whole))
    <3>1. \A z \in y + 1 .. t.len + 1 : z \in x + 1 .. t.len + 1
      BY <1>4, <1>8
    <3> QED  BY <1>1, <1>2, <3>1 DEF Sorted
  <2>3. Sorted(t, q[0], LastOf(Whole))'
    BY <2>1, <2>2
  <2> QED  BY <1>2, <1>10, <1>11, <2>1, <2>3 DEF ExactInv, Lossless
<1>13. CASE got' # got
  <2>1. r.mode = "packet" /\ IsValid(r.arr)
    BY <1>9, <1>13
  <2>2. t.at[y] = Size(t, k) /\ r.arr = Append(sent[k], Checksum(sent[k]))
    BY <1>6, <2>1 DEF Fine
  <2>3. r = Now("packet", Append(sent[k], Checksum(sent[k])))
    <3>1. r \in [mode : Modes \cup {"packet"}, arr : Seq(Byte)]
      <4>1. b \in Byte
        <5>1. stdio # <<>> /\ stdio \in Seq(Tagged)
          BY DEF fgetc, Types
        <5>2. Head(stdio) \in Tagged
          BY <5>1
        <5>3. Head(stdio).byte \in Byte
          BY <5>2 DEF Tagged
        <5> QED  BY <1>3, <5>3
      <4> HIDE DEF b
      <4> QED  BY <1>5, <4>1, ReaderTypes
    <3> HIDE DEF r, k
    <3>2. r = [mode |-> r.mode, arr |-> r.arr]
      BY <3>1
    <3> QED  BY <2>1, <2>2, <3>2 DEF Now
  <2> DEFINE e == [frame |-> k, packet |-> sent[k]]
  <2>4. Whole' = Append(Whole, e)
    <3>1. Head(stdio).byte = b /\ Head(stdio).frame = k
          /\ ByteArray_PacketGet(b) = Now("packet", Append(sent[k], Checksum(sent[k])))
      BY <1>3, <2>3
    <3> HIDE DEF k, b
    <3> QED  BY <1>7, <3>1, Hands
  <2>5. LastOf(Whole) < k
    <3>1. y \in x + 1 .. t.len + 1
      BY <1>4, <1>8
    <3> QED  BY <1>1, <3>1 DEF Sorted
  <2>6. LastOf(Whole') = k
    <3>1. Whole \in Seq(Reply)
      <4>1. WholeOf(got) \in Seq(Reply)
        BY <1>5, WholeType
      <4> QED  BY <4>1, WholeIs
    <3>2. e.frame = k
      OBVIOUS
    <3> HIDE DEF e, k
    <3>3. \A s \in Seq(Reply) : \A d :
            Append(s, d) # <<>> /\ Append(s, d)[Len(Append(s, d))] = d
      OBVIOUS
    <3> QED  BY <2>4, <3>1, <3>2, <3>3 DEF LastOf
  <2>7. Sorted(t, q[0], LastOf(Whole'))
    <3> SUFFICES ASSUME NEW z \in y + 1 .. t.len + 1 PROVE k < t.of[z]
      BY <1>2, <2>6 DEF Sorted
    <3>1. z \in 0 .. t.len + 1 /\ y \in 0 .. t.len + 1 /\ y < z
      BY <1>4, <1>8
    <3>2. Sooner(t, y, z)
      BY <1>4, <3>1 DEF Text
    <3>3. ~(t.of[y] = t.of[z] /\ t.at[y] < t.at[z])
      <4> SUFFICES ASSUME t.of[y] = t.of[z], t.at[y] < t.at[z] PROVE FALSE
        OBVIOUS
      <4>1. z \in 1 .. t.len \/ z = t.len + 1
        BY <1>4, <1>8
      <4>2. CASE z \in 1 .. t.len
        <5>1. t.at[z] \in 1 .. Size(t, t.of[z])
          BY <1>4, <4>2 DEF Text
        <5>2. t.at[z] \in 1 .. t.at[y]
          BY <2>2, <5>1
        <5>3. t.at[y] \in Nat
          BY <1>4, <3>1 DEF Text
        <5> QED  BY <5>2, <5>3
      <4>3. CASE z = t.len + 1
        <5>1. t.of[z] = Len(sent) + 1 /\ Len(sent) \in Nat
          BY <1>4, <4>3 DEF Text
        <5>2. t.of[z] \in 1 .. Len(sent)
          BY <1>7
        <5> QED  BY <5>1, <5>2
      <4> QED  BY <4>1, <4>2, <4>3
    <3> QED  BY <3>2, <3>3 DEF Sooner
  <2>8. Sorted(t, q[0], LastOf(Whole))'
    BY <2>7
  <2> QED  BY <1>2, <1>7, <1>10, <1>11, <2>4, <2>5, <2>8 DEF ExactInv, Lossless
<1> QED  BY <1>12, <1>13

\* Every step of the line is a step of Channel, or none.
LEMMA ExactStepping ==
  ASSUME Types, Types', [Next]_vars, ExactInv, lost' = 0
  PROVE  ExactInv' /\ [Line!Submit \/ Line!Deliver]_(<<sent, Whole>>)
<1>0. lost = 0
  BY DEF Next, Send, LoseByte, filesWaitRead, StdioReads, StdioIsEmpty, fgetc, GivesUp,
         fileFlushInput, Forget, bounds, vars, Types
<1>1. PICK t, p : Lossless(t, p)
  BY <1>0 DEF ExactInv
<1>2. Track(t, p, {})
  BY <1>1 DEF Lossless
<1>3. CASE Send
  <2>1. ExactInv'
    BY <1>1, <1>3, ExactSends
  <2>2. UNCHANGED got /\ \E d \in Payloads : sent' = Append(sent, d)
    BY <1>3 DEF Send
  <2>3. Whole' = Whole
    BY <2>2, WholeIs
  <2> QED  BY <2>1, <2>2, <2>3 DEF Line!Submit
<1>4. CASE LoseByte
  BY <1>0, <1>4 DEF LoseByte
<1>5. CASE filesWaitRead \/ StdioReads \/ StdioIsEmpty \/ UNCHANGED vars
  <2>1. UNCHANGED <<fr, got, sent>>
    BY <1>5 DEF filesWaitRead, StdioReads, StdioIsEmpty, vars, past
  <2>2. PICK q : Track(t, q, {})' /\ q[0] = p[0]
    BY <1>2, <1>5, Waits
  <2>3. ExactInv'
    BY <1>1, <2>1, <2>2, ExactKeeps
  <2> QED  BY <2>1, <2>3, WholeIs
<1>6. CASE fgetc
  <2>1. /\ ExactInv'
        /\ \/ Whole' = Whole
           \/ \E k \in 1 .. Len(sent) :
                /\ LastOf(Whole) < k
                /\ Whole' = Append(Whole, [frame |-> k, packet |-> sent[k]])
    BY <1>1, <1>6, ExactReads
  <2>2. UNCHANGED sent
    BY <1>6 DEF fgetc
  <2>3. Line!Last = LastOf(Whole)
    BY DEF Line!Last, LastOf
  <2>4. LastOf(Whole) \in Nat
    <3>1. got \in Seq(Reply)
      BY DEF Types
    <3>2. WholeOf(got) \in Seq(Reply)
      BY <3>1, WholeType
    <3> QED  BY <3>2, WholeIs, LastType
  <2>5. ASSUME NEW k \in 1 .. Len(sent), LastOf(Whole) < k,
               Whole' = Append(Whole, [frame |-> k, packet |-> sent[k]])
        PROVE  Line!Deliver
    <3>1. k \in Line!Last + 1 .. Len(sent)
      <4>1. sent \in Seq(Payloads)
        BY DEF Types
      <4> QED  BY <2>3, <2>4, <2>5, <4>1
    <3> QED  BY <2>2, <2>5, <3>1 DEF Line!Deliver
  <2> QED  BY <2>1, <2>2, <2>5
<1>7. CASE GivesUp \/ fileFlushInput
  <2>1. ExactInv'
    BY <1>1, <1>7, ExactThrows
  <2>2. UNCHANGED <<sent, got>>
    BY <1>7 DEF GivesUp, fileFlushInput, Forget
  <2> QED  BY <2>1, <2>2, WholeIs
<1> QED  BY <1>3, <1>4, <1>5, <1>6, <1>7 DEF Next

(***************************************************************************)
(* ImplementsChannel, on a line that loses nothing, whatever silences and  *)
(* flushes there are, and wherever they hit: what filePacketGet hands out  *)
(* was sent, each packet at most once and in the order of sending. When    *)
(* bytes are lost this holds in the run but not for all constants, since   *)
(* parts of two frames may have a right sum.                               *)
(***************************************************************************)
THEOREM Implements == Spec /\ [](lost = 0) => ImplementsChannel
<1>1. Init => ExactInv /\ Line!Init
  <2>1. Init => Line!Init
    <3>1. Init => Whole = <<>>
      BY WholeIs, WholeEmpty DEF Init
    <3> QED  BY <3>1 DEF Init, Line!Init
  <2> QED  BY <2>1, ExactStarts
<1>2. Types /\ Types' /\ ExactInv /\ (lost = 0)' /\ [Next]_vars =>
        ExactInv' /\ [Line!Submit \/ Line!Deliver]_(<<sent, Whole>>)
  BY ExactStepping
<1> QED  BY <1>1, <1>2, Typed, PTL DEF Spec, ImplementsChannel, Line!Spec

=============================================================================
