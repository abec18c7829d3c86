---------------------------- MODULE StreamProofs ----------------------------
(***************************************************************************)
(* What is proved of the serial line: see Stream.                          *)
(***************************************************************************)
EXTENDS Stream, FiniteSetTheorems, TLAPS

-----------------------------------------------------------------------------
(***************************************************************************)
(* Induction, for a set of numbers, and functions defined by recursion.    *)
(***************************************************************************)
LEMMA AllNumbers ==
  ASSUME NEW T \in SUBSET Nat, 0 \in T, \A n \in T : n + 1 \in T
  PROVE  \A n \in Nat : n \in T
<1> DEFINE rest  == Nat \ T
           less == { p \in Nat \X Nat : p[1] < p[2] }
<1> SUFFICES ASSUME rest # {} PROVE FALSE
  OBVIOUS
<1>1. OpToRel(<, Nat) = less
  BY DEF OpToRel
<1>2. IsWellFoundedOn(less, Nat)
  BY <1>1, NatLessThanWellFounded
<1>3. PICK m \in rest : \A k \in rest : ~(<<k, m>> \in less)
  <2>1. rest \subseteq Nat
    OBVIOUS
  <2> HIDE DEF less, rest
  <2> QED  BY <1>2, <2>1, WFMin, Zenon
<1>4. m - 1 \in Nat /\ (m - 1) + 1 = m
  OBVIOUS
<1>5. m - 1 \in rest
  BY <1>4
<1>6. <<m - 1, m>> \in less
  BY <1>4
<1> QED  BY <1>3, <1>5, <1>6

\* A recursive function on 0 .. n has the values that its definition gives it.
Steps(n, S) == [1 .. n -> [S -> S]]

Repeated(g, n, S, base, step) ==
  /\ g \in [0 .. n -> S]
  /\ g[0] = base /\ \A i \in 1 .. n : g[i] = step[i][g[i - 1]]

LEMMA Recursion ==
  ASSUME NEW n \in Nat, NEW S, NEW base \in S, NEW step \in Steps(n, S)
  PROVE  \E g : Repeated(g, n, S, base, step)
<1> USE DEF Steps
<1> DEFINE Follows(g, m) == g[0] = base /\ \A i \in 1 .. m : g[i] = step[i][g[i - 1]]
           T == { m \in Nat : m <= n => \E g \in [0 .. m -> S] : Follows(g, m) }
<1>1. 0 \in T
  <2>1. [ i \in 0 .. 0 |-> base ] \in [0 .. 0 -> S] /\ Follows([ i \in 0 .. 0 |-> base ], 0)
    OBVIOUS
  <2> QED  BY <2>1
<1>2. ASSUME NEW m \in T PROVE m + 1 \in T
  <2>1. m \in Nat /\ m + 1 \in Nat
    OBVIOUS
  <2> SUFFICES ASSUME m + 1 <= n PROVE \E g \in [0 .. m + 1 -> S] : Follows(g, m + 1)
    BY <2>1
  <2>2. PICK h \in [0 .. m -> S] : Follows(h, m)
    BY <2>1
  <2> DEFINE g == [ i \in 0 .. m + 1 |-> IF i <= m THEN h[i] ELSE step[m + 1][h[m]] ]
  <2>3. step[m + 1] \in [S -> S] /\ h[m] \in S
    BY <2>1, <2>2
  <2>4. step[m + 1][h[m]] \in S
    BY <2>3
  <2>5. g \in [0 .. m + 1 -> S]
    BY <2>1, <2>2, <2>4
  <2>6. g[0] = base
    BY <2>1, <2>2
  <2>7. ASSUME NEW i \in 1 .. m + 1 PROVE g[i] = step[i][g[i - 1]]
    <3>1. CASE i \in 1 .. m
      <4>1. i \in 0 .. m + 1 /\ i - 1 \in 0 .. m + 1 /\ i <= m /\ i - 1 <= m
        BY <2>1, <3>1
      <4>2. g[i] = h[i] /\ g[i - 1] = h[i - 1]
        BY <4>1
      <4>3. h[i] = step[i][h[i - 1]]
        BY <2>2, <3>1
      <4> HIDE DEF g
      <4> QED  BY <4>2, <4>3
    <3>2. CASE i = m + 1
      BY <2>1, <3>2
    <3> QED  BY <2>1, <3>1, <3>2
  <2> HIDE DEF g
  <2> QED  BY <2>5, <2>6, <2>7
<1>3. n \in T
  <2>1. T \in SUBSET Nat
    OBVIOUS
  <2> HIDE DEF T
  <2> QED  BY <1>1, <1>2, <2>1, AllNumbers
<1> QED  BY <1>3 DEF Repeated

-----------------------------------------------------------------------------
(***************************************************************************)
(* The checksum and the escapes.                                           *)
(***************************************************************************)
LEMMA CrcType ==
  ASSUME NEW data \in Seq(Byte)
  PROVE  calcCrc(data) \in Byte
<1> DEFINE n == Len(data)
           F(f) == [ i \in 0 .. n |-> IF i = 0 THEN 0 ELSE f[i - 1] + data[i] ]
           sum == CHOOSE f : f = F(f)
<1>1. n \in Nat /\ \A i \in 1 .. n : data[i] \in Int
  <2>1. n \in Nat /\ \A i \in 1 .. n : data[i] \in Byte
    OBVIOUS
  <2>2. \A b \in Byte : b \in Int
    BY DEF Byte
  <2> QED  BY <2>1, <2>2
<1>2. \E f : f = F(f)
  <2> DEFINE step == [ i \in 1 .. n |-> [ x \in Int |-> x + data[i] ] ]
  <2>1. step \in [1 .. n -> [Int -> Int]]
    <3>1. \A i \in 1 .. n : [ x \in Int |-> x + data[i] ] \in [Int -> Int]
      BY <1>1
    <3> QED  BY <3>1
  <2>2. PICK g : Repeated(g, n, Int, 0, step)
    <3> DEFINE Z == Int
               zero == 0
    <3>1. zero \in Z /\ n \in Nat /\ step \in Steps(n, Z)
      BY <1>1, <2>1 DEF Steps
    <3> HIDE DEF step, n, Z, zero
    <3>2. \E g : Repeated(g, n, Z, zero, step)
      BY <3>1, Recursion
    <3> QED  BY <3>2 DEF Z, zero
  <2>3. ASSUME NEW i \in 1 .. n PROVE g[i] = g[i - 1] + data[i]
    <3>1. i - 1 \in 0 .. n
      BY <1>1
    <3>3. g[i] = step[i][g[i - 1]]
      <4> HIDE DEF step
      <4> QED  BY <2>2 DEF Repeated
    <3>2. step[i] = [ x \in Int |-> x + data[i] ] /\ g[i - 1] \in Int
      BY <2>2, <3>1 DEF Repeated
    <3> QED  BY <3>2, <3>3
  <2>4. g = F(g)
    BY <1>1, <2>2, <2>3 DEF Repeated
  <2> HIDE DEF F
  <2> QED  BY <2>4
<1>3. sum = F(sum)
  <2> HIDE DEF F
  <2> QED  BY <1>2, Zenon
<1>4. calcCrc(data) = (255 - sum[n]) % 256
  BY DEF calcCrc
<1> DEFINE T == { i \in Nat : i <= n => sum[i] \in Int }
<1> HIDE DEF sum
<1>5. 0 \in T
  BY <1>1, <1>3
<1>6. ASSUME NEW i \in T PROVE i + 1 \in T
  <2>1. i \in Nat /\ i + 1 \in Nat
    OBVIOUS
  <2>2. CASE i + 1 <= n
    <3>1. i + 1 \in 0 .. n /\ i + 1 # 0 /\ (i + 1) - 1 = i /\ i + 1 \in 1 .. n /\ i <= n
      BY <1>1, <2>1, <2>2
    <3>2. sum[i + 1] = sum[i] + data[i + 1]
      BY <1>3, <3>1
    <3>3. data[i + 1] \in Int /\ sum[i] \in Int
      BY <1>1, <3>1
    <3> QED  BY <2>1, <3>2, <3>3
  <2> QED  BY <2>1, <2>2
<1>7. n \in T
  <2>1. T \in SUBSET Nat
    OBVIOUS
  <2> HIDE DEF T, n, F
  <2> QED  BY <1>1, <1>5, <1>6, <2>1, AllNumbers
<1>8. sum[n] \in Int
  BY <1>1, <1>7
<1> HIDE DEF n
<1>9. 255 - sum[n] \in Int
  BY <1>8
<1>10. \A x \in Int : x % 256 \in 0 .. 255
  OBVIOUS
<1> QED  BY <1>4, <1>9, <1>10 DEF Byte

\* A byte is sent as it is, or as an escape and a byte that is no mark.
LEMMA EscapedByte ==
  ASSUME NEW b \in Byte
  PROVE  /\ Escaped(b) \in Seq(Byte)
         /\ \/ Escaped(b) = <<b>> /\ b \notin {STX, ESC, ETX}
            \/ /\ Escaped(b) = <<ESC, Flip(b)>> /\ Flip(b) \in Byte \ {STX, ESC, ETX}
               /\ Flip(Flip(b)) = b
<1>1. CASE b \in {STX, ESC, ETX, 17, 19}
  <2>1. /\ Flip(b) \in Byte \ {STX, ESC, ETX} /\ Flip(Flip(b)) = b /\ ESC \in Byte
    BY <1>1 DEF Flip, Byte, STX, ESC, ETX
  <2>2. Escaped(b) = <<ESC, Flip(b)>>
    BY <1>1 DEF Escaped
  <2>3. \A x, y \in Byte : <<x, y>> \in Seq(Byte)
    OBVIOUS
  <2> QED  BY <2>1, <2>2, <2>3
<1>2. CASE b \notin {STX, ESC, ETX, 17, 19}
  <2>1. Escaped(b) = <<b>>
    BY <1>2 DEF Escaped
  <2>2. <<b>> \in Seq(Byte)
    OBVIOUS
  <2> QED  BY <1>2, <2>1, <2>2
<1> QED  BY <1>1, <1>2

Grows(out, n, data) ==
  /\ out \in [0 .. n -> Seq(Byte)] /\ out[0] = <<>>
  /\ \A i \in 1 .. n : out[i] = out[i - 1] \o Escaped(data[i])

\* EscapedAll puts together what the bytes are sent as.
LEMMA EscapedParts ==
  ASSUME NEW data \in Seq(Byte)
  PROVE  \E out : Grows(out, Len(data), data) /\ EscapedAll(data) = out[Len(data)]
<1> DEFINE n == Len(data)
           F(f) == [ i \in 0 .. n |-> IF i = 0 THEN <<>> ELSE f[i - 1] \o Escaped(data[i]) ]
           out == CHOOSE f : f = F(f)
<1>1. n \in Nat /\ \A i \in 1 .. n : data[i] \in Byte
  OBVIOUS
<1>2. \A i \in 1 .. n : Escaped(data[i]) \in Seq(Byte)
  BY <1>1, EscapedByte
<1>3. \E f : f = F(f)
  <2> DEFINE step == [ i \in 1 .. n |-> [ x \in Seq(Byte) |-> x \o Escaped(data[i]) ] ]
  <2>1. step \in Steps(n, Seq(Byte))
    <3>1. ASSUME NEW i \in 1 .. n
          PROVE  [ x \in Seq(Byte) |-> x \o Escaped(data[i]) ] \in [Seq(Byte) -> Seq(Byte)]
      <4>1. Escaped(data[i]) \in Seq(Byte)
        BY <1>2
      <4> QED  BY <4>1
    <3> QED  BY <3>1 DEF Steps
  <2>2. PICK g : Repeated(g, n, Seq(Byte), <<>>, step)
    <3>1. <<>> \in Seq(Byte)
      OBVIOUS
    <3> HIDE DEF step, n
    <3> QED  BY <1>1, <2>1, <3>1, Recursion
  <2>3. ASSUME NEW i \in 1 .. n PROVE g[i] = g[i - 1] \o Escaped(data[i])
    <3>1. i - 1 \in 0 .. n
      BY <1>1
    <3>2. g[i] = step[i][g[i - 1]]
      <4> HIDE DEF step
      <4> QED  BY <2>2 DEF Repeated
    <3>3. step[i] = [ x \in Seq(Byte) |-> x \o Escaped(data[i]) ] /\ g[i - 1] \in Seq(Byte)
      BY <2>2, <3>1 DEF Repeated
    <3> QED  BY <3>2, <3>3
  <2>4. g = F(g)
    <3>1. ASSUME NEW i \in 0 .. n PROVE g[i] = F(g)[i]
      <4>1. CASE i = 0
        <5>1. g[0] = <<>>
          BY <2>2 DEF Repeated
        <5> QED  BY <4>1, <5>1
      <4>2. CASE i # 0
        <5>1. i \in 1 .. n
          BY <1>1, <4>2
        <5>2. F(g)[i] = g[i - 1] \o Escaped(data[i])
          BY <4>2
        <5> HIDE DEF F, n
        <5> QED  BY <2>3, <5>1, <5>2
      <4> QED  BY <4>1, <4>2
    <3>2. g = [ i \in 0 .. n |-> g[i] ]
      <4> HIDE DEF step, F, n
      <4> QED  BY <2>2 DEF Repeated
    <3>3. F(g) = [ i \in 0 .. n |-> F(g)[i] ]
      OBVIOUS
    <3> HIDE DEF F, n
    <3> QED  BY <3>1, <3>2, <3>3
  <2> HIDE DEF F
  <2> QED  BY <2>4
<1>4. out = F(out)
  <2> HIDE DEF F
  <2> QED  BY <1>3, Zenon
<1>5. EscapedAll(data) = out[n]
  BY DEF EscapedAll
<1> HIDE DEF out
<1>6. /\ out[0] = <<>>
      /\ \A i \in 1 .. n : out[i] = out[i - 1] \o Escaped(data[i])
  BY <1>1, <1>4
<1> DEFINE T == { i \in Nat : i <= n => out[i] \in Seq(Byte) }
<1>7. 0 \in T
  <2>1. <<>> \in Seq(Byte)
    OBVIOUS
  <2>2. out[0] \in Seq(Byte)
    BY <1>6, <2>1
  <2> HIDE DEF n
  <2> QED  BY <2>2
<1>8. ASSUME NEW i \in T PROVE i + 1 \in T
  <2>1. i \in Nat /\ i + 1 \in Nat
    OBVIOUS
  <2>2. CASE i + 1 <= n
    <3>1. (i + 1) - 1 = i /\ i + 1 \in 1 .. n /\ i <= n
      BY <1>1, <2>1, <2>2
    <3>2. out[i + 1] = out[i] \o Escaped(data[i + 1])
      BY <1>6, <3>1
    <3>3. Escaped(data[i + 1]) \in Seq(Byte) /\ out[i] \in Seq(Byte)
      BY <1>2, <3>1
    <3>4. \A s, t \in Seq(Byte) : s \o t \in Seq(Byte)
      OBVIOUS
    <3>5. out[i + 1] \in Seq(Byte)
      BY <3>2, <3>3, <3>4
    <3> HIDE DEF n
    <3> QED  BY <2>1, <3>5
  <2> HIDE DEF n
  <2> QED  BY <2>1, <2>2
<1>9. \A i \in Nat : i \in T
  <2>1. T \in SUBSET Nat
    OBVIOUS
  <2> HIDE DEF T, n, F
  <2> QED  BY <1>7, <1>8, <2>1, AllNumbers
<1>10. out \in [0 .. n -> Seq(Byte)]
  <2>1. \A i \in 0 .. n : out[i] \in Seq(Byte)
    BY <1>1, <1>9
  <2> QED  BY <1>4, <2>1
<1> QED  BY <1>5, <1>6, <1>10 DEF Grows

\* What has been put together stays as it is.
LEMMA GrowsAtEnd ==
  ASSUME NEW n \in Nat, NEW data, NEW out, Grows(out, n, data),
         \A i \in 1 .. n : Escaped(data[i]) \in Seq(Byte),
         NEW i \in 0 .. n, NEW m \in i .. n
  PROVE  /\ Len(out[i]) <= Len(out[m])
         /\ \A x \in 1 .. Len(out[i]) : out[m][x] = out[i][x]
<1> DEFINE Same(k) == /\ Len(out[i]) <= Len(out[k])
                      /\ \A x \in 1 .. Len(out[i]) : out[k][x] = out[i][x]
           T == { d \in Nat : i + d <= n => Same(i + d) }
<1>1. \A k \in 0 .. n : out[k] \in Seq(Byte)
  BY DEF Grows
<1>2. 0 \in T
  <2>1. i + 0 = i /\ i \in Nat
    OBVIOUS
  <2>2. Same(i)
    <3>1. out[i] \in Seq(Byte)
      BY <1>1
    <3> QED  BY <3>1
  <2> HIDE DEF Same
  <2> QED  BY <2>1, <2>2
<1>3. ASSUME NEW d \in T PROVE d + 1 \in T
  <2>1. d \in Nat /\ d + 1 \in Nat
    OBVIOUS
  <2>2. CASE i + (d + 1) <= n
    <3> DEFINE k == i + d
    <3>1. k \in 0 .. n /\ k + 1 \in 1 .. n /\ i + (d + 1) = k + 1 /\ (k + 1) - 1 = k
      BY <2>1, <2>2
    <3>2. Same(k)
      <4> HIDE DEF Same
      <4> QED  BY <2>1, <2>2, <3>1
    <3> HIDE DEF k
    <3>3. out[k + 1] = out[k] \o Escaped(data[k + 1])
      BY <3>1 DEF Grows
    <3>4. out[k] \in Seq(Byte) /\ Escaped(data[k + 1]) \in Seq(Byte) /\ out[i] \in Seq(Byte)
      BY <1>1, <3>1
    <3>5. /\ Len(out[k]) <= Len(out[k + 1])
          /\ \A x \in 1 .. Len(out[k]) : out[k + 1][x] = out[k][x]
          /\ Len(out[k + 1]) \in Nat /\ Len(out[k]) \in Nat
      <4>1. PICK s, e, w : s = out[k] /\ e = Escaped(data[k + 1]) /\ w = out[k + 1]
        OBVIOUS
      <4>2. s \in Seq(Byte) /\ e \in Seq(Byte) /\ w = s \o e
        BY ONLY <3>3, <3>4, <4>1, Zenon
      <4>3. Len(s) <= Len(w) /\ Len(w) \in Nat /\ Len(s) \in Nat
            /\ \A x \in 1 .. Len(s) : w[x] = s[x]
        BY ONLY <4>2
      <4> QED  BY ONLY <4>1, <4>3, Zenon
    <3>6. Len(out[i]) \in Nat
      BY <3>4
    <3>7. Same(k + 1)
      BY <1>1, <3>2, <3>5, <3>6
    <3> HIDE DEF Same
    <3> QED  BY <2>1, <3>1, <3>7
  <2> HIDE DEF Same
  <2> QED  BY <2>1, <2>2
<1>4. m - i \in T /\ i + (m - i) = m /\ m <= n
  <2>1. T \in SUBSET Nat /\ m - i \in Nat
    OBVIOUS
  <2>2. i + (m - i) = m /\ m <= n
    OBVIOUS
  <2> HIDE DEF T
  <2> QED  BY <1>2, <1>3, <2>1, <2>2, AllNumbers
<1>5. Same(m)
  <2> HIDE DEF Same
  <2> QED  BY <1>4
<1> QED  BY <1>5

\* Escapes hide every mark.
LEMMA NoStart ==
  ASSUME NEW n \in Nat, NEW data, NEW out, Grows(out, n, data),
         \A i \in 1 .. n : data[i] \in Byte
  PROVE  \A x \in 1 .. Len(out[n]) : out[n][x] # STX
<1> DEFINE Clear(q) == \A x \in 1 .. Len(q) : q[x] # STX
           T == { i \in Nat : i <= n => Clear(out[i]) }
<1>1. 0 \in T
  <2>1. Clear(<<>>)
    OBVIOUS
  <2>2. out[0] = <<>>
    BY DEF Grows
  <2> HIDE DEF Clear
  <2> QED  BY <2>1, <2>2
<1>2. ASSUME NEW i \in T PROVE i + 1 \in T
  <2>1. i \in Nat /\ i + 1 \in Nat
    OBVIOUS
  <2>2. CASE i + 1 <= n
    <3>1. (i + 1) - 1 = i /\ i + 1 \in 1 .. n /\ i <= n /\ i \in 0 .. n
      BY <2>1, <2>2
    <3>2. out[i + 1] = out[i] \o Escaped(data[i + 1]) /\ out[i] \in Seq(Byte)
      BY <3>1 DEF Grows
    <3>3. data[i + 1] \in Byte /\ Clear(out[i])
      <4> HIDE DEF Clear
      <4> QED  BY <3>1
    <3>4. Escaped(data[i + 1]) \in Seq(Byte)
      BY <3>3, EscapedByte
    <3>5. Clear(Escaped(data[i + 1]))
      <4>1. CASE Escaped(data[i + 1]) = <<data[i + 1]>> /\ data[i + 1] # STX
        BY <4>1
      <4>2. CASE Escaped(data[i + 1]) = <<ESC, Flip(data[i + 1])>> /\ Flip(data[i + 1]) # STX
        <5>1. ESC # STX
          BY DEF ESC, STX
        <5> QED  BY <4>2, <5>1
      <4> HIDE DEF Clear
      <4> QED  BY <3>3, <4>1, <4>2, EscapedByte
    <3>6. \A q, r \in Seq(Byte) : Clear(q) /\ Clear(r) => Clear(q \o r)
      OBVIOUS
    <3> HIDE DEF Clear
    <3>7. Clear(out[i + 1])
      BY <3>2, <3>3, <3>4, <3>5, <3>6
    <3> QED  BY <2>1, <3>7
  <2> HIDE DEF Clear
  <2> QED  BY <2>1, <2>2
<1>3. n \in T
  <2>1. T \in SUBSET Nat
    OBVIOUS
  <2> HIDE DEF T
  <2> QED  BY <1>1, <1>2, <2>1, AllNumbers
<1> HIDE DEF Clear
<1>4. Clear(out[n])
  BY <1>3
<1> QED  BY <1>4 DEF Clear

-----------------------------------------------------------------------------
(***************************************************************************)
(* A frame: F[S[j]] is where byte j of the packet p begins, and after the  *)
(* last byte, the checksum, where the frame ends.  A packet's byte is sent *)
(* as it is or as two; the board may send a checksum as it is that needed  *)
(* an escape.                                                              *)
(***************************************************************************)
Packet(data) == Append(data, calcCrc(data))

Bare(F, p, S, j) ==
  /\ S[j + 1] = S[j] + 1 /\ F[S[j]] = p[j]
  /\ p[j] # STX
  /\ p[j] \in {ESC, ETX} => j = Len(p)

Hidden(F, p, S, j) ==
  /\ S[j + 1] = S[j] + 2 /\ F[S[j]] = ESC
  /\ F[S[j] + 1] \in Byte \ {STX, ESC, ETX} /\ Flip(F[S[j] + 1]) = p[j]

Framed(F, p, S) ==
  /\ F \in Seq(Byte) /\ p \in Seq(Byte)
  /\ S[1] = 2 /\ S[Len(p) + 1] = Len(F)
  /\ \A j \in 1 .. Len(p) + 1 : S[j] \in 2 .. Len(F)
  /\ F[1] = STX /\ F[Len(F)] = ETX
  /\ \A x \in 2 .. Len(F) : F[x] # STX
  /\ \A j \in 1 .. Len(p) : Bare(F, p, S, j) \/ Hidden(F, p, S, j)

LEMMA Concatenation ==
  ASSUME NEW s \in Seq(Byte), NEW t \in Seq(Byte)
  PROVE  /\ s \o t \in Seq(Byte) /\ Len(s \o t) = Len(s) + Len(t)
         /\ \A x \in 1 .. Len(s) : (s \o t)[x] = s[x]
         /\ \A x \in 1 .. Len(t) : (s \o t)[Len(s) + x] = t[x]
  OBVIOUS

\* The parts of a frame.
Enclosed(a, z) == <<STX>> \o a \o z \o <<ETX>>

Parts(F, a, z) ==
  /\ F \in Seq(Byte) /\ Len(F) = Len(a) + Len(z) + 2
  /\ F[1] = STX /\ F[Len(F)] = ETX
  /\ \A x \in 1 .. Len(a) : F[x + 1] = a[x]
  /\ \A x \in 1 .. Len(z) : F[Len(a) + 1 + x] = z[x]

LEMMA FrameParts ==
  ASSUME NEW a \in Seq(Byte), NEW z \in Seq(Byte), NEW F, F = Enclosed(a, z)
  PROVE  Parts(F, a, z)
<1>1. STX \in Byte /\ ETX \in Byte
  BY DEF STX, ETX, Byte
<1> DEFINE b == <<STX>> \o a
           c == b \o z
<1>2. /\ b \in Seq(Byte) /\ Len(b) = Len(a) + 1 /\ b[1] = STX
      /\ \A x \in 1 .. Len(a) : b[x + 1] = a[x]
  BY <1>1
<1> HIDE DEF b
<1>3. /\ c \in Seq(Byte) /\ Len(c) = Len(b) + Len(z)
      /\ \A x \in 1 .. Len(b) : c[x] = b[x]
      /\ \A x \in 1 .. Len(z) : c[Len(b) + x] = z[x]
  BY <1>2, Concatenation
<1> HIDE DEF c
<1>4. F = c \o <<ETX>>
  BY DEF b, c, Enclosed
<1>5. /\ F \in Seq(Byte) /\ Len(F) = Len(c) + 1 /\ F[Len(c) + 1] = ETX
      /\ \A x \in 1 .. Len(c) : F[x] = c[x]
  <2> DEFINE e == <<ETX>>
  <2>1. e \in Seq(Byte) /\ Len(e) = 1 /\ e[1] = ETX /\ 1 \in 1 .. Len(e)
    BY <1>1
  <2>2. F = c \o e
    BY <1>4
  <2> HIDE DEF e
  <2>3. /\ F \in Seq(Byte) /\ Len(F) = Len(c) + Len(e)
        /\ \A x \in 1 .. Len(c) : F[x] = c[x]
        /\ \A x \in 1 .. Len(e) : F[Len(c) + x] = e[x]
    <3>1. /\ c \o e \in Seq(Byte) /\ Len(c \o e) = Len(c) + Len(e)
          /\ \A x \in 1 .. Len(c) : (c \o e)[x] = c[x]
          /\ \A x \in 1 .. Len(e) : (c \o e)[Len(c) + x] = e[x]
      BY <1>3, <2>1, Concatenation
    <3> QED  BY ONLY <2>2, <3>1, Zenon
  <2> QED  BY <2>1, <2>3
<1>6. Len(a) \in Nat /\ Len(z) \in Nat
  OBVIOUS
<1>7. ASSUME NEW x \in 1 .. Len(a) PROVE F[x + 1] = a[x]
  <2>1. x + 1 \in 1 .. Len(b) /\ x + 1 \in 1 .. Len(c)
    BY <1>2, <1>3, <1>6
  <2> QED  BY <1>2, <1>3, <1>5, <2>1
<1>8. ASSUME NEW x \in 1 .. Len(z) PROVE F[Len(a) + 1 + x] = z[x]
  <2>1. Len(a) + 1 + x = Len(b) + x /\ Len(b) + x \in 1 .. Len(c)
    BY <1>2, <1>3, <1>6
  <2> QED  BY <1>3, <1>5, <2>1
<1>9. F[1] = STX
  <2>1. 1 \in 1 .. Len(b) /\ 1 \in 1 .. Len(c)
    BY <1>2, <1>3, <1>6
  <2> QED  BY <1>2, <1>3, <1>5, <2>1
<1> QED  BY <1>2, <1>3, <1>5, <1>6, <1>7, <1>8, <1>9 DEF Parts

\* What a writer puts at the end of a frame, for the checksum.
SentCrc(data, writer) ==
  IF writer = "writeStream" THEN Escaped(calcCrc(data)) ELSE <<calcCrc(data)>>

LEMMA FrameShape ==
  ASSUME NEW data \in Seq(Byte), NEW writer,
         writer # "writeStream" => calcCrc(data) # STX
  PROVE  /\ \E S : Framed(Frame(data, writer), Packet(data), S)
         /\ Packet(data) \in Seq(Byte) /\ Len(Packet(data)) = Len(data) + 1
<1> DEFINE n == Len(data)
           crc == calcCrc(data)
           p == Packet(data)
           z == SentCrc(data, writer)
           F == Frame(data, writer)
<1>1. /\ n \in Nat /\ crc \in Byte /\ p \in Seq(Byte) /\ Len(p) = n + 1 /\ p[n + 1] = crc
      /\ \A i \in 1 .. n : data[i] \in Byte /\ p[i] = data[i]
      /\ \A i \in 1 .. n : Escaped(data[i]) \in Seq(Byte)
  BY CrcType, EscapedByte DEF Packet
<1>2. PICK out : Grows(out, n, data) /\ EscapedAll(data) = out[n]
  BY EscapedParts
<1>3. /\ z \in Seq(Byte) /\ Len(z) \in {1, 2} /\ \A x \in 1 .. Len(z) : z[x] # STX
      /\ \/ Len(z) = 1 /\ z[1] = crc /\ crc # STX
         \/ /\ Len(z) = 2 /\ z[1] = ESC
            /\ z[2] \in Byte \ {STX, ESC, ETX} /\ Flip(z[2]) = crc
  <2>1. CASE z = <<crc>> /\ crc # STX
    BY <1>1, <2>1
  <2>2. CASE z = <<ESC, Flip(crc)>> /\ Flip(crc) \in Byte \ {STX, ESC, ETX} /\ Flip(Flip(crc)) = crc
    <3>1. ESC \in Byte /\ ESC # STX
      BY DEF ESC, STX, Byte
    <3> QED  BY <2>2, <3>1
  <2>3. \/ z = <<crc>> /\ crc # STX
        \/ z = <<ESC, Flip(crc)>> /\ Flip(crc) \in Byte \ {STX, ESC, ETX} /\ Flip(Flip(crc)) = crc
    BY <1>1, EscapedByte DEF SentCrc
  <2> HIDE DEF z, crc
  <2> QED  BY <2>1, <2>2, <2>3
<1> DEFINE a == out[n]
           L(i) == Len(out[i])
           S == [ j \in 1 .. n + 2 |-> IF j = n + 2 THEN L(n) + Len(z) + 2 ELSE L(j - 1) + 2 ]
<1>4. /\ \A i \in 0 .. n : out[i] \in Seq(Byte) /\ L(i) \in Nat /\ L(i) <= L(n)
      /\ \A i \in 0 .. n : \A x \in 1 .. L(i) : a[x] = out[i][x]
      /\ L(0) = 0 /\ a \in Seq(Byte)
  <2>1. \A i \in 0 .. n : out[i] \in Seq(Byte)
    BY <1>2 DEF Grows
  <2>2. ASSUME NEW i \in 0 .. n
        PROVE  L(i) <= L(n) /\ \A x \in 1 .. L(i) : a[x] = out[i][x]
    <3>1. n \in i .. n
      BY <1>1
    <3> HIDE DEF n
    <3> QED  BY <1>1, <1>2, <3>1, GrowsAtEnd
  <2>3. out[0] = <<>> /\ n \in 0 .. n
    BY <1>1, <1>2 DEF Grows
  <2> HIDE DEF n
  <2> QED  BY <2>1, <2>2, <2>3
<1>5. F = Enclosed(a, z)
  BY <1>2 DEF Frame, SentCrc, Enclosed
<1> HIDE DEF z, F, n, p, crc
<1>6. /\ F \in Seq(Byte) /\ Len(F) = L(n) + Len(z) + 2
      /\ F[1] = STX /\ F[Len(F)] = ETX
      /\ \A x \in 1 .. L(n) : F[x + 1] = a[x]
      /\ \A x \in 1 .. Len(z) : F[L(n) + 1 + x] = z[x]
  <2>1. a \in Seq(Byte) /\ z \in Seq(Byte) /\ L(n) = Len(a)
    BY <1>3, <1>4
  <2> HIDE DEF a, L
  <2>2. Parts(F, a, z)
    BY ONLY <2>1, <1>5, FrameParts
  <2> QED  BY ONLY <2>1, <2>2, Zenon DEF Parts
<1>7. \A x \in 1 .. L(n) : a[x] # STX
  BY <1>1, <1>2, NoStart
<1>8. ASSUME NEW x \in 2 .. Len(F) PROVE F[x] # STX
  <2>1. L(n) \in Nat /\ n \in 0 .. n
    BY <1>1, <1>4
  <2> HIDE DEF L, a
  <2>2. CASE x - 1 <= L(n)
    <3>1. x - 1 \in 1 .. L(n) /\ (x - 1) + 1 = x
      BY <2>1, <2>2
    <3> QED  BY <1>6, <1>7, <3>1
  <2>3. CASE x - 1 > L(n) /\ x # Len(F)
    <3>1. x - (L(n) + 1) \in 1 .. Len(z) /\ L(n) + 1 + (x - (L(n) + 1)) = x
      <4>1. \A d, e, l, w \in Nat :
              l = d + e + 2 /\ w <= l /\ w - 1 > d /\ w # l =>
                w - (d + 1) \in 1 .. e /\ d + 1 + (w - (d + 1)) = w
        OBVIOUS
      <4>2. Len(F) \in Nat /\ Len(z) \in Nat
        BY <1>3, <1>6
      <4>3. x \in Nat /\ x <= Len(F)
        BY <4>2
      <4> QED  BY ONLY <1>6, <2>1, <2>3, <4>1, <4>2, <4>3
    <3> QED  BY <1>3, <1>6, <3>1
  <2>4. CASE x = Len(F)
    BY <1>6, <2>4 DEF STX, ETX
  <2> QED  BY <2>1, <2>2, <2>3, <2>4
<1>9. /\ \A j \in 1 .. n + 1 : S[j] = L(j - 1) + 2
      /\ S[n + 2] = Len(F)
  BY <1>1, <1>6
<1>10. \A j \in 1 .. n + 2 : S[j] \in 2 .. Len(F)
  <2>1. ASSUME NEW j \in 1 .. n + 1 PROVE S[j] \in 2 .. Len(F)
    <3>1. j - 1 \in 0 .. n
      BY <1>1
    <3>2. L(j - 1) \in Nat /\ L(j - 1) <= L(n) /\ L(n) \in Nat
      BY <1>1, <1>4, <3>1
    <3>3. S[j] = L(j - 1) + 2
      BY <1>9
    <3> HIDE DEF S, L
    <3> QED  BY <1>3, <1>6, <3>2, <3>3
  <2>2. Len(F) \in 2 .. Len(F)
    <3>1. L(n) \in Nat
      BY <1>1, <1>4
    <3> HIDE DEF L
    <3> QED  BY <1>3, <1>6, <3>1
  <2> HIDE DEF S
  <2> QED  BY <1>1, <1>9, <2>1, <2>2
<1> HIDE DEF S
<1>11. ASSUME NEW j \in 1 .. n PROVE Bare(F, p, S, j) \/ Hidden(F, p, S, j)
  <2> DEFINE e == Escaped(data[j])
             s == out[j - 1]
  <2>1. /\ j - 1 \in 0 .. n /\ j \in 0 .. n /\ j \in 1 .. n + 1 /\ j + 1 \in 1 .. n + 1
        /\ (j + 1) - 1 = j /\ j # Len(p)
    BY <1>1
  <2>2. out[j] = s \o e /\ s \in Seq(Byte) /\ e \in Seq(Byte)
    BY <1>1, <1>2, <2>1 DEF Grows
  <2>3. /\ S[j] = Len(s) + 2 /\ S[j + 1] = L(j) + 2 /\ L(j) = Len(s) + Len(e)
        /\ Len(s) \in Nat /\ L(j) <= L(n) /\ L(n) \in Nat
    <3> HIDE DEF e
    <3>1. L(j) = Len(s) + Len(e)
      BY <2>2, Concatenation
    <3>2. S[j] = L(j - 1) + 2 /\ S[j + 1] = L(j) + 2
      BY <1>9, <2>1
    <3>3. n \in 0 .. n
      BY <1>1
    <3> QED  BY <1>4, <2>1, <3>1, <3>2, <3>3
  <2>4. ASSUME NEW x \in 1 .. Len(e), Len(e) \in Nat PROVE F[Len(s) + 1 + x] = e[x]
    <3>1. out[j][Len(s) + x] = e[x]
      <4> HIDE DEF s, e
      <4> QED  BY <2>2, Concatenation
    <3>2. Len(s) + x \in 1 .. L(j) /\ Len(s) + x \in 1 .. L(n) /\ (Len(s) + x) + 1 = Len(s) + 1 + x
      <4> HIDE DEF s, e, L
      <4> QED  BY <2>3, <2>4
    <3>3. a[Len(s) + x] = out[j][Len(s) + x]
      BY <1>4, <2>1, <3>2
    <3>4. F[(Len(s) + x) + 1] = a[Len(s) + x]
      BY <1>6, <3>2
    <3> HIDE DEF s, e, L, a
    <3> QED  BY <3>1, <3>2, <3>3, <3>4
  <2>5. p[j] = data[j] /\ data[j] \in Byte
    BY <1>1
  <2>6. CASE e = <<data[j]>> /\ data[j] \notin {STX, ESC, ETX}
    <3>1. Len(e) = 1 /\ e[1] = data[j] /\ Len(e) \in Nat /\ 1 \in 1 .. Len(e)
      BY <2>6
    <3> HIDE DEF e, s
    <3>2. F[Len(s) + 1 + 1] = data[j]
      BY <2>4, <3>1
    <3>3. S[j + 1] = S[j] + 1 /\ S[j] = Len(s) + 1 + 1
      BY <2>3, <3>1
    <3> QED  BY <2>5, <2>6, <3>2, <3>3 DEF Bare
  <2>7. CASE /\ e = <<ESC, Flip(data[j])>> /\ Flip(data[j]) \in Byte \ {STX, ESC, ETX}
             /\ Flip(Flip(data[j])) = data[j]
    <3>1. /\ Len(e) = 2 /\ e[1] = ESC /\ e[2] = Flip(data[j]) /\ Len(e) \in Nat
          /\ 1 \in 1 .. Len(e) /\ 2 \in 1 .. Len(e)
      BY <2>7
    <3> HIDE DEF e, s
    <3>2. F[Len(s) + 1 + 1] = ESC /\ F[Len(s) + 1 + 2] = Flip(data[j])
      BY <2>4, <3>1
    <3>3. S[j + 1] = S[j] + 2 /\ S[j] = Len(s) + 1 + 1 /\ S[j] + 1 = Len(s) + 1 + 2
      BY <2>3, <3>1
    <3> QED  BY <2>5, <2>7, <3>2, <3>3 DEF Hidden
  <2> QED  BY <2>5, <2>6, <2>7, EscapedByte
<1>12. Bare(F, p, S, n + 1) \/ Hidden(F, p, S, n + 1)
  <2>1. /\ S[n + 1] = L(n) + 2 /\ S[(n + 1) + 1] = L(n) + Len(z) + 2 /\ L(n) \in Nat
        /\ S[n + 1] = L(n) + 1 + 1 /\ S[n + 1] + 1 = L(n) + 1 + 2
    <3>1. n + 1 \in 1 .. n + 1 /\ (n + 1) - 1 = n /\ n \in 0 .. n /\ (n + 1) + 1 = n + 2
      BY <1>1
    <3>2. S[n + 1] = L(n) + 2 /\ L(n) \in Nat
      BY <1>4, <1>9, <3>1
    <3>3. S[(n + 1) + 1] = L(n) + Len(z) + 2
      BY <1>6, <1>9, <3>1
    <3> HIDE DEF L
    <3> QED  BY ONLY <3>2, <3>3
  <2> HIDE DEF L
  <2>2. CASE Len(z) = 1 /\ z[1] = crc /\ crc # STX
    <3>1. F[S[n + 1]] = crc
      BY <1>6, <2>1, <2>2
    <3> QED  BY <1>1, <2>1, <2>2, <3>1 DEF Bare
  <2>3. CASE /\ Len(z) = 2 /\ z[1] = ESC
             /\ z[2] \in Byte \ {STX, ESC, ETX} /\ Flip(z[2]) = crc
    <3>1. F[S[n + 1]] = ESC /\ F[S[n + 1] + 1] = z[2]
      BY <1>6, <2>1, <2>3
    <3> QED  BY <1>1, <2>1, <2>3, <3>1 DEF Hidden
  <2> QED  BY <1>3, <2>2, <2>3
<1>13. Framed(F, p, S)
  <2>1. \A j \in 1 .. n + 1 : Bare(F, p, S, j) \/ Hidden(F, p, S, j)
    BY <1>1, <1>11, <1>12
  <2>2. S[1] = 2
    <3>1. 1 \in 1 .. n + 1 /\ 1 - 1 = 0
      BY <1>1
    <3> QED  BY <1>4, <1>9, <3>1
  <2>3. Len(p) + 1 = n + 2
    BY <1>1
  <2> HIDE DEF L
  <2> QED  BY <1>1, <1>6, <1>8, <1>9, <1>10, <2>1, <2>2, <2>3 DEF Framed
<1> QED  BY <1>1, <1>13 DEF F, p, n

-----------------------------------------------------------------------------
(***************************************************************************)
(* Types.                                                                  *)
(***************************************************************************)
LEMMA FrameType ==
  ASSUME NEW data \in Seq(Byte), NEW writer
  PROVE  Frame(data, writer) \in Seq(Byte)
<1>1. Frame(data, writer) = Enclosed(EscapedAll(data), SentCrc(data, writer))
  BY DEF Frame, Enclosed, SentCrc
<1>2. EscapedAll(data) \in Seq(Byte)
  <2>1. PICK out : Grows(out, Len(data), data) /\ EscapedAll(data) = out[Len(data)]
    BY EscapedParts
  <2>2. Len(data) \in 0 .. Len(data)
    OBVIOUS
  <2> QED  BY <2>1, <2>2 DEF Grows
<1>3. SentCrc(data, writer) \in Seq(Byte)
  BY CrcType, EscapedByte DEF SentCrc
<1> QED  BY <1>1, <1>2, <1>3, FrameParts DEF Parts

LEMMA FlipType == \A b \in Byte : Flip(b) \in Byte
  BY DEF Flip, Byte

LEMMA OnLine ==
  ASSUME NEW R, NEW q \in Seq(R)
  PROVE  /\ q # <<>> => Head(q) \in R /\ Tail(q) \in Seq(R)
         /\ \A i \in DOMAIN q : i \in 1 .. Len(q) /\ q[i] \in R
         /\ \A i \in 1 .. Len(q) :
              SubSeq(q, 1, i - 1) \o SubSeq(q, i + 1, Len(q)) \in Seq(R)
<1>1. ASSUME NEW i \in 1 .. Len(q)
      PROVE  SubSeq(q, 1, i - 1) \o SubSeq(q, i + 1, Len(q)) \in Seq(R)
  <2>1. SubSeq(q, 1, i - 1) \in Seq(R) /\ SubSeq(q, i + 1, Len(q)) \in Seq(R)
    OBVIOUS
  <2> QED  BY <2>1
<1> QED  BY <1>1

\* What is read of the message stays in its room.
LEMMA ReadTyped ==
  ASSUME TypeOK, ReadSTX \/ ReadETX \/ ReadOther
  PROVE  TypeOK'
<1>1. /\ wire # <<>> /\ wire' = Tail(wire) /\ Reading
      /\ UNCHANGED <<pauses, lost, sent, damaged, got>>
  BY DEF ReadSTX, ReadETX, ReadOther, Received
<1>2. wire' \in Seq([byte : Byte, frame : Nat])
  BY <1>1 DEF TypeOK
<1>3. /\ msg \in Seq(Byte) /\ Len(msg) \in Nat /\ Len(msg) < BufLen /\ BufLen \in Nat
      /\ lastesc \in -1 .. BufLen /\ below \in Byte /\ state \in States
  BY <1>1, StreamAssumption DEF TypeOK, Reading, pos
<1>4. ASSUME NEW b \in Byte
      PROVE  Append(msg, b) \in Seq(Byte) /\ Len(Append(msg, b)) <= BufLen
  BY <1>3
<1>5. /\ msg' \in Seq(Byte) /\ Len(msg') <= BufLen
      /\ lastesc' \in -1 .. BufLen /\ below' \in Byte /\ state' \in States
  <2>1. CASE ReadSTX
    <3>1. /\ msg' = <<>> /\ state' = "STARTED" /\ lastesc' = lastesc /\ below' = below
      BY <2>1 DEF ReadSTX
    <3>2. <<>> \in Seq(Byte) /\ Len(<<>>) = 0
      OBVIOUS
    <3> QED  BY <1>3, <3>1, <3>2 DEF States
  <2>2. CASE ReadETX
    <3>1. /\ msg' = msg \/ msg' = Append(msg, ETX)
          /\ state' = state \/ state' = "ENDED"
          /\ lastesc' = lastesc /\ below' = below
      BY <2>2 DEF ReadETX
    <3>2. ETX \in Byte
      BY DEF ETX, Byte
    <3> QED  BY <1>3, <1>4, <3>1, <3>2 DEF States
  <2>3. CASE ReadOther
    <3>1. PICK b \in Byte :
            /\ state' = state
            /\ \/ msg' = msg /\ lastesc' = lastesc /\ below' = below
               \/ msg' = msg /\ lastesc' = pos /\ below' = Flip(b)
               \/ pos # 0 /\ msg' = [msg EXCEPT ![pos] = Flip(b)] /\ lastesc' = pos
                  /\ below' = below
               \/ msg' = Append(msg, b) /\ lastesc' = lastesc /\ below' = below
      BY <2>3 DEF ReadOther
    <3>2. Flip(b) \in Byte /\ pos \in -1 .. BufLen
      BY <1>3, FlipType DEF pos
    <3>3. ASSUME pos # 0
          PROVE  /\ [msg EXCEPT ![pos] = Flip(b)] \in Seq(Byte)
                 /\ Len([msg EXCEPT ![pos] = Flip(b)]) = Len(msg)
      BY <1>3, <3>2, <3>3 DEF pos
    <3>4. msg' \in Seq(Byte) /\ Len(msg') <= BufLen
      <4>1. CASE msg' = msg
        BY <1>3, <4>1
      <4>2. CASE pos # 0 /\ msg' = [msg EXCEPT ![pos] = Flip(b)]
        BY <1>3, <3>3, <4>2
      <4>3. CASE msg' = Append(msg, b)
        BY <1>4, <4>3
      <4> QED  BY <3>1, <4>1, <4>2, <4>3
    <3>5. lastesc' \in -1 .. BufLen /\ below' \in Byte /\ state' \in States
      BY ONLY <1>3, <3>1, <3>2, Zenon
    <3> QED  BY <3>4, <3>5
  <2> QED  BY <2>1, <2>2, <2>3
<1> QED  BY <1>1, <1>2, <1>5 DEF TypeOK

LEMMA ReturnTyped ==
  ASSUME TypeOK, EndOfFrame \/ Timeout
  PROVE  TypeOK'
<1>1. /\ Return /\ pauses' \in 0 .. MaxPauses /\ damaged' \subseteq Nat
  <2>1. CASE EndOfFrame
    BY <2>1 DEF EndOfFrame, TypeOK
  <2>2. CASE Timeout
    <3>1. CASE UNCHANGED <<pauses, damaged>>
      BY <2>2, <3>1 DEF Timeout, TypeOK
    <3>2. CASE /\ wire # <<>> /\ pauses < MaxPauses /\ pauses' = pauses + 1
               /\ damaged' \in {damaged, damaged \cup {Head(wire).frame}}
      <4>1. Head(wire) \in [byte : Byte, frame : Nat]
        BY <3>2, OnLine DEF TypeOK
      <4> QED  BY <2>2, <3>2, <4>1, StreamAssumption DEF Timeout, TypeOK
    <3> QED  BY <2>2, <3>1, <3>2 DEF Timeout
  <2> QED  BY <2>1, <2>2
<1>2. got' \in Seq(Seq(Byte))
  <2>1. CASE got' = got
    BY <2>1 DEF TypeOK
  <2>2. CASE Accepted /\ got' = Append(got, SubSeq(msg, 1, pos - 1))
    <3>1. msg \in Seq(Byte) /\ Len(msg) = DataLen + 1 /\ DataLen \in Nat
      BY <2>2, StreamAssumption DEF TypeOK, Accepted, pos
    <3>2. SubSeq(msg, 1, pos - 1) \in Seq(Byte)
      BY <3>1 DEF pos
    <3> QED  BY <2>2, <3>2 DEF TypeOK
  <2> QED  BY <1>1, <2>1, <2>2 DEF Return
<1>3. <<>> \in Seq(Byte) /\ Len(<<>>) <= BufLen /\ -1 \in -1 .. BufLen
  BY StreamAssumption
<1> QED  BY <1>1, <1>2, <1>3, StreamAssumption DEF Return, TypeOK, States

\* Every state of the line and its reader is well typed: what is read fits in
\* the buffer, whatever is lost, sent or left in memory below it.
THEOREM Typing == Spec => []TypeOK
<1>1. Init => TypeOK
  <2> SUFFICES ASSUME Init PROVE TypeOK
    OBVIOUS
  <2>1. <<>> \in Seq(Byte) /\ Len(<<>>) <= BufLen /\ -1 \in -1 .. BufLen
    BY StreamAssumption
  <2>2. /\ wire \in Seq([byte : Byte, frame : Nat]) /\ sent \in Seq(Seq(Byte))
        /\ got \in Seq(Seq(Byte))
    BY DEF Init
  <2> QED  BY <2>1, <2>2, StreamAssumption DEF Init, TypeOK, States
<1>2. TypeOK /\ [Next]_vars => TypeOK'
  <2> SUFFICES ASSUME TypeOK, [Next]_vars PROVE TypeOK'
    OBVIOUS
  <2>1. CASE Send
    <3>1. PICK data \in Payloads, writer \in Writers :
            /\ sent' = Append(sent, data)
            /\ wire' = wire \o [ i \in 1 .. Len(Frame(data, writer)) |->
                                  [byte |-> Frame(data, writer)[i], frame |-> Len(sent) + 1] ]
      BY <2>1 DEF Send
    <3> DEFINE F == Frame(data, writer)
               more == [ i \in 1 .. Len(F) |-> [byte |-> F[i], frame |-> Len(sent) + 1] ]
    <3>2. data \in Seq(Byte)
      BY StreamAssumption
    <3>3. F \in Seq(Byte)
      BY <3>2, FrameType
    <3>4. sent' \in Seq(Seq(Byte)) /\ Len(sent) + 1 \in Nat
      BY <3>1, <3>2 DEF TypeOK
    <3>5. more \in Seq([byte : Byte, frame : Nat])
      <4> HIDE DEF F
      <4>1. Len(F) \in Nat /\ \A i \in 1 .. Len(F) : F[i] \in Byte
        BY <3>3
      <4> QED  BY <3>4, <4>1
    <3>6. wire' = wire \o more
      BY <3>1
    <3> HIDE DEF more
    <3>7. wire' \in Seq([byte : Byte, frame : Nat])
      BY <3>5, <3>6 DEF TypeOK
    <3> QED  BY <2>1, <3>4, <3>7 DEF Send, TypeOK, reader
  <2>2. CASE LoseByte
    <3>1. PICK i \in DOMAIN wire :
            /\ wire' = SubSeq(wire, 1, i - 1) \o SubSeq(wire, i + 1, Len(wire))
            /\ damaged' = damaged \cup {wire[i].frame}
      BY <2>2 DEF LoseByte
    <3>2. /\ wire \in Seq([byte : Byte, frame : Nat]) /\ i \in 1 .. Len(wire)
          /\ wire[i] \in [byte : Byte, frame : Nat]
      BY OnLine DEF TypeOK
    <3>3. wire' \in Seq([byte : Byte, frame : Nat]) /\ wire[i].frame \in Nat
      BY <3>1, <3>2, OnLine
    <3>4. lost' \in 0 .. MaxLoss
      BY <2>2, StreamAssumption DEF LoseByte, TypeOK
    <3> QED  BY <2>2, <3>1, <3>3, <3>4 DEF LoseByte, TypeOK, reader
  <2>3. CASE UNCHANGED vars
    BY <2>3 DEF vars, reader, TypeOK
  <2> QED  BY <2>1, <2>2, <2>3, ReadTyped, ReturnTyped DEF Next
<1> QED  BY <1>1, <1>2, PTL DEF Spec

-----------------------------------------------------------------------------
(***************************************************************************)
(* The packets have their size, what lies below the buffer is no escape,   *)
(* and no board sends STX for a checksum.  Then, as long as no byte has    *)
(* been lost, the reader knows where it is: in frame k, having read c      *)
(* bytes of all that was ever sent, of which frame f begins after at[f]    *)
(* and is F[f], with its bytes at S[f].                                    *)
(***************************************************************************)
Orderly ==
  /\ \A data \in Payloads : Len(data) = DataLen
  /\ ESC \notin Below
  /\ "board" \in Writers => \A data \in Payloads : calcCrc(data) # STX

Sending(at, F, S) ==
  /\ at \in [1 .. Len(sent) + 1 -> Nat]
  /\ \A f \in 1 .. Len(sent) :
       /\ sent[f] \in Payloads
       /\ Framed(F[f], Packet(sent[f]), S[f])
       /\ at[f + 1] = at[f] + Len(F[f])
  /\ \A f \in 1 .. Len(sent) + 1 : at[f] <= at[Len(sent) + 1]

Waiting(at, F, c) ==
  /\ c \in Nat /\ c <= at[Len(sent) + 1] /\ Len(wire) = at[Len(sent) + 1] - c
  /\ \A f \in 1 .. Len(sent) : \A x \in 1 .. Len(F[f]) :
       at[f] + x > c => wire[at[f] + x - c] = [byte |-> F[f][x], frame |-> f]

InFrame(at, c, k) ==
  /\ k \in 1 .. Len(sent) + 1 /\ at[k] <= c
  /\ k = Len(sent) + 1 => c = at[k]
  /\ k # Len(sent) + 1 => c <= at[k + 1]

(***************************************************************************)
(* Within a frame: the next byte of the packet is the j-th (or the end is  *)
(* next), or its escape has been read and not yet what it hides.           *)
(***************************************************************************)
Decoded(p, m) == \A i \in 1 .. m : msg[i] = p[i]

AtByte(p, s, o, j) ==
  /\ j \in 1 .. DataLen + 2 /\ o = s[j] - 1
  /\ Len(msg) = j - 1 /\ Decoded(p, j - 1) /\ lastesc <= j - 1
  /\ j # 1 /\ j # DataLen + 2 /\ msg[j - 1] = ESC => lastesc = j - 1

InEscape(F, p, s, o, j) ==
  /\ j \in 1 .. DataLen + 1 /\ o = s[j] /\ Hidden(F, p, s, j)
  /\ Len(msg) = j /\ Decoded(p, j - 1) /\ lastesc <= j - 1 /\ msg[j] = ESC

Within(F, p, s, o) == \E j \in Nat : AtByte(p, s, o, j) \/ InEscape(F, p, s, o, j)

Complete(F, p, o) == o = Len(F) /\ Len(msg) = DataLen + 1 /\ Decoded(p, DataLen + 1)

Reader(at, F, S, c, k) ==
  /\ below # ESC
  /\ state = "NOTSTARTED" =>
       /\ msg = <<>> /\ lastesc = -1
       /\ k # Len(sent) + 1 => c < at[k + 1]
       /\ c > at[k] => k \in damaged
  /\ state # "NOTSTARTED" => k # Len(sent) + 1
  /\ state = "STARTED" => Within(F[k], Packet(sent[k]), S[k], c - at[k])
  /\ state = "ENDED" => Complete(F[k], Packet(sent[k]), c - at[k])

\* What has been accepted: from[i] is the frame of got[i].
Delivered(from, at, c, k) ==
  /\ from \in [1 .. Len(got) -> 1 .. Len(sent)]
  /\ \A i \in 1 .. Len(got) :
       /\ got[i] = sent[from[i]] /\ from[i] <= k
       /\ from[i] = k => state = "NOTSTARTED" /\ c > at[k]
  /\ \A i, j \in 1 .. Len(got) : i < j => from[i] < from[j]
  /\ damaged \subseteq 1 .. Len(sent)
  /\ \A f \in 1 .. k - 1 : f \in damaged \/ \E i \in 1 .. Len(got) : from[i] = f

Synced ==
  \E at, F, S, c, k, from :
    /\ Sending(at, F, S) /\ Waiting(at, F, c) /\ InFrame(at, c, k)
    /\ Reader(at, F, S, c, k) /\ Delivered(from, at, c, k)

-----------------------------------------------------------------------------
\* In a frame, one byte.
LEMMA FrameByte ==
  ASSUME TypeOK, Orderly, NEW F, NEW p, NEW s, NEW o \in Nat,
         Framed(F, p, s), Len(p) = DataLen + 1, below # ESC,
         state = "STARTED", o < Len(F), wire # <<>>, Head(wire).byte = F[o + 1],
         Within(F, p, s, o), ReadSTX \/ ReadETX \/ ReadOther
  PROVE  /\ below' = below
         /\ \/ state' = "STARTED" /\ Within(F, p, s, o + 1)'
            \/ state' = "ENDED" /\ Complete(F, p, o + 1)'
<1> DEFINE b == F[o + 1]
<1>0. /\ DataLen \in Nat /\ msg \in Seq(Byte) /\ lastesc \in Int /\ Len(msg) \in Nat
      /\ STX # ETX /\ ESC # STX /\ ESC # ETX /\ ESC \in Byte
  BY StreamAssumption DEF TypeOK, STX, ETX, ESC, Byte
<1>1. PICK j \in Nat : AtByte(p, s, o, j) \/ InEscape(F, p, s, o, j)
  BY DEF Within
<1>2. /\ ReadSTX => b = STX
      /\ ReadETX => b = ETX
      /\ ReadOther => b \in Byte \ {STX, ETX}
  BY DEF ReadSTX, ReadETX, ReadOther, Received
<1>3. p \in Seq(Byte) /\ \A i \in 1 .. DataLen + 1 : p[i] \in Byte
  BY <1>0 DEF Framed
<1>4. \A i \in 1 .. DataLen + 2 : s[i] \in Nat /\ s[i] >= 2 /\ s[i] <= Len(F)
  <2>1. Len(p) + 1 = DataLen + 2 /\ Len(F) \in Nat
    BY <1>0 DEF Framed
  <2> QED  BY <2>1 DEF Framed
<1>5. o + 1 \in 2 .. Len(F)
  <2>1. j \in 1 .. DataLen + 2
    BY <1>0, <1>1 DEF AtByte, InEscape
  <2>2. o >= 1
    BY <1>0, <1>1, <1>4, <2>1 DEF AtByte, InEscape
  <2>3. Len(F) \in Nat
    BY DEF Framed
  <2> QED  BY <2>2, <2>3
<1>6. ~ReadSTX
  BY <1>2, <1>5 DEF Framed
<1> HIDE DEF b
<1>7. CASE AtByte(p, s, o, j) /\ j # DataLen + 2
  <2>1. j \in 1 .. DataLen + 1 /\ s[j] = o + 1 /\ pos = j - 1 /\ j \in 1 .. DataLen + 2
        /\ j + 1 \in 1 .. DataLen + 2 /\ p[j] \in Byte
    <3>1. j \in 1 .. DataLen + 2 /\ o = s[j] - 1 /\ Len(msg) = j - 1 /\ j # DataLen + 2
      BY <1>7 DEF AtByte
    <3>2. j \in 1 .. DataLen + 1 /\ j + 1 \in 1 .. DataLen + 2
      BY <1>0, <3>1
    <3>3. s[j] \in Nat
      BY <1>4, <3>1
    <3>4. s[j] = o + 1
      BY <3>1, <3>3
    <3> QED  BY <1>3, <3>1, <3>2, <3>4 DEF pos
  <2>2. ASSUME NEW x \in Byte, msg' = Append(msg, x)
        PROVE  /\ Len(msg') = j /\ msg'[j] = x
               /\ \A i \in 1 .. j - 1 : msg'[i] = p[i]
    BY <1>0, <1>7, <2>1, <2>2 DEF AtByte, Decoded
  <2>3. ReadOther => /\ msg' = Append(msg, b) /\ lastesc' = lastesc /\ below' = below
                     /\ state' = "STARTED"
    <3>1. ~((IF pos = 0 THEN below ELSE msg[pos]) = ESC /\ lastesc # pos)
      BY <1>0, <1>7, <2>1 DEF AtByte
    <3> QED  BY <3>1 DEF ReadOther, Received, b
  <2>4. CASE Bare(F, p, s, j)
    <3>1. b = p[j] /\ s[j + 1] = o + 2
      BY <2>1, <2>4, <1>0 DEF Bare, b
    <3>2. /\ msg' = Append(msg, p[j]) /\ lastesc' = lastesc /\ below' = below
          /\ state' = "STARTED"
      <4>1. CASE ReadOther
        BY <2>3, <3>1, <4>1
      <4>2. CASE ReadETX
        <5>1. p[j] = ETX /\ j = DataLen + 1
          BY <1>2, <2>4, <3>1, <4>2 DEF Bare
        <5>2. pos = DataLen
          BY <1>0, <2>1, <5>1
        <5> QED  BY <4>2, <5>1, <5>2 DEF ReadETX
      <4> QED  BY <1>6, <4>1, <4>2
    <3>3. Len(msg') = j /\ msg'[j] = p[j] /\ \A i \in 1 .. j - 1 : msg'[i] = p[i]
      BY <2>1, <2>2, <3>2
    <3>4. \A i \in 1 .. j : msg'[i] = p[i]
      BY <2>1, <3>3
    <3>5. p[j] = ESC => j + 1 = DataLen + 2
      BY <1>0, <2>4 DEF Bare
    <3>6. (j + 1) - 1 = j /\ (o + 1) = s[j + 1] - 1 /\ lastesc' <= j
      <4>1. lastesc <= j - 1 /\ lastesc \in Int /\ j \in Int
        BY <1>0, <1>7 DEF AtByte
      <4>2. lastesc' <= j
        BY <3>2, <4>1
      <4>3. o + 1 = s[j + 1] - 1
        BY ONLY <3>1, o \in Nat
      <4> QED  BY <4>1, <4>2, <4>3
    <3>7. AtByte(p, s, o + 1, j + 1)'
      BY <2>1, <3>3, <3>4, <3>5, <3>6 DEF AtByte, Decoded
    <3> QED  BY <3>2, <3>7 DEF Within
  <2>5. CASE Hidden(F, p, s, j)
    <3>1. b = ESC
      BY <2>1, <2>5 DEF Hidden, b
    <3>2. ReadOther
      BY <1>0, <1>2, <1>6, <3>1
    <3>3. Len(msg') = j /\ msg'[j] = ESC /\ \A i \in 1 .. j - 1 : msg'[i] = p[i]
      BY <1>0, <2>2, <2>3, <3>1, <3>2
    <3>4. lastesc' <= j - 1
      BY <1>7, <2>3, <3>2 DEF AtByte
    <3>5. InEscape(F, p, s, o + 1, j)'
      BY <2>1, <2>5, <3>3, <3>4 DEF InEscape, Decoded, Hidden
    <3> QED  BY <2>3, <3>2, <3>5 DEF Within
  <2> QED  BY <2>1, <2>4, <2>5 DEF Framed
<1>8. CASE AtByte(p, s, o, j) /\ j = DataLen + 2
  <2>1. o + 1 = Len(F) /\ b = ETX /\ pos = DataLen + 1
    <3>1. s[DataLen + 2] = Len(F) /\ Len(F) \in Nat
      <4>1. Len(p) + 1 = DataLen + 2
        BY <1>0
      <4> QED  BY <4>1 DEF Framed
    <3>2. o + 1 = Len(F) /\ pos = DataLen + 1
      BY <1>0, <1>4, <1>8, <3>1 DEF AtByte, pos
    <3> QED  BY <3>2 DEF Framed, b
  <2>2. ReadETX
    BY <1>2, <1>6, <2>1
  <2>3. msg' = msg /\ state' = "ENDED" /\ below' = below
    BY <1>0, <2>1, <2>2 DEF ReadETX
  <2>4. Len(msg') = DataLen + 1 /\ \A i \in 1 .. DataLen + 1 : msg'[i] = p[i]
    BY <1>0, <1>8, <2>3 DEF AtByte, Decoded
  <2> QED  BY <2>1, <2>3, <2>4 DEF Complete, Decoded
<1>9. CASE InEscape(F, p, s, o, j)
  <2>1. /\ j \in 1 .. DataLen + 1 /\ s[j] = o /\ pos = j /\ j + 1 \in 1 .. DataLen + 2
        /\ Hidden(F, p, s, j) /\ b \in Byte \ {STX, ETX} /\ Flip(b) = p[j]
        /\ p[j] \in Byte
    BY <1>0, <1>3, <1>9 DEF InEscape, Hidden, pos, b
  <2>2. ReadOther
    BY <1>2, <1>6, <2>1
  <2>3. /\ lastesc' = j /\ msg' = [msg EXCEPT ![j] = p[j]] /\ below' = below
        /\ state' = "STARTED"
    <3>1. /\ pos # 0 /\ msg[pos] = ESC /\ lastesc # pos
      BY <1>0, <1>9, <2>1 DEF InEscape
    <3> QED  BY <2>1, <2>2, <3>1 DEF ReadOther, Received, b
  <2>4. Len(msg') = j /\ \A i \in 1 .. j : msg'[i] = p[i]
    BY <1>0, <1>9, <2>1, <2>3 DEF InEscape, Decoded
  <2>5. (j + 1) - 1 = j /\ o + 1 = s[j + 1] - 1
    BY <2>1 DEF Hidden
  <2>6. AtByte(p, s, o + 1, j + 1)'
    BY <2>1, <2>3, <2>4, <2>5 DEF AtByte, Decoded
  <2> QED  BY <2>3, <2>6 DEF Within
<1> QED  BY <1>1, <1>7, <1>8, <1>9

-----------------------------------------------------------------------------
\* The lines of the frames, in what waits.
LEMMA NextByte ==
  ASSUME NEW at, NEW F, NEW S, NEW c, NEW k,
         Sending(at, F, S), Waiting(at, F, c), InFrame(at, c, k),
         sent \in Seq(Seq(Byte)), wire \in Seq([byte : Byte, frame : Nat]),
         k # Len(sent) + 1, c < at[k + 1]
  PROVE  /\ wire # <<>> /\ c - at[k] \in Nat /\ c - at[k] < Len(F[k])
         /\ Head(wire).byte = F[k][c - at[k] + 1] /\ Head(wire).frame = k
         /\ wire' = Tail(wire) /\ sent' = sent => Waiting(at, F, c + 1)'
<1> DEFINE m == Len(sent)
           o == c - at[k]
<1>1. /\ m \in Nat /\ k \in 1 .. m /\ k + 1 \in 1 .. m + 1 /\ k \in 1 .. m + 1
      /\ \A f \in 1 .. m + 1 : at[f] \in Nat /\ at[f] <= at[m + 1]
      /\ c \in Nat
  <2>1. m \in Nat
    OBVIOUS
  <2>2. k \in 1 .. m + 1 /\ k # m + 1 /\ c \in Nat
    BY DEF InFrame, Waiting
  <2>3. /\ at \in [1 .. m + 1 -> Nat] /\ \A f \in 1 .. m + 1 : at[f] <= at[m + 1]
    BY DEF Sending
  <2> HIDE DEF m
  <2>4. \A f \in 1 .. m + 1 : at[f] \in Nat
    BY <2>3
  <2> QED  BY <2>1, <2>2, <2>3, <2>4
<1>2. \A f \in 1 .. m : /\ Len(F[f]) \in Nat /\ at[f + 1] = at[f] + Len(F[f])
                        /\ at[f] \in Nat /\ at[f] + Len(F[f]) <= at[m + 1]
  <2>1. ASSUME NEW f \in 1 .. m
        PROVE  /\ Len(F[f]) \in Nat /\ at[f + 1] = at[f] + Len(F[f])
               /\ at[f] \in Nat /\ at[f] + Len(F[f]) <= at[m + 1]
    <3>1. f + 1 \in 1 .. m + 1 /\ f \in 1 .. m + 1
      BY <1>1
    <3>2. F[f] \in Seq(Byte) /\ at[f + 1] = at[f] + Len(F[f])
      BY DEF Sending, Framed
    <3>3. at[f] \in Nat /\ at[f + 1] <= at[m + 1]
      BY <1>1, <3>1
    <3>4. Len(F[f]) \in Nat
      BY <3>2
    <3> HIDE DEF m
    <3> QED  BY ONLY <3>2, <3>3, <3>4
  <2> QED  BY <2>1
<1>3. /\ at[k] \in Nat /\ at[k] <= c /\ Len(F[k]) \in Nat /\ c < at[k] + Len(F[k])
      /\ at[k] + Len(F[k]) <= at[m + 1] /\ at[m + 1] \in Nat
  BY <1>1, <1>2 DEF InFrame
<1>4. o \in Nat /\ o + 1 \in 1 .. Len(F[k]) /\ at[k] + (o + 1) > c /\ at[k] + (o + 1) - c = 1
      /\ o < Len(F[k])
  <2>1. \A a, l, d \in Nat :
          a <= d /\ d < a + l =>
            /\ d - a \in Nat /\ (d - a) + 1 \in 1 .. l /\ d - a < l
            /\ a + ((d - a) + 1) > d /\ a + ((d - a) + 1) - d = 1
    OBVIOUS
  <2> QED  BY <1>1, <1>3, <2>1
<1>5. Len(wire) = at[m + 1] - c /\ Len(wire) > 0 /\ Len(wire) \in Nat
  <2>1. Len(wire) = at[m + 1] - c
    BY DEF Waiting
  <2>2. \A d, a, l, e \in Nat : d < a + l /\ a + l <= e => e - d \in Nat /\ e - d > 0
    OBVIOUS
  <2> HIDE DEF m
  <2> QED  BY ONLY <1>1, <1>3, <2>1, <2>2
<1>6. wire[1] = [byte |-> F[k][o + 1], frame |-> k]
  <2> HIDE DEF o
  <2> QED  BY <1>1, <1>4 DEF Waiting
<1>7. wire # <<>> /\ Head(wire) = wire[1] /\ Len(Tail(wire)) = Len(wire) - 1
      /\ \A i \in 1 .. Len(wire) - 1 : Tail(wire)[i] = wire[i + 1]
  BY <1>5
<1>8. ASSUME wire' = Tail(wire), sent' = sent
      PROVE  Waiting(at, F, c + 1)'
  <2>1. c + 1 \in Nat /\ c + 1 <= at[m + 1] /\ Len(wire') = at[m + 1] - (c + 1)
    <3>1. Len(wire') = Len(wire) - 1
      BY <1>7, <1>8
    <3>2. PICK e \in Nat, l \in Nat : e = at[m + 1] /\ l = Len(wire)
      BY <1>3, <1>5
    <3>3. c \in Nat /\ l = e - c /\ l > 0
      BY <1>1, <1>5, <3>2
    <3>4. c + 1 \in Nat /\ c + 1 <= e /\ l - 1 = e - (c + 1)
      BY ONLY <3>2, <3>3
    <3> QED  BY ONLY <3>1, <3>2, <3>4
  <2>2. ASSUME NEW f \in 1 .. m, NEW x \in 1 .. Len(F[f]), at[f] + x > c + 1
        PROVE  wire'[at[f] + x - (c + 1)] = [byte |-> F[f][x], frame |-> f]
    <3>1. /\ at[f] + x - (c + 1) \in 1 .. Len(wire) - 1
          /\ (at[f] + x - (c + 1)) + 1 = at[f] + x - c /\ at[f] + x > c
      <4>1. \A a, l, e, d, y, w \in Nat :
              y <= l /\ w = e - d /\ a + l <= e /\ a + y > d + 1 =>
                /\ a + y - (d + 1) \in 1 .. w - 1
                /\ (a + y - (d + 1)) + 1 = a + y - d /\ a + y > d
        OBVIOUS
      <4>2. /\ x \in Nat /\ x <= Len(F[f]) /\ c \in Nat /\ Len(wire) = at[m + 1] - c
            /\ at[f] \in Nat /\ Len(F[f]) \in Nat /\ at[f] + Len(F[f]) <= at[m + 1]
            /\ at[m + 1] \in Nat /\ Len(wire) \in Nat
        BY <1>1, <1>2, <1>3, <1>5
      <4> HIDE DEF m
      <4> QED  BY ONLY <2>2, <4>1, <4>2
    <3>2. wire'[at[f] + x - (c + 1)] = wire[at[f] + x - c]
      BY <1>7, <1>8, <3>1
    <3>3. wire[at[f] + x - c] = [byte |-> F[f][x], frame |-> f]
      BY <3>1 DEF Waiting
    <3> QED  BY <3>2, <3>3
  <2> QED  BY <1>8, <2>1, <2>2 DEF Waiting
<1> QED  BY <1>4, <1>6, <1>7, <1>8

\* A reader that has begun a frame has not come to its end.
LEMMA MidFrame ==
  ASSUME StreamAssumption, NEW F, NEW p, NEW s, NEW o, Framed(F, p, s),
         Len(p) = DataLen + 1, Within(F, p, s, o)
  PROVE  o \in 1 .. Len(F) - 1 /\ Len(msg) <= DataLen + 1
<1>0. DataLen \in Nat
  BY DEF StreamAssumption
<1>1. PICK j \in Nat : AtByte(p, s, o, j) \/ InEscape(F, p, s, o, j)
  BY DEF Within
<1>2. \A i \in 1 .. DataLen + 2 : s[i] \in Nat /\ s[i] >= 2 /\ s[i] <= Len(F)
  <2>1. Len(p) + 1 = DataLen + 2 /\ Len(F) \in Nat
    BY <1>0 DEF Framed
  <2> QED  BY <2>1 DEF Framed
<1>3. Len(F) \in Nat
  BY DEF Framed
<1>4. CASE AtByte(p, s, o, j)
  BY <1>0, <1>2, <1>3, <1>4 DEF AtByte
<1>5. CASE InEscape(F, p, s, o, j)
  <2>1. /\ j \in 1 .. DataLen + 2 /\ j + 1 \in 1 .. DataLen + 2 /\ s[j + 1] = s[j] + 2
        /\ o = s[j] /\ Len(msg) = j /\ j <= DataLen + 1
    BY <1>0, <1>5 DEF InEscape, Hidden
  <2> QED  BY <1>0, <1>2, <1>3, <2>1
<1> QED  BY <1>1, <1>4, <1>5

-----------------------------------------------------------------------------
\* The frames, and where they begin.
LEMMA Layout ==
  ASSUME NEW at, NEW F, NEW S, Sending(at, F, S), TypeOK, Orderly
  PROVE  /\ Len(sent) \in Nat /\ DataLen \in Nat
         /\ \A f \in 1 .. Len(sent) + 1 : at[f] \in Nat /\ at[f] <= at[Len(sent) + 1]
         /\ \A f \in 1 .. Len(sent) :
              /\ at[f + 1] = at[f] + Len(F[f]) /\ at[f] \in Nat
              /\ Len(F[f]) \in Nat /\ Len(F[f]) >= 2
              /\ Framed(F[f], Packet(sent[f]), S[f])
              /\ F[f][1] = STX /\ \A x \in 2 .. Len(F[f]) : F[f][x] # STX
              /\ sent[f] \in Seq(Byte) /\ Len(sent[f]) = DataLen
              /\ Packet(sent[f]) \in Seq(Byte) /\ Len(Packet(sent[f])) = DataLen + 1
              /\ \A i \in 1 .. DataLen : Packet(sent[f])[i] = sent[f][i]
              /\ Packet(sent[f])[DataLen + 1] = calcCrc(sent[f])
<1> DEFINE m == Len(sent)
<1>1. m \in Nat /\ DataLen \in Nat
  BY StreamAssumption DEF TypeOK
<1>2. \A f \in 1 .. m + 1 : at[f] \in Nat /\ at[f] <= at[m + 1]
  <2> HIDE DEF m
  <2>1. at \in [1 .. m + 1 -> Nat] /\ \A f \in 1 .. m + 1 : at[f] <= at[m + 1]
    BY DEF Sending, m
  <2> QED  BY <2>1
<1>3. ASSUME NEW f \in 1 .. m
      PROVE  /\ at[f + 1] = at[f] + Len(F[f]) /\ at[f] \in Nat
             /\ Len(F[f]) \in Nat /\ Len(F[f]) >= 2
             /\ Framed(F[f], Packet(sent[f]), S[f])
             /\ F[f][1] = STX /\ \A x \in 2 .. Len(F[f]) : F[f][x] # STX
  <2>1. at[f + 1] = at[f] + Len(F[f]) /\ Framed(F[f], Packet(sent[f]), S[f])
    BY DEF Sending
  <2>2. f \in 1 .. m + 1
    BY <1>1
  <2>3. /\ F[f] \in Seq(Byte) /\ F[f][1] = STX /\ \A x \in 2 .. Len(F[f]) : F[f][x] # STX
        /\ S[f][1] \in 2 .. Len(F[f])
    <3>1. Packet(sent[f]) \in Seq(Byte)
      BY <2>1 DEF Framed
    <3>2. 1 \in 1 .. Len(Packet(sent[f])) + 1
      BY <3>1
    <3> QED  BY <2>1, <3>2 DEF Framed
  <2>4. Len(F[f]) \in Nat /\ Len(F[f]) >= 2
    BY <2>3
  <2> QED  BY <1>2, <2>1, <2>2, <2>3, <2>4
<1>4. ASSUME NEW f \in 1 .. m
      PROVE  /\ sent[f] \in Seq(Byte) /\ Len(sent[f]) = DataLen
             /\ Packet(sent[f]) \in Seq(Byte) /\ Len(Packet(sent[f])) = DataLen + 1
             /\ \A i \in 1 .. DataLen : Packet(sent[f])[i] = sent[f][i]
             /\ Packet(sent[f])[DataLen + 1] = calcCrc(sent[f])
  <2>1. sent[f] \in Payloads
    BY DEF Sending
  <2>2. sent[f] \in Seq(Byte) /\ Len(sent[f]) = DataLen
    BY <2>1, StreamAssumption DEF Orderly
  <2>3. calcCrc(sent[f]) \in Byte
    BY <2>2, CrcType
  <2> QED  BY <1>1, <2>2, <2>3 DEF Packet
<1> QED  BY <1>1, <1>2, <1>3, <1>4

\* Nothing is sent yet.
LEMMA SyncedInit == Orderly /\ Init => Synced
<1> SUFFICES ASSUME Orderly, Init PROVE Synced
  OBVIOUS
<1> DEFINE at == [ f \in 1 .. 1 |-> 0 ]
           none == [ i \in 1 .. 0 |-> 0 ]
<1>1. Len(sent) = 0 /\ Len(got) = 0 /\ Len(wire) = 0 /\ msg = <<>> /\ wire = <<>>
      /\ state = "NOTSTARTED" /\ lastesc = -1 /\ damaged = {} /\ below # ESC
  BY DEF Init, Orderly
<1>2. Sending(at, none, none)
  BY <1>1 DEF Sending
<1>3. Waiting(at, none, 0)
  BY <1>1 DEF Waiting
<1>4. InFrame(at, 0, 1)
  BY <1>1 DEF InFrame
<1>5. Reader(at, none, none, 0, 1)
  BY <1>1 DEF Reader
<1>6. Delivered(none, at, 0, 1)
  BY <1>1 DEF Delivered
<1> HIDE DEF at, none
<1> QED  BY <1>2, <1>3, <1>4, <1>5, <1>6 DEF Synced

\* A frame is added at the end of what was ever sent.
LEMMA Extended ==
  ASSUME TypeOK, Orderly, NEW at, NEW F, NEW S, Sending(at, F, S), Send
  PROVE  \E at2, F2, S2, G :
            /\ Sending(at2, F2, S2)'
            /\ Len(G) \in Nat /\ Len(G) >= 2
            /\ Len(sent') = Len(sent) + 1
            /\ \A f \in 1 .. Len(sent) : sent'[f] = sent[f]
            /\ Len(wire) \in Nat /\ Len(wire') = Len(wire) + Len(G)
            /\ \A i \in 1 .. Len(wire) : wire'[i] = wire[i]
            /\ \A x \in 1 .. Len(G) :
                 wire'[Len(wire) + x] = [byte |-> G[x], frame |-> Len(sent) + 1]
            /\ \A f \in 1 .. Len(sent) + 1 : at2[f] = at[f]
            /\ at[Len(sent) + 1] \in Nat
            /\ at2[Len(sent) + 2] = at[Len(sent) + 1] + Len(G)
            /\ at2[Len(sent) + 2] \in Nat
            /\ \A f \in 1 .. Len(sent) : F2[f] = F[f] /\ S2[f] = S[f]
            /\ F2[Len(sent) + 1] = G
<1>1. Sending(at, F, S)
  OBVIOUS
<1>2. PICK data \in Payloads, writer \in Writers :
        /\ sent' = Append(sent, data)
        /\ wire' = wire \o [ i \in 1 .. Len(Frame(data, writer)) |->
                              [byte |-> Frame(data, writer)[i], frame |-> Len(sent) + 1] ]
  BY DEF Send
<1> DEFINE m == Len(sent)
           G == Frame(data, writer)
           more == [ i \in 1 .. Len(G) |-> [byte |-> G[i], frame |-> m + 1] ]
<1>4. /\ m \in Nat
      /\ \A f \in 1 .. m + 1 : at[f] \in Nat /\ at[f] <= at[m + 1]
      /\ \A f \in 1 .. m : /\ at[f + 1] = at[f] + Len(F[f]) /\ at[f] \in Nat
                           /\ Len(F[f]) \in Nat
                           /\ Framed(F[f], Packet(sent[f]), S[f])
  BY <1>1, Layout
<1>5. PICK T : Framed(G, Packet(data), T)
  <2>1. data \in Seq(Byte) /\ (writer # "writeStream" => calcCrc(data) # STX)
    BY StreamAssumption DEF Orderly
  <2> QED  BY <2>1, FrameShape
<1>6. G \in Seq(Byte) /\ Len(G) \in Nat /\ Len(G) >= 2
  <2>1. G \in Seq(Byte) /\ Packet(data) \in Seq(Byte)
    BY <1>5 DEF Framed
  <2>2. 1 \in 1 .. Len(Packet(data)) + 1
    BY <2>1
  <2>3. T[1] \in 2 .. Len(G)
    BY <1>5, <2>2 DEF Framed
  <2> HIDE DEF G
  <2> QED  BY <2>1, <2>3
<1> HIDE DEF G
<1>7. /\ Len(sent') = m + 1 /\ sent'[m + 1] = data
      /\ \A f \in 1 .. m : sent'[f] = sent[f]
  BY <1>2 DEF TypeOK
<1>8. /\ Len(wire) \in Nat /\ Len(wire') = Len(wire) + Len(G)
      /\ \A i \in 1 .. Len(wire) : wire'[i] = wire[i]
      /\ \A x \in 1 .. Len(G) : wire'[Len(wire) + x] = [byte |-> G[x], frame |-> m + 1]
  <2> DEFINE R == [byte : Byte, frame : Nat]
  <2>1. more \in Seq(R) /\ Len(more) = Len(G)
        /\ \A x \in 1 .. Len(G) : more[x] = [byte |-> G[x], frame |-> m + 1]
    <3>1. \A x \in 1 .. Len(G) : G[x] \in Byte
      BY <1>6
    <3>2. m + 1 \in Nat
      BY <1>4
    <3> HIDE DEF m
    <3> QED  BY <1>6, <3>1, <3>2
  <2>2. wire' = wire \o more /\ wire \in Seq(R)
    BY <1>2 DEF G, TypeOK
  <2> HIDE DEF more, R
  <2>3. \A q, r \in Seq(R) :
          /\ Len(q) \in Nat /\ Len(q \o r) = Len(q) + Len(r)
          /\ \A x \in 1 .. Len(q) : (q \o r)[x] = q[x]
          /\ \A x \in 1 .. Len(r) : (q \o r)[Len(q) + x] = r[x]
    OBVIOUS
  <2>4. /\ Len(wire) \in Nat /\ Len(wire \o more) = Len(wire) + Len(more)
        /\ \A x \in 1 .. Len(wire) : (wire \o more)[x] = wire[x]
        /\ \A x \in 1 .. Len(more) : (wire \o more)[Len(wire) + x] = more[x]
    BY ONLY <2>1, <2>2, <2>3, Zenon
  <2>5. /\ Len(wire) \in Nat /\ Len(wire') = Len(wire) + Len(more)
        /\ \A x \in 1 .. Len(wire) : wire'[x] = wire[x]
        /\ \A x \in 1 .. Len(more) : wire'[Len(wire) + x] = more[x]
    BY ONLY <2>2, <2>4, Zenon
  <2> QED  BY <2>1, <2>5
<1> HIDE DEF more
<1> HIDE DEF m
<1>9. PICK at2, F2, S2 :
         /\ at2 = [ f \in 1 .. m + 2 |-> IF f = m + 2 THEN at[m + 1] + Len(G) ELSE at[f] ]
         /\ F2 = [ f \in 1 .. m + 1 |-> IF f = m + 1 THEN G ELSE F[f] ]
         /\ S2 = [ f \in 1 .. m + 1 |-> IF f = m + 1 THEN T ELSE S[f] ]
  OBVIOUS
<1>10. /\ \A f \in 1 .. m + 1 : at2[f] = at[f]
       /\ at2[m + 2] = at[m + 1] + Len(G) /\ at[m + 1] \in Nat
       /\ at2[m + 2] \in Nat
       /\ \A f \in 1 .. m : F2[f] = F[f] /\ S2[f] = S[f]
       /\ F2[m + 1] = G /\ S2[m + 1] = T
  <2>1. at[m + 1] \in Nat
    BY <1>4
  <2> QED  BY <1>4, <1>6, <1>9, <2>1
<1>11. at2 \in [1 .. m + 2 -> Nat] /\ \A f \in 1 .. m + 2 : at2[f] <= at2[m + 2]
  <2>1. ASSUME NEW f \in 1 .. m + 2 PROVE at2[f] \in Nat /\ at2[f] <= at2[m + 2]
    <3>1. CASE f = m + 2
      BY <1>10, <3>1
    <3>2. CASE f # m + 2
      <4>1. f \in 1 .. m + 1
        BY <1>4, <3>2
      <4>2. at2[f] = at[f] /\ at[f] \in Nat /\ at[f] <= at[m + 1]
        BY <1>4, <1>10, <4>1
      <4> QED  BY <1>6, <1>10, <4>2
    <3> QED  BY <3>1, <3>2
  <2> QED  BY <1>9, <2>1
<1>12. Sending(at2, F2, S2)'
  <2>2. ASSUME NEW f \in 1 .. m + 1
        PROVE  /\ sent'[f] \in Payloads
               /\ Framed(F2[f], Packet(sent'[f]), S2[f])
               /\ at2[f + 1] = at2[f] + Len(F2[f])
    <3>1. CASE f = m + 1
      <4>1. f + 1 = m + 2 /\ m + 1 \in 1 .. m + 1
        BY <1>4, <3>1
      <4>2. at2[f] = at[m + 1] /\ sent'[f] = data
        BY <1>7, <1>10, <3>1, <4>1 DEF m
      <4>3. F2[f] = G /\ S2[f] = T /\ at2[f + 1] = at[m + 1] + Len(G)
        <5>1. F2[m + 1] = G /\ S2[m + 1] = T /\ at2[m + 2] = at[m + 1] + Len(G)
          BY <1>10
        <5> QED  BY ONLY <3>1, <4>1, <5>1
      <4> QED  BY <1>5, <4>2, <4>3
    <3>2. CASE f # m + 1
      <4>1. f \in 1 .. m /\ f \in 1 .. m + 1 /\ f + 1 \in 1 .. m + 1
        BY <1>4, <3>2
      <4>2. /\ sent'[f] = sent[f] /\ F2[f] = F[f] /\ S2[f] = S[f] /\ at2[f] = at[f]
            /\ at2[f + 1] = at[f + 1]
        BY <1>7, <1>10, <4>1 DEF m
      <4>3. sent[f] \in Payloads
        BY <1>1, <4>1 DEF Sending, m
      <4> QED  BY <1>4, <4>1, <4>2, <4>3
    <3> QED  BY <3>1, <3>2
  <2>3. Len(sent') = m + 1 /\ Len(sent') + 1 = m + 2
    BY <1>4, <1>7
  <2> QED  BY <1>11, <2>2, <2>3 DEF Sending, Framed, Bare, Hidden, Packet
<1> QED  BY <1>6, <1>7, <1>8, <1>10, <1>12 DEF m

\* A frame is added at the end.
LEMMA SyncedSend ==
  ASSUME TypeOK, Orderly, Synced, Send
  PROVE  Synced'
<1>1. PICK at, F, S, c, k, from :
        /\ Sending(at, F, S) /\ Waiting(at, F, c) /\ InFrame(at, c, k)
        /\ Reader(at, F, S, c, k) /\ Delivered(from, at, c, k)
  BY DEF Synced
<1>3. UNCHANGED <<state, msg, lastesc, below, damaged, got>>
  BY DEF Send, reader
<1> DEFINE m == Len(sent)
<1>4. /\ m \in Nat
      /\ \A f \in 1 .. m + 1 : at[f] \in Nat /\ at[f] <= at[m + 1]
      /\ \A f \in 1 .. m : /\ at[f + 1] = at[f] + Len(F[f]) /\ at[f] \in Nat
                           /\ Len(F[f]) \in Nat
                           /\ Framed(F[f], Packet(sent[f]), S[f])
  BY <1>1, Layout
<1>5. PICK at2, F2, S2, G :
        /\ Sending(at2, F2, S2)'
        /\ Len(G) \in Nat /\ Len(G) >= 2
        /\ Len(sent') = Len(sent) + 1
        /\ \A f \in 1 .. Len(sent) : sent'[f] = sent[f]
        /\ Len(wire) \in Nat /\ Len(wire') = Len(wire) + Len(G)
        /\ \A i \in 1 .. Len(wire) : wire'[i] = wire[i]
        /\ \A x \in 1 .. Len(G) :
             wire'[Len(wire) + x] = [byte |-> G[x], frame |-> Len(sent) + 1]
        /\ \A f \in 1 .. Len(sent) + 1 : at2[f] = at[f]
        /\ at[Len(sent) + 1] \in Nat
        /\ at2[Len(sent) + 2] = at[Len(sent) + 1] + Len(G)
        /\ at2[Len(sent) + 2] \in Nat
        /\ \A f \in 1 .. Len(sent) : F2[f] = F[f] /\ S2[f] = S[f]
        /\ F2[Len(sent) + 1] = G
  BY <1>1, Extended
<1>6. Len(G) \in Nat /\ Len(G) >= 2
  BY <1>5
<1>7. Len(sent') = m + 1 /\ \A f \in 1 .. m : sent'[f] = sent[f]
  BY <1>5
<1>8. /\ Len(wire) \in Nat /\ Len(wire') = Len(wire) + Len(G)
      /\ \A i \in 1 .. Len(wire) : wire'[i] = wire[i]
      /\ \A x \in 1 .. Len(G) : wire'[Len(wire) + x] = [byte |-> G[x], frame |-> m + 1]
  BY <1>5
<1>10. /\ \A f \in 1 .. m + 1 : at2[f] = at[f]
       /\ at2[m + 2] = at[m + 1] + Len(G) /\ at[m + 1] \in Nat
       /\ at2[m + 2] \in Nat
       /\ \A f \in 1 .. m : F2[f] = F[f] /\ S2[f] = S[f]
       /\ F2[m + 1] = G
  BY <1>5
<1>12. Sending(at2, F2, S2)'
  BY <1>5
<1> HIDE DEF m
<1>13. Waiting(at2, F2, c)'
  <2>1. /\ c \in Nat /\ c <= at[m + 1] /\ Len(wire) = at[m + 1] - c
        /\ \A f \in 1 .. m : \A x \in 1 .. Len(F[f]) :
             at[f] + x > c => wire[at[f] + x - c] = [byte |-> F[f][x], frame |-> f]
    BY <1>1 DEF Waiting, m
  <2>2. c <= at2[m + 2] /\ Len(wire') = at2[m + 2] - c
    BY <1>6, <1>8, <1>10, <2>1
  <2>3. ASSUME NEW f \in 1 .. m + 1, NEW x \in 1 .. Len(F2[f]), at2[f] + x > c
        PROVE  wire'[at2[f] + x - c] = [byte |-> F2[f][x], frame |-> f]
    <3>1. CASE f = m + 1
      <4>1. F2[f] = G /\ at2[f] = at[m + 1] /\ x \in 1 .. Len(G)
        <5>1. m + 1 \in 1 .. m + 1
          BY <1>4
        <5>2. F2[m + 1] = G /\ at2[m + 1] = at[m + 1]
          BY <1>10, <5>1
        <5>3. x \in 1 .. Len(F2[f])
          OBVIOUS
        <5> QED  BY ONLY <3>1, <5>2, <5>3, Zenon
      <4>2. at[m + 1] + x - c = Len(wire) + x
        BY <1>6, <1>10, <2>1, <4>1
      <4> QED  BY <1>8, <3>1, <4>1, <4>2
    <3>2. CASE f # m + 1
      <4>1. f \in 1 .. m /\ f \in 1 .. m + 1 /\ f + 1 \in 1 .. m + 1
        BY <1>4, <3>2
      <4>2. F2[f] = F[f] /\ at2[f] = at[f] /\ x \in 1 .. Len(F[f])
        BY <1>10, <4>1
      <4>3. /\ at[f] \in Nat /\ Len(F[f]) \in Nat /\ at[f] + Len(F[f]) <= at[m + 1]
            /\ at[m + 1] \in Nat /\ at[f] + x > c
        BY <1>4, <1>10, <2>3, <4>1, <4>2
      <4>4. at[f] + x - c \in 1 .. Len(wire)
        <5>1. \A a, l, e, y, w, d \in Nat :
                y <= l /\ a + l <= e /\ a + y > d /\ w = e - d => a + y - d \in 1 .. w
          OBVIOUS
        <5>2. x \in Nat /\ x <= Len(F[f])
          BY <4>2, <4>3
        <5> QED  BY ONLY <1>8, <2>1, <4>3, <5>1, <5>2
      <4>5. wire'[at[f] + x - c] = wire[at[f] + x - c]
        BY <1>8, <4>4
      <4>6. wire[at[f] + x - c] = [byte |-> F[f][x], frame |-> f]
        BY <2>1, <4>1, <4>2, <4>3
      <4> QED  BY <4>2, <4>5, <4>6
    <3> QED  BY <3>1, <3>2
  <2>4. Len(sent') = m + 1 /\ Len(sent') + 1 = m + 2
    BY <1>4, <1>7
  <2> QED  BY <2>1, <2>2, <2>3, <2>4 DEF Waiting
<1>14. /\ k \in 1 .. m + 1 /\ at[k] <= c /\ c \in Nat
       /\ k = m + 1 => c = at[k]
       /\ k # m + 1 => c <= at[k + 1]
       /\ at2[k] = at[k] /\ k \in 1 .. m + 2 /\ k # m + 2
       /\ k # m + 1 => k \in 1 .. m /\ at2[k + 1] = at[k + 1]
       /\ k = m + 1 => at2[k + 1] = at[k] + Len(G)
  <2>1. /\ k \in 1 .. m + 1 /\ at[k] <= c /\ c \in Nat
        /\ k = m + 1 => c = at[k]
        /\ k # m + 1 => c <= at[k + 1]
    BY <1>1 DEF InFrame, Waiting, m
  <2>2. k \in 1 .. m + 2 /\ k # m + 2 /\ (k # m + 1 => k \in 1 .. m /\ k + 1 \in 1 .. m + 1)
        /\ (k = m + 1 => k + 1 = m + 2)
    BY <1>4, <2>1
  <2> QED  BY <1>10, <2>1, <2>2
<1>15. InFrame(at2, c, k)'
  <2>1. Len(sent') + 1 = m + 2
    BY <1>4, <1>7
  <2>2. k = m + 1 => c <= at2[k + 1]
    BY <1>6, <1>10, <1>14
  <2> QED  BY <1>14, <2>1, <2>2 DEF InFrame
<1>16. Reader(at2, F2, S2, c, k)'
  <2>1. Len(sent') + 1 = m + 2
    BY <1>4, <1>7
  <2>2. k = m + 1 => c < at2[k + 1]
    BY <1>6, <1>10, <1>14
  <2>3. below' # ESC
    BY <1>1, <1>3 DEF Reader
  <2>4. state = "NOTSTARTED" => msg = <<>> /\ lastesc = -1 /\ c < at2[k + 1]
                                /\ (c > at2[k] => k \in damaged)
    BY <1>1, <1>14, <2>2 DEF Reader, m
  <2>5. state # "NOTSTARTED" => /\ k \in 1 .. m /\ F2[k] = F[k] /\ S2[k] = S[k]
                                /\ sent'[k] = sent[k]
    BY <1>1, <1>7, <1>10, <1>14 DEF Reader, m
  <2>6. state = "STARTED" => Within(F2[k], Packet(sent'[k]), S2[k], c - at2[k])
    BY <1>1, <1>14, <2>5 DEF Reader
  <2>7. state = "ENDED" => Complete(F2[k], Packet(sent'[k]), c - at2[k])
    BY <1>1, <1>14, <2>5 DEF Reader
  <2>8. state' = "STARTED" => Within(F2[k], Packet(sent[k]), S2[k], c - at2[k])'
    BY <1>3, <2>6 DEF Within, AtByte, InEscape, Hidden, Decoded
  <2>9. state' = "ENDED" => Complete(F2[k], Packet(sent[k]), c - at2[k])'
    BY <1>3, <2>7 DEF Complete, Decoded
  <2> QED  BY <1>3, <1>14, <2>1, <2>3, <2>4, <2>8, <2>9 DEF Reader
<1>17. Delivered(from, at2, c, k)'
  <2>1. /\ from \in [1 .. Len(got) -> 1 .. m]
        /\ \A i \in 1 .. Len(got) :
             /\ got[i] = sent[from[i]] /\ from[i] <= k
             /\ from[i] = k => state = "NOTSTARTED" /\ c > at[k]
        /\ \A i, j \in 1 .. Len(got) : i < j => from[i] < from[j]
        /\ damaged \subseteq 1 .. m
        /\ \A f \in 1 .. k - 1 : f \in damaged \/ \E i \in 1 .. Len(got) : from[i] = f
    BY <1>1 DEF Delivered, m
  <2>2. /\ from \in [1 .. Len(got) -> 1 .. m + 1]
        /\ damaged \subseteq 1 .. m + 1
        /\ \A i \in 1 .. Len(got) : from[i] \in 1 .. m
    <3>1. \A f \in 1 .. m : f \in 1 .. m + 1
      BY <1>4
    <3> QED  BY <2>1, <3>1
  <2>3. \A i \in 1 .. Len(got) : got[i] = sent'[from[i]]
    BY <1>7, <2>1, <2>2 DEF m
  <2>4. Len(sent') = m + 1
    BY <1>7
  <2> QED  BY <1>3, <1>14, <2>1, <2>2, <2>3, <2>4 DEF Delivered
<1> QED  BY <1>12, <1>13, <1>15, <1>16, <1>17 DEF Synced

\* A byte is read.
LEMMA SyncedRead ==
  ASSUME TypeOK, Orderly, Synced, ReadSTX \/ ReadETX \/ ReadOther
  PROVE  Synced'
<1>1. PICK at, F, S, c, k, from :
        /\ Sending(at, F, S) /\ Waiting(at, F, c) /\ InFrame(at, c, k)
        /\ Reader(at, F, S, c, k) /\ Delivered(from, at, c, k)
  BY DEF Synced
<1>2. /\ wire # <<>> /\ wire' = Tail(wire) /\ state # "ENDED"
      /\ UNCHANGED <<sent, damaged, got>>
      /\ ReadSTX => Head(wire).byte = STX
      /\ ~ReadSTX => Head(wire).byte # STX
  <2>1. CASE ReadSTX
    BY <2>1 DEF ReadSTX, Received, Reading
  <2>2. CASE ReadETX
    <3>1. ETX # STX
      BY DEF ETX, STX
    <3>2. Head(wire).byte = ETX
      BY <2>2 DEF ReadETX, Received
    <3>3. ReadSTX => Head(wire).byte = STX
      BY DEF ReadSTX, Received
    <3> QED  BY <2>2, <3>1, <3>2, <3>3 DEF ReadETX, Received, Reading
  <2>3. CASE ReadOther
    <3>1. Head(wire).byte # STX
      BY <2>3 DEF ReadOther, Received
    <3>2. ReadSTX => Head(wire).byte = STX
      BY DEF ReadSTX, Received
    <3> QED  BY <2>3, <3>1, <3>2 DEF ReadOther, Received, Reading
  <2> QED  BY <2>1, <2>2, <2>3
<1> DEFINE m == Len(sent)
           o == c - at[k]
<1>3. m \in Nat /\ c \in Nat /\ k \in 1 .. m /\ k \in 1 .. m + 1 /\ k + 1 \in 1 .. m + 1
      /\ at[k] <= c /\ c <= at[k + 1]
  <2>1. /\ m \in Nat /\ k \in 1 .. m + 1 /\ at[k] <= c /\ c \in Nat
        /\ k = m + 1 => c = at[k]
        /\ k # m + 1 => c <= at[k + 1]
        /\ Len(wire) = at[m + 1] - c
    BY <1>1 DEF InFrame, Waiting, TypeOK
  <2>2. k # m + 1
    <3> SUFFICES ASSUME k = m + 1 PROVE FALSE
      OBVIOUS
    <3>1. at[m + 1] \in Nat
      <4>1. m + 1 \in 1 .. m + 1
        BY <2>1
      <4> QED  BY <1>1, <4>1, Layout
    <3>2. Len(wire) = 0
      BY <2>1, <3>1
    <3> QED  BY <1>2, <3>2 DEF TypeOK
  <2> HIDE DEF m
  <2> QED  BY <2>1, <2>2
<1>4. /\ at[k + 1] = at[k] + Len(F[k]) /\ at[k] \in Nat /\ at[k + 1] \in Nat
      /\ Len(F[k]) \in Nat /\ Len(F[k]) >= 2
      /\ Framed(F[k], Packet(sent[k]), S[k])
      /\ F[k][1] = STX /\ \A x \in 2 .. Len(F[k]) : F[k][x] # STX
      /\ Len(Packet(sent[k])) = DataLen + 1
  BY <1>1, <1>3, Layout
<1>5. c < at[k + 1] /\ o \in Nat /\ (state = "STARTED" => o \in 1 .. Len(F[k]) - 1)
  <2>1. CASE state = "STARTED"
    <3>1. Within(F[k], Packet(sent[k]), S[k], o)
      BY <1>1, <2>1 DEF Reader
    <3> HIDE DEF o
    <3>2. o \in 1 .. Len(F[k]) - 1
      BY <1>4, <3>1, MidFrame, StreamAssumption
    <3>3. \A d, a, l, e \in Nat : e = a + l /\ d - a \in 1 .. l - 1 => d < e /\ d - a \in Nat
      OBVIOUS
    <3> QED  BY <1>3, <1>4, <3>2, <3>3 DEF o
  <2>2. CASE state = "NOTSTARTED"
    <3>1. c < at[k + 1]
      BY <1>1, <1>3, <2>2 DEF Reader
    <3>2. \A d, a \in Nat : a <= d => d - a \in Nat
      OBVIOUS
    <3> QED  BY <1>3, <1>4, <2>2, <3>1, <3>2
  <2> QED  BY <1>2, <2>1, <2>2 DEF TypeOK, States
<1>6. /\ Head(wire).byte = F[k][o + 1] /\ Waiting(at, F, c + 1)' /\ o < Len(F[k])
  <2>1. k # Len(sent) + 1
    BY <1>3
  <2> QED  BY <1>1, <1>2, <1>5, <2>1, NextByte DEF TypeOK
<1>7. Sending(at, F, S)'
  BY <1>1, <1>2 DEF Sending
<1>8. /\ (c + 1) - at[k] = o + 1 /\ at[k] <= c + 1 /\ c + 1 <= at[k + 1] /\ c + 1 > at[k]
      /\ Len(sent') + 1 = m + 1 /\ k # m + 1
  <2>1. \A d, a, e \in Nat :
          a <= d /\ d < e => (d + 1) - a = (d - a) + 1 /\ a <= d + 1 /\ d + 1 <= e /\ d + 1 > a
    OBVIOUS
  <2>2. k # m + 1 /\ Len(sent') + 1 = m + 1
    BY <1>2, <1>3
  <2> QED  BY <1>3, <1>4, <1>5, <2>1, <2>2
<1>9. InFrame(at, c + 1, k)'
  BY <1>3, <1>8 DEF InFrame
<1>10. /\ below # ESC
       /\ state = "STARTED" => Within(F[k], Packet(sent[k]), S[k], o)
       /\ state = "NOTSTARTED" => /\ msg = <<>> /\ lastesc = -1
                                  /\ c > at[k] => k \in damaged
  BY <1>1 DEF Reader
<1>11. /\ from \in [1 .. Len(got) -> 1 .. m]
       /\ \A i \in 1 .. Len(got) :
            /\ got[i] = sent[from[i]] /\ from[i] <= k
            /\ from[i] = k => state = "NOTSTARTED" /\ c > at[k]
       /\ \A i, j \in 1 .. Len(got) : i < j => from[i] < from[j]
       /\ damaged \subseteq 1 .. m
       /\ \A f \in 1 .. k - 1 : f \in damaged \/ \E i \in 1 .. Len(got) : from[i] = f
  BY <1>1 DEF Delivered
<1> HIDE DEF o
<1>12. CASE state = "STARTED"
  <2>1. /\ below' # ESC
        /\ \/ state' = "STARTED" /\ Within(F[k], Packet(sent[k]), S[k], o + 1)'
           \/ state' = "ENDED" /\ Complete(F[k], Packet(sent[k]), o + 1)'
    <3>1. PICK G, p, s : G = F[k] /\ p = Packet(sent[k]) /\ s = S[k]
      OBVIOUS
    <3>2. /\ below' # ESC
          /\ \/ state' = "STARTED" /\ Within(G, p, s, o + 1)'
             \/ state' = "ENDED" /\ Complete(G, p, o + 1)'
      BY <1>2, <1>4, <1>5, <1>6, <1>10, <1>12, <3>1, FrameByte
    <3>3. Packet(sent[k])' = p
      BY <1>2, <3>1
    <3> QED  BY <3>1, <3>2, <3>3
  <2>2. Reader(at, F, S, c + 1, k)'
    <3>1. /\ state' = "STARTED" => Within(F[k], Packet(sent[k]), S[k], (c + 1) - at[k])'
          /\ state' = "ENDED" => Complete(F[k], Packet(sent[k]), (c + 1) - at[k])'
      BY <1>8, <2>1
    <3>2. k # Len(sent') + 1 /\ below' # ESC /\ state' # "NOTSTARTED"
      BY <1>8, <2>1
    <3> QED  BY ONLY <3>1, <3>2 DEF Reader
  <2>3. Delivered(from, at, c + 1, k)'
    BY <1>2, <1>11, <1>12 DEF Delivered
  <2> QED  BY <1>6, <1>7, <1>9, <2>2, <2>3 DEF Synced
<1>13. CASE state = "NOTSTARTED" /\ c = at[k]
  <2>1. o = 0 /\ ReadSTX
    BY <1>2, <1>4, <1>6, <1>13 DEF o
  <2>2. state' = "STARTED" /\ msg' = <<>> /\ lastesc' = -1 /\ below' = below
    BY <1>10, <1>13, <2>1 DEF ReadSTX
  <2>3. AtByte(Packet(sent[k]), S[k], o + 1, 1)'
    <3>1. S[k][1] = 2 /\ DataLen \in Nat
      BY <1>4, StreamAssumption DEF Framed
    <3> QED  BY <2>1, <2>2, <3>1 DEF AtByte, Decoded
  <2>4. Reader(at, F, S, c + 1, k)'
    <3>1. Within(F[k], Packet(sent[k]), S[k], o + 1)'
      BY <2>3 DEF Within
    <3>2. Within(F[k], Packet(sent[k]), S[k], (c + 1) - at[k])'
      BY <1>8, <3>1
    <3>3. k # Len(sent') + 1 /\ below' # ESC /\ state' = "STARTED"
      BY <1>8, <1>10, <2>2
    <3> QED  BY ONLY <3>2, <3>3 DEF Reader
  <2>5. Delivered(from, at, c + 1, k)'
    <3>1. \A i \in 1 .. Len(got) : from[i] # k
      BY <1>4, <1>11, <1>13
    <3> QED  BY <1>2, <1>11, <3>1 DEF Delivered
  <2> QED  BY <1>6, <1>7, <1>9, <2>4, <2>5 DEF Synced
<1>14. CASE state = "NOTSTARTED" /\ c # at[k]
  <2>1. c > at[k] /\ o + 1 \in 2 .. Len(F[k]) /\ ~ReadSTX
    <3>1. c > at[k] /\ o + 1 \in 2 .. Len(F[k])
      <4>1. \A d, a, l \in Nat :
              a <= d /\ d # a /\ d - a < l => d > a /\ (d - a) + 1 \in 2 .. l
        OBVIOUS
      <4> QED  BY <1>3, <1>4, <1>6, <1>14, <4>1 DEF o
    <3> QED  BY <1>2, <1>4, <1>6, <3>1
  <2>2. UNCHANGED <<state, msg, lastesc, below>>
    BY <1>14, <2>1 DEF ReadETX, ReadOther
  <2>3. k \in damaged
    BY <1>10, <1>14, <2>1
  <2>4. CASE c + 1 < at[k + 1]
    <3>1. Reader(at, F, S, c + 1, k)'
      BY <1>2, <1>10, <1>14, <2>2, <2>3, <2>4 DEF Reader
    <3>2. Delivered(from, at, c + 1, k)'
      BY <1>2, <1>8, <1>11, <1>14, <2>2 DEF Delivered
    <3> QED  BY <1>6, <1>7, <1>9, <3>1, <3>2 DEF Synced
  <2>5. CASE c + 1 = at[k + 1]
    <3>1. InFrame(at, c + 1, k + 1)' /\ (k + 1 # m + 1 => c + 1 < at[(k + 1) + 1])
      <4>1. k + 1 # m + 1 => k + 1 \in 1 .. m
        BY <1>3
      <4>2. ASSUME k + 1 # m + 1 PROVE c + 1 < at[(k + 1) + 1]
        <5>1. /\ at[(k + 1) + 1] = at[k + 1] + Len(F[k + 1])
              /\ Len(F[k + 1]) \in Nat /\ Len(F[k + 1]) >= 2
          BY <1>1, <4>1, <4>2, Layout
        <5> QED  BY <1>4, <2>5, <5>1
      <4>3. k + 1 # m + 1 => c + 1 <= at[(k + 1) + 1]
        <5>1. k + 1 # m + 1 => at[(k + 1) + 1] \in Nat
          <6>1. ASSUME k + 1 # m + 1 PROVE (k + 1) + 1 \in 1 .. m + 1
            BY <1>3, <6>1
          <6> QED  BY <1>1, <6>1, Layout
        <5> QED  BY <1>3, <4>2, <5>1
      <4> QED  BY <1>2, <1>3, <1>4, <2>5, <4>2, <4>3 DEF InFrame
    <3>2. Reader(at, F, S, c + 1, k + 1)'
      BY <1>2, <1>4, <1>10, <1>14, <2>2, <2>5, <3>1 DEF Reader
    <3>3. Delivered(from, at, c + 1, k + 1)'
      <4>1. \A i \in 1 .. Len(got) : from[i] <= k + 1 /\ from[i] # k + 1
        <5>1. \A i \in 1 .. Len(got) : from[i] \in Nat /\ from[i] <= k
          BY <1>11
        <5> QED  BY <1>3, <5>1
      <4>2. \A f \in 1 .. (k + 1) - 1 : f = k \/ f \in 1 .. k - 1
        BY <1>3
      <4>3. \A f \in 1 .. (k + 1) - 1 : f \in damaged \/ \E i \in 1 .. Len(got) : from[i] = f
        BY <1>11, <2>3, <4>2
      <4> QED  BY <1>2, <1>11, <4>1, <4>3 DEF Delivered
    <3> QED  BY <1>6, <1>7, <3>1, <3>2, <3>3 DEF Synced
  <2> QED  BY <1>4, <1>8, <2>4, <2>5, <1>3
<1> QED  BY <1>2, <1>12, <1>13, <1>14 DEF TypeOK, States

\* What getsample is given.
LEMMA Taken ==
  ASSUME TypeOK, StreamAssumption, NEW data \in Seq(Byte), Len(data) = DataLen,
         Len(msg) = DataLen + 1, \A i \in 1 .. DataLen : msg[i] = data[i]
  PROVE  /\ SubSeq(msg, 1, pos - 1) = data
         /\ msg[DataLen + 1] = calcCrc(data) => Accepted
<1>1. DataLen \in Nat /\ msg \in Seq(Byte)
  BY DEF TypeOK, StreamAssumption
<1>2. \A n \in Nat : \A q, r \in Seq(Byte) :
        Len(q) = n + 1 /\ Len(r) = n /\ (\A i \in 1 .. n : q[i] = r[i]) => SubSeq(q, 1, n) = r
  <2> SUFFICES ASSUME NEW n \in Nat, NEW q \in Seq(Byte), NEW r \in Seq(Byte),
                      Len(q) = n + 1, Len(r) = n, \A i \in 1 .. n : q[i] = r[i]
               PROVE  SubSeq(q, 1, n) = r
    OBVIOUS
  <2>1. /\ SubSeq(q, 1, n) \in Seq(Byte) /\ Len(SubSeq(q, 1, n)) = n
        /\ \A i \in 1 .. n : SubSeq(q, 1, n)[i] = q[i]
    OBVIOUS
  <2> QED  BY <2>1
<1>3. SubSeq(msg, 1, DataLen) = data
  BY <1>1, <1>2
<1>4. pos - 1 = DataLen /\ pos = DataLen + 1
  BY <1>1 DEF pos
<1> QED  BY <1>3, <1>4 DEF Accepted

\* Frame k has been accepted, the last of those in g.
Account(now, g, k) ==
  /\ now \in [1 .. Len(g) -> 1 .. Len(sent)]
  /\ \A i \in 1 .. Len(g) : g[i] = sent[now[i]] /\ now[i] <= k
  /\ \A i, j \in 1 .. Len(g) : i < j => now[i] < now[j]
  /\ \A f \in 1 .. k - 1 : f \in damaged \/ \E i \in 1 .. Len(g) : now[i] = f
  /\ \E i \in 1 .. Len(g) : now[i] = k

LEMMA Grown ==
  ASSUME TypeOK, NEW from, NEW at, NEW c, NEW k \in 1 .. Len(sent),
         Delivered(from, at, c, k), state # "NOTSTARTED", got' = Append(got, sent[k])
  PROVE  \E now : Account(now, got', k)
<1> DEFINE n == Len(got)
           m == Len(sent)
<1>1. n \in Nat /\ m \in Nat /\ Len(got') = n + 1
      /\ got'[n + 1] = sent[k] /\ \A i \in 1 .. n : got'[i] = got[i]
  BY DEF TypeOK
<1>2. /\ from \in [1 .. n -> 1 .. m]
      /\ \A i \in 1 .. n : got[i] = sent[from[i]] /\ from[i] <= k /\ from[i] # k
      /\ \A i, j \in 1 .. n : i < j => from[i] < from[j]
      /\ \A f \in 1 .. k - 1 : f \in damaged \/ \E i \in 1 .. n : from[i] = f
  BY DEF Delivered
<1> HIDE DEF n, m
<1>3. PICK now : now = [ i \in 1 .. n + 1 |-> IF i = n + 1 THEN k ELSE from[i] ]
  OBVIOUS
<1>4. /\ n + 1 \in 1 .. n + 1 /\ now[n + 1] = k
      /\ \A i \in 1 .. n : i \in 1 .. n + 1 /\ now[i] = from[i]
      /\ \A i \in 1 .. n + 1 : i = n + 1 \/ i \in 1 .. n
  BY <1>1, <1>3
<1>5. \A i \in 1 .. n : from[i] \in Nat /\ from[i] \in 1 .. m /\ from[i] < k
  <2>1. \A i \in 1 .. n : from[i] \in 1 .. m /\ from[i] <= k /\ from[i] # k
    BY <1>2
  <2> QED  BY <1>1, <2>1 DEF m
<1>6. now \in [1 .. n + 1 -> 1 .. m]
  <2>1. k \in 1 .. m
    BY DEF m
  <2>2. \A i \in 1 .. n + 1 : now[i] \in 1 .. m
    BY <1>4, <1>5, <2>1
  <2> QED  BY <1>3, <2>2
<1>7. \A i \in 1 .. n + 1 : got'[i] = sent[now[i]] /\ now[i] <= k
  <2>1. k <= k
    BY <1>1 DEF m
  <2> QED  BY <1>1, <1>2, <1>4, <2>1
<1>8. ASSUME NEW i \in 1 .. n + 1, NEW j \in 1 .. n + 1, i < j PROVE now[i] < now[j]
  <2>1. i \in 1 .. n
    BY <1>1, <1>8
  <2>2. CASE j = n + 1
    BY <1>4, <1>5, <2>1, <2>2
  <2>3. CASE j \in 1 .. n
    BY <1>2, <1>4, <1>8, <2>1, <2>3
  <2> QED  BY <1>4, <2>2, <2>3
<1>9. /\ \A f \in 1 .. k - 1 : f \in damaged \/ \E i \in 1 .. n + 1 : now[i] = f
      /\ \E i \in 1 .. n + 1 : now[i] = k
  BY <1>2, <1>4
<1>10. Len(got') = n + 1 /\ Len(sent) = m
  BY <1>1 DEF m
<1>11. /\ now \in [1 .. Len(got') -> 1 .. Len(sent)]
       /\ \A i \in 1 .. Len(got') : got'[i] = sent[now[i]] /\ now[i] <= k
       /\ \A i, j \in 1 .. Len(got') : i < j => now[i] < now[j]
       /\ \A f \in 1 .. k - 1 : f \in damaged \/ \E i \in 1 .. Len(got') : now[i] = f
       /\ \E i \in 1 .. Len(got') : now[i] = k
  BY ONLY <1>6, <1>7, <1>8, <1>9, <1>10
<1> QED  BY ONLY <1>11 DEF Account

\* The end of a frame.
LEMMA SyncedEnd ==
  ASSUME TypeOK, Orderly, Synced, EndOfFrame
  PROVE  Synced'
<1>1. PICK at, F, S, c, k, from :
        /\ Sending(at, F, S) /\ Waiting(at, F, c) /\ InFrame(at, c, k)
        /\ Reader(at, F, S, c, k) /\ Delivered(from, at, c, k)
  BY DEF Synced
<1>2. ~Reading /\ Return /\ UNCHANGED <<wire, sent, damaged>>
  BY DEF EndOfFrame, Return
<1> DEFINE m == Len(sent)
<1>3. /\ m \in Nat /\ c \in Nat /\ k \in 1 .. m + 1 /\ DataLen \in Nat /\ BufLen \in Nat
      /\ BufLen > DataLen + 1
  BY <1>1, StreamAssumption DEF TypeOK, InFrame, Waiting
<1>4. state = "ENDED"
  <2>1. CASE state = "NOTSTARTED"
    <3>1. pos = 0
      BY <1>1, <2>1 DEF Reader, pos
    <3> QED  BY <1>2, <1>3, <2>1, <3>1 DEF Reading
  <2>2. CASE state = "STARTED"
    <3>1. k \in 1 .. m /\ Within(F[k], Packet(sent[k]), S[k], c - at[k])
      BY <1>1, <1>3, <2>2 DEF Reader
    <3>2. Framed(F[k], Packet(sent[k]), S[k]) /\ Len(Packet(sent[k])) = DataLen + 1
      BY <1>1, <3>1, Layout
    <3>3. Len(msg) <= DataLen + 1
      BY <3>1, <3>2, MidFrame, StreamAssumption
    <3>4. Len(msg) \in Nat
      BY DEF TypeOK
    <3>5. Reading
      BY <1>3, <2>2, <3>3, <3>4 DEF Reading, pos
    <3> QED  BY <1>2, <3>5
  <2> QED  BY <2>1, <2>2 DEF TypeOK, States
<1>5. k \in 1 .. m /\ Complete(F[k], Packet(sent[k]), c - at[k])
  BY <1>1, <1>3, <1>4 DEF Reader
<1>6. /\ at[k + 1] = at[k] + Len(F[k]) /\ at[k] \in Nat /\ Len(F[k]) \in Nat
      /\ sent[k] \in Seq(Byte) /\ Len(sent[k]) = DataLen
      /\ \A i \in 1 .. DataLen : Packet(sent[k])[i] = sent[k][i]
      /\ Packet(sent[k])[DataLen + 1] = calcCrc(sent[k])
  BY <1>1, <1>5, Layout
<1>7. c = at[k + 1] /\ k + 1 \in 1 .. m + 1
  <2>1. \A d, a, l \in Nat : d - a = l => d = a + l
    OBVIOUS
  <2> QED  BY <1>3, <1>5, <1>6, <2>1 DEF Complete
<1>8. got' = Append(got, sent[k])
  <2>1. Len(msg) = DataLen + 1 /\ \A i \in 1 .. DataLen + 1 : msg[i] = Packet(sent[k])[i]
    BY <1>5 DEF Complete, Decoded
  <2>2. msg[DataLen + 1] = calcCrc(sent[k]) /\ \A i \in 1 .. DataLen : msg[i] = sent[k][i]
    BY <1>3, <1>6, <2>1
  <2>3. Accepted /\ SubSeq(msg, 1, pos - 1) = sent[k]
    BY <1>6, <2>1, <2>2, Taken, StreamAssumption
  <2> QED  BY <1>2, <2>3 DEF Return
<1>9. PICK now : Account(now, got', k)
  BY <1>1, <1>4, <1>5, <1>8, Grown
<1>10. Sending(at, F, S)' /\ Waiting(at, F, c)'
  BY <1>1, <1>2 DEF Sending, Waiting
<1>11. k + 1 # m + 1 => c < at[(k + 1) + 1] /\ at[(k + 1) + 1] \in Nat
  <2> SUFFICES ASSUME k + 1 # m + 1 PROVE c < at[(k + 1) + 1] /\ at[(k + 1) + 1] \in Nat
    OBVIOUS
  <2>1. k + 1 \in 1 .. m
    BY <1>3, <1>7
  <2>2. /\ at[(k + 1) + 1] = at[k + 1] + Len(F[k + 1]) /\ at[k + 1] \in Nat
        /\ Len(F[k + 1]) \in Nat /\ Len(F[k + 1]) >= 2
    BY <1>1, <2>1, Layout
  <2> QED  BY <1>7, <2>2
<1>12. InFrame(at, c, k + 1)'
  <2>1. at[k + 1] <= c
    BY <1>3, <1>7
  <2>2. k + 1 # m + 1 => c <= at[(k + 1) + 1]
    BY <1>3, <1>11
  <2> QED  BY <1>2, <1>7, <2>1, <2>2 DEF InFrame
<1>13. Reader(at, F, S, c, k + 1)'
  <2>1. state' = "NOTSTARTED" /\ msg' = <<>> /\ lastesc' = -1 /\ below' # ESC
    BY <1>2 DEF Return, Orderly
  <2>2. ~(c > at[k + 1])
    BY <1>3, <1>7
  <2> QED  BY <1>2, <1>11, <2>1, <2>2 DEF Reader
<1>14. Delivered(now, at, c, k + 1)'
  <2>1. \A i \in 1 .. Len(got') : now[i] <= k + 1 /\ now[i] # k + 1
    <3>1. \A i \in 1 .. Len(got') : now[i] \in Nat /\ now[i] <= k
      BY <1>9 DEF Account
    <3> QED  BY <1>3, <3>1
  <2>2. \A f \in 1 .. (k + 1) - 1 : f = k \/ f \in 1 .. k - 1
    BY <1>3
  <2>3. \A f \in 1 .. (k + 1) - 1 : f \in damaged \/ \E i \in 1 .. Len(got') : now[i] = f
    BY <1>9, <2>2 DEF Account
  <2>4. damaged \subseteq 1 .. m
    BY <1>1 DEF Delivered
  <2> QED  BY <1>2, <1>9, <2>1, <2>3, <2>4 DEF Delivered, Account
<1> QED  BY <1>10, <1>12, <1>13, <1>14 DEF Synced

\* A pause.  The packet may have come in whole before it, but for the mark that
\* ends its frame; or but for what an escape hides, if the checksum is ESC.
LEMMA SyncedPause ==
  ASSUME TypeOK, Orderly, Synced, Timeout
  PROVE  Synced'
<1>1. PICK at, F, S, c, k, from :
        /\ Sending(at, F, S) /\ Waiting(at, F, c) /\ InFrame(at, c, k)
        /\ Reader(at, F, S, c, k) /\ Delivered(from, at, c, k)
  BY DEF Synced
<1>2. /\ Reading /\ Return /\ UNCHANGED <<wire, sent>> /\ state # "ENDED"
      /\ state = "NOTSTARTED" => wire # <<>>
      /\ wire # <<>> => damaged' = IF Head(wire).byte = STX THEN damaged
                                   ELSE damaged \cup {Head(wire).frame}
  BY DEF Timeout, Return, Reading
<1> DEFINE m == Len(sent)
           o == c - at[k]
<1>3. /\ m \in Nat /\ c \in Nat /\ k \in 1 .. m + 1 /\ DataLen \in Nat /\ at[k] <= c
      /\ k = m + 1 => c = at[k]
      /\ Len(wire) = at[m + 1] - c
  BY <1>1, StreamAssumption DEF TypeOK, InFrame, Waiting
<1>4. k \in 1 .. m
  <2>1. CASE state = "NOTSTARTED"
    <3> SUFFICES ASSUME k = m + 1 PROVE FALSE
      BY <1>3
    <3>1. at[m + 1] \in Nat
      <4>1. m + 1 \in 1 .. m + 1
        BY <1>3
      <4> QED  BY <1>1, <4>1, Layout
    <3>2. Len(wire) = 0
      BY <1>3, <3>1
    <3> QED  BY <1>2, <2>1, <3>2 DEF TypeOK
  <2>2. CASE state = "STARTED"
    BY <1>1, <1>3, <2>2 DEF Reader
  <2> QED  BY <1>2, <2>1, <2>2 DEF TypeOK, States
<1>5. /\ at[k + 1] = at[k] + Len(F[k]) /\ at[k] \in Nat /\ Len(F[k]) \in Nat
      /\ Len(F[k]) >= 2
      /\ Framed(F[k], Packet(sent[k]), S[k]) /\ Len(Packet(sent[k])) = DataLen + 1
      /\ \A x \in 2 .. Len(F[k]) : F[k][x] # STX
      /\ sent[k] \in Seq(Byte) /\ Len(sent[k]) = DataLen
      /\ \A i \in 1 .. DataLen : Packet(sent[k])[i] = sent[k][i]
  BY <1>1, <1>4, Layout
<1>6. c < at[k + 1] /\ (state = "STARTED" => o \in 1 .. Len(F[k]) - 1 /\ c > at[k])
  <2>1. CASE state = "STARTED"
    <3>1. Within(F[k], Packet(sent[k]), S[k], o)
      BY <1>1, <2>1 DEF Reader
    <3> HIDE DEF o
    <3>2. o \in 1 .. Len(F[k]) - 1
      BY <1>5, <3>1, MidFrame, StreamAssumption
    <3>3. \A d, a, l, e \in Nat : e = a + l /\ d - a \in 1 .. l - 1 => d < e /\ d > a
      OBVIOUS
    <3>4. at[k + 1] \in Nat
      BY <1>5
    <3> QED  BY <1>3, <1>5, <3>2, <3>3, <3>4 DEF o
  <2>2. CASE state = "NOTSTARTED"
    <3>1. k # m + 1
      BY <1>3, <1>4
    <3> QED  BY <1>1, <2>2, <3>1 DEF Reader
  <2> QED  BY <1>2, <2>1, <2>2 DEF TypeOK, States
<1>7. /\ wire # <<>> /\ Head(wire).frame = k /\ o \in Nat /\ o < Len(F[k])
      /\ Head(wire).byte = F[k][o + 1]
  <2>1. k # Len(sent) + 1
    BY <1>3, <1>4
  <2> QED  BY <1>1, <1>6, <2>1, NextByte DEF TypeOK
<1>8. c > at[k] => damaged' = damaged \cup {k}
  <2> SUFFICES ASSUME c > at[k] PROVE damaged' = damaged \cup {k}
    OBVIOUS
  <2>1. o + 1 \in 2 .. Len(F[k])
    <3>1. \A d, a, l \in Nat : d > a /\ d - a < l => (d - a) + 1 \in 2 .. l
      OBVIOUS
    <3> QED  BY <1>3, <1>5, <1>7, <3>1
  <2> HIDE DEF o
  <2> QED  BY <1>2, <1>5, <1>7, <2>1
<1> HIDE DEF o
<1>9. damaged \subseteq damaged' /\ damaged' \subseteq 1 .. m
  <2>1. damaged \subseteq 1 .. m
    BY <1>1 DEF Delivered
  <2>2. damaged' \in {damaged, damaged \cup {k}}
    BY <1>2, <1>7
  <2> QED  BY <1>4, <2>1, <2>2
<1>10. Sending(at, F, S)' /\ Waiting(at, F, c)' /\ InFrame(at, c, k)'
  BY <1>1, <1>2 DEF Sending, Waiting, InFrame
<1>11. Reader(at, F, S, c, k)'
  <2>1. state' = "NOTSTARTED" /\ msg' = <<>> /\ lastesc' = -1 /\ below' # ESC
    BY <1>2 DEF Return, Orderly
  <2>2. c > at[k] => k \in damaged'
    BY <1>8
  <2> QED  BY <1>6, <2>1, <2>2 DEF Reader
<1>12. CASE got' = got
  <2>1. /\ from \in [1 .. Len(got') -> 1 .. m]
        /\ \A i \in 1 .. Len(got') :
             /\ got'[i] = sent[from[i]] /\ from[i] <= k
             /\ from[i] = k => c > at[k]
        /\ \A i, j \in 1 .. Len(got') : i < j => from[i] < from[j]
        /\ \A f \in 1 .. k - 1 : f \in damaged' \/ \E i \in 1 .. Len(got') : from[i] = f
    BY <1>1, <1>9, <1>12 DEF Delivered
  <2>2. state' = "NOTSTARTED" /\ sent' = sent
    BY <1>2 DEF Return
  <2>3. Delivered(from, at, c, k)'
    BY <1>9, <2>1, <2>2 DEF Delivered
  <2> QED  BY <1>10, <1>11, <2>3 DEF Synced
<1>13. CASE Accepted /\ got' = Append(got, SubSeq(msg, 1, pos - 1))
  <2>1. state = "STARTED"
    <3>1. CASE state = "NOTSTARTED"
      <4>1. pos = 0
        BY <1>1, <3>1 DEF Reader, pos
      <4> QED  BY <1>3, <1>13, <4>1 DEF Accepted
    <3> QED  BY <1>2, <3>1 DEF TypeOK, States
  <2>2. PICK b \in Nat : \/ AtByte(Packet(sent[k]), S[k], o, b)
                         \/ InEscape(F[k], Packet(sent[k]), S[k], o, b)
    BY <1>1, <2>1 DEF Reader, Within, o
  <2>3. Len(msg) = DataLen + 1 /\ \A i \in 1 .. DataLen : msg[i] = Packet(sent[k])[i]
    <3>1. Len(msg) = DataLen + 1
      BY <1>13 DEF Accepted, pos
    <3>2. b - 1 >= DataLen /\ \A i \in 1 .. b - 1 : msg[i] = Packet(sent[k])[i]
      BY <1>3, <2>2, <3>1 DEF AtByte, InEscape, Decoded
    <3> QED  BY <1>3, <3>1, <3>2
  <2>4. got' = Append(got, sent[k])
    <3>1. \A i \in 1 .. DataLen : msg[i] = sent[k][i]
      BY <1>5, <2>3
    <3>2. SubSeq(msg, 1, pos - 1) = sent[k]
      BY <1>5, <2>3, <3>1, Taken, StreamAssumption
    <3> QED  BY <1>13, <3>2
  <2>5. PICK now : Account(now, got', k)
    BY <1>1, <1>4, <2>1, <2>4, Grown
  <2>6. Delivered(now, at, c, k)'
    <3>1. state' = "NOTSTARTED" /\ sent' = sent /\ c > at[k]
      BY <1>2, <1>6, <2>1 DEF Return
    <3> QED  BY <1>9, <2>5, <3>1 DEF Delivered, Account
  <2> QED  BY <1>10, <1>11, <2>6 DEF Synced
<1> QED  BY <1>2, <1>12, <1>13 DEF Return

\* The reader never loses its place.
LEMMA SyncedAlways == ASSUME Orderly PROVE Spec => [](lost = 0 => Synced)
<1>1. Init => Synced
  BY SyncedInit
<1>2. TypeOK /\ (lost = 0 => Synced) /\ [Next]_vars => (lost = 0 => Synced)'
  <2> SUFFICES ASSUME TypeOK, lost = 0 => Synced, [Next]_vars, lost' = 0 PROVE Synced'
    OBVIOUS
  <2>1. ~LoseByte
    BY DEF LoseByte, TypeOK
  <2>2. Synced
    BY <2>1 DEF Next, vars, Send, ReadSTX, ReadETX, ReadOther, EndOfFrame, Timeout, Return
  <2>3. CASE UNCHANGED vars
    <3>1. UNCHANGED <<wire, state, msg, lastesc, below, pauses, lost, sent, damaged, got>>
      BY <2>3 DEF vars, reader
    <3>2. PICK at, F, S, c, k, from :
            /\ Sending(at, F, S) /\ Waiting(at, F, c) /\ InFrame(at, c, k)
            /\ Reader(at, F, S, c, k) /\ Delivered(from, at, c, k)
      BY <2>2 DEF Synced
    <3>3. Sending(at, F, S)' /\ Waiting(at, F, c)' /\ InFrame(at, c, k)'
      BY <3>1, <3>2 DEF Sending, Waiting, InFrame
    <3>4. /\ Within(F[k], Packet(sent[k]), S[k], c - at[k]) =>
               Within(F[k], Packet(sent[k]), S[k], c - at[k])'
          /\ Complete(F[k], Packet(sent[k]), c - at[k]) =>
               Complete(F[k], Packet(sent[k]), c - at[k])'
      BY <3>1 DEF Within, AtByte, InEscape, Complete, Decoded
    <3>5. Reader(at, F, S, c, k)' /\ Delivered(from, at, c, k)'
      BY <3>1, <3>2, <3>4 DEF Reader, Delivered
    <3> QED  BY <3>3, <3>5 DEF Synced
  <2> QED  BY <2>1, <2>2, <2>3, SyncedSend, SyncedRead, SyncedEnd, SyncedPause DEF Next
<1> QED  BY <1>1, <1>2, Typing, PTL DEF Spec

(***************************************************************************)
(* As long as no byte has been lost, getsample accepts nothing but what    *)
(* was sent, once and in order, however often readStream's time runs out.  *)
(***************************************************************************)
THEOREM Truth == ASSUME Orderly PROVE Spec => [](lost = 0 => OnlyWhatWasSent)
<1>1. Synced => OnlyWhatWasSent
  BY DEF Synced, Delivered, OnlyWhatWasSent
<1> QED  BY <1>1, SyncedAlways, PTL

\* All that was sent, and that no pause hit, has been accepted.
AllButDamaged ==
  wire = <<>> /\ state = "NOTSTARTED"
    => Len(got) >= Len(sent) - Cardinality(damaged)

(***************************************************************************)
(* As long as no byte has been lost, a pause costs the frame that it hits  *)
(* and no other; HarmIsLocal allows for one more.                          *)
(***************************************************************************)
THEOREM Pauses ==
  ASSUME Orderly PROVE Spec => [](lost = 0 => AllButDamaged /\ HarmIsLocal)
<1>1. TypeOK /\ Synced => AllButDamaged /\ Cardinality(damaged) \in Nat
  <2> SUFFICES ASSUME TypeOK, Synced PROVE AllButDamaged /\ Cardinality(damaged) \in Nat
    OBVIOUS
  <2>1. PICK at, F, S, c, k, from :
          /\ Sending(at, F, S) /\ Waiting(at, F, c) /\ InFrame(at, c, k)
          /\ Reader(at, F, S, c, k) /\ Delivered(from, at, c, k)
    BY DEF Synced
  <2> DEFINE m == Len(sent)
             n == Len(got)
             accepted == { from[i] : i \in 1 .. n }
  <2>2. m \in Nat /\ n \in Nat
    BY DEF TypeOK
  <2>3. /\ IsFiniteSet(1 .. m) /\ Cardinality(1 .. m) = m
        /\ IsFiniteSet(1 .. n) /\ Cardinality(1 .. n) = n
    <3>1. \A z \in Nat : IsFiniteSet(1 .. z) /\ Cardinality(1 .. z) = z
      <4> SUFFICES ASSUME NEW z \in Nat PROVE IsFiniteSet(1 .. z) /\ Cardinality(1 .. z) = z
        OBVIOUS
      <4>1. 1 \in Int /\ z \in Int /\ (1 > z => z = 0) /\ (~(1 > z) => z - 1 + 1 = z)
        OBVIOUS
      <4> QED  BY <4>1, FS_Interval
    <3> QED  BY <2>2, <3>1
  <2>4. damaged \subseteq 1 .. m
    BY <2>1 DEF Delivered
  <2>5. IsFiniteSet(damaged) /\ Cardinality(damaged) \in Nat
    BY <2>4, <2>3, FS_Subset, FS_CardinalityType
  <2>6. ASSUME wire = <<>>, state = "NOTSTARTED"
        PROVE  n >= m - Cardinality(damaged)
    <3>1. k = m + 1
      <4> SUFFICES ASSUME k # m + 1 PROVE FALSE
        OBVIOUS
      <4>1. k + 1 \in 1 .. m + 1 /\ c < at[k + 1]
        BY <2>1, <2>2, <2>6 DEF InFrame, Reader
      <4>2. at[k + 1] \in Nat /\ at[m + 1] \in Nat /\ at[k + 1] <= at[m + 1]
        <5>1. m + 1 \in 1 .. m + 1
          BY <2>2
        <5> QED  BY <2>1, <4>1, <5>1, Layout
      <4>3. c \in Nat /\ at[m + 1] - c = 0
        BY <2>1, <2>6 DEF Waiting
      <4> QED  BY <4>1, <4>2, <4>3
    <3>2. 1 .. m \subseteq accepted \cup damaged
      <4>1. \A f \in 1 .. k - 1 : f \in damaged \/ \E i \in 1 .. n : from[i] = f
        BY <2>1 DEF Delivered
      <4> QED  BY <2>2, <3>1, <4>1
    <3>3. IsFiniteSet(accepted) /\ Cardinality(accepted) <= n /\ Cardinality(accepted) \in Nat
      <4>1. PICK S1 : S1 = 1 .. n
        OBVIOUS
      <4>2. PICK T1 : T1 = accepted
        OBVIOUS
      <4>3. from \in [S1 -> T1] /\ \A t \in T1 : \E s \in S1 : from[s] = t
        <5>1. from \in [1 .. n -> 1 .. m]
          BY <2>1 DEF Delivered
        <5> QED  BY <4>1, <4>2, <5>1
      <4> HIDE DEF n, accepted
      <4>4. from \in Surjection(S1, T1)
        BY <4>3 DEF Surjection
      <4>5. IsFiniteSet(T1) /\ Cardinality(T1) <= Cardinality(S1)
        BY <2>3, <4>1, <4>4, FS_Surjection
      <4> QED  BY <2>3, <4>1, <4>2, <4>5, FS_CardinalityType
    <3>4. /\ IsFiniteSet(accepted \cup damaged)
          /\ Cardinality(accepted \cup damaged) <= Cardinality(accepted) + Cardinality(damaged)
          /\ Cardinality(accepted \cup damaged) \in Nat
      <4>1. PICK T1 : T1 = accepted
        OBVIOUS
      <4> HIDE DEF accepted
      <4>2. /\ IsFiniteSet(T1 \cup damaged)
            /\ Cardinality(T1 \cup damaged) =
                 Cardinality(T1) + Cardinality(damaged) - Cardinality(T1 \cap damaged)
        BY <2>5, <3>3, <4>1, FS_Union
      <4>3. IsFiniteSet(T1 \cap damaged)
        <5>1. T1 \cap damaged \in SUBSET damaged
          OBVIOUS
        <5> QED  BY <2>5, <5>1, FS_Subset
      <4>4. Cardinality(T1 \cap damaged) \in Nat /\ Cardinality(T1 \cup damaged) \in Nat
        BY <4>2, <4>3, FS_CardinalityType
      <4>5. \A x, y, z, u \in Nat : u = x + y - z => u <= x + y
        OBVIOUS
      <4> QED  BY <2>5, <3>3, <4>1, <4>2, <4>4, <4>5
    <3>5. m <= Cardinality(accepted \cup damaged)
      <4>1. PICK T1 : T1 = accepted \cup damaged
        OBVIOUS
      <4>2. PICK S1 : S1 = 1 .. m
        OBVIOUS
      <4>3. S1 \in SUBSET T1 /\ IsFiniteSet(T1)
        BY <3>2, <3>4, <4>1, <4>2
      <4>4. Cardinality(S1) <= Cardinality(T1)
        BY <4>3, FS_Subset
      <4> QED  BY <2>3, <4>1, <4>2, <4>4
    <3> QED  BY <2>2, <2>5, <3>3, <3>4, <3>5
  <2> QED  BY <2>5, <2>6 DEF AllButDamaged
<1>2. TypeOK /\ AllButDamaged /\ Cardinality(damaged) \in Nat => HarmIsLocal
  <2>1. TypeOK => Len(got) \in Nat /\ Len(sent) \in Nat
    BY DEF TypeOK
  <2>2. \A g, s, d \in Nat : g >= s - d => g >= s - 2 * d
    OBVIOUS
  <2> QED  BY <2>1, <2>2 DEF AllButDamaged, HarmIsLocal
<1> QED  BY <1>1, <1>2, SyncedAlways, Typing, PTL

-----------------------------------------------------------------------------
(***************************************************************************)
(* A line that loses bytes.  A start resets the position in the message,   *)
(* but not the position of the last escape: a frame after one that was hit *)
(* may be misread, since an escape at that very position is taken for a    *)
(* byte.  The reader is then too far in the message, never behind: the     *)
(* mark at the end is not taken for a checksum, and ends the frame.        *)
(***************************************************************************)
AheadOf(s, o, j) ==
  /\ o = s[j] - 1 /\ pos >= j - 1
  /\ pos # 0 /\ j # DataLen + 2 /\ msg[pos] = ESC => lastesc = pos

AheadInEscape(F, p, s, o, j) ==
  j # DataLen + 2 /\ o = s[j] /\ Hidden(F, p, s, j) /\ pos >= j /\ msg[pos] = ESC

Loose(F, p, s, o) ==
  \E j \in 1 .. DataLen + 2 : AheadOf(s, o, j) \/ AheadInEscape(F, p, s, o, j)

\* One byte of such a frame: the reader goes on in it, or has come to an end.
LEMMA LooseByte ==
  ASSUME TypeOK, NEW F, NEW p, NEW s, NEW o \in Nat,
         Framed(F, p, s), Len(p) = DataLen + 1, below # ESC,
         state = "STARTED", o < Len(F), wire # <<>>, Head(wire).byte = F[o + 1],
         Loose(F, p, s, o), ReadSTX \/ ReadETX \/ ReadOther
  PROVE  state' = "ENDED" \/ (state' = "STARTED" /\ o + 1 < Len(F) /\ Loose(F, p, s, o + 1)')
<1> DEFINE b == F[o + 1]
<1>0. /\ DataLen \in Nat /\ msg \in Seq(Byte) /\ lastesc \in Int /\ pos \in Nat /\ Len(msg) = pos
      /\ STX # ETX /\ ESC # STX /\ ESC # ETX /\ ESC \in Byte /\ Len(F) \in Nat
  <2>1. DataLen \in Nat /\ msg \in Seq(Byte) /\ lastesc \in Int
    BY StreamAssumption DEF TypeOK
  <2>2. STX # ETX /\ ESC # STX /\ ESC # ETX /\ ESC \in Byte
    BY DEF STX, ETX, ESC, Byte
  <2>3. F \in Seq(Byte)
    BY DEF Framed
  <2>4. pos \in Nat /\ Len(msg) = pos
    BY ONLY <2>1 DEF pos
  <2> QED  BY ONLY <2>1, <2>2, <2>3, <2>4
<1>1. PICK j \in 1 .. DataLen + 2 : AheadOf(s, o, j) \/ AheadInEscape(F, p, s, o, j)
  BY DEF Loose
<1>2. /\ ReadSTX => b = STX
      /\ ReadETX => b = ETX
      /\ ReadOther => b \in Byte \ {STX, ETX}
  BY DEF ReadSTX, ReadETX, ReadOther, Received
<1>3. p \in Seq(Byte) /\ \A i \in 1 .. DataLen + 1 : p[i] \in Byte
  BY <1>0 DEF Framed
<1>4. /\ \A i \in 1 .. DataLen + 2 : s[i] \in Nat /\ s[i] >= 2 /\ s[i] <= Len(F)
      /\ s[DataLen + 2] = Len(F)
  <2>1. Len(p) + 1 = DataLen + 2
    BY ONLY <1>0, Len(p) = DataLen + 1
  <2>2. s[DataLen + 2] = Len(F) /\ \A i \in 1 .. DataLen + 2 : s[i] \in 2 .. Len(F)
    BY <2>1 DEF Framed
  <2>3. \A l \in Nat : \A x \in 2 .. l : x \in Nat /\ x >= 2 /\ x <= l
    OBVIOUS
  <2> QED  BY ONLY <1>0, <2>2, <2>3
<1>5. j # DataLen + 2 => /\ j \in 1 .. DataLen + 1 /\ j + 1 \in 1 .. DataLen + 2
                         /\ j + 1 # DataLen + 2 => j # Len(p)
                         /\ Bare(F, p, s, j) \/ Hidden(F, p, s, j)
  <2>1. j # DataLen + 2 => j \in 1 .. DataLen + 1 /\ j + 1 \in 1 .. DataLen + 2
                           /\ (j + 1 # DataLen + 2 => j # Len(p))
    BY <1>0
  <2> QED  BY <2>1 DEF Framed
<1>6. b # STX
  <2>1. o >= 1
    BY <1>0, <1>1, <1>4 DEF AheadOf, AheadInEscape
  <2>2. o + 1 \in 2 .. Len(F)
    BY <1>0, <2>1
  <2> QED  BY <2>2 DEF Framed
<1>7. ~ReadSTX /\ Reading
  BY <1>2, <1>6 DEF ReadETX, ReadOther, Received
<1> HIDE DEF b
<1>8. ASSUME NEW x \in Byte, msg' = Append(msg, x)
      PROVE  pos' = pos + 1 /\ msg'[pos'] = x /\ pos' # 0
  BY <1>0, <1>8 DEF pos
<1>9. ASSUME AheadOf(s, o, j), j # DataLen + 2, ReadOther
      PROVE  msg' = Append(msg, b) /\ state' = "STARTED"
  <2>1. ~((IF pos = 0 THEN below ELSE msg[pos]) = ESC /\ lastesc # pos)
    BY <1>0, <1>9 DEF AheadOf
  <2> QED  BY <1>9, <2>1 DEF ReadOther, Received, b
<1>10. CASE AheadOf(s, o, j) /\ j # DataLen + 2 /\ Bare(F, p, s, j)
  <2>1. /\ s[j] = o + 1 /\ b = p[j] /\ s[j + 1] = o + 2 /\ p[j] \in Byte /\ s[j + 1] <= Len(F)
        /\ pos >= j - 1
    <3>1. s[j] \in Nat /\ o = s[j] - 1 /\ s[j + 1] = s[j] + 1 /\ F[s[j]] = p[j]
      BY <1>4, <1>10 DEF AheadOf, Bare
    <3>2. s[j] = o + 1
      BY <3>1
    <3>3. s[j + 1] = o + 2
      BY <3>1, <3>2
    <3> QED  BY <1>3, <1>4, <1>5, <1>10, <3>1, <3>2, <3>3 DEF b, AheadOf
  <2>2. o + 1 < Len(F) /\ o + 1 = s[j + 1] - 1
    BY <1>0, <1>4, <1>5, <1>10, <2>1
  <2>3. ASSUME msg' = Append(msg, b), state' = "STARTED"
        PROVE  Loose(F, p, s, o + 1)'
    <3>1. pos' = pos + 1 /\ msg'[pos'] = b /\ pos' >= (j + 1) - 1
      BY <1>0, <1>8, <2>1, <2>3
    <3>2. j + 1 # DataLen + 2 => msg'[pos'] # ESC
      BY <1>5, <1>10, <2>1, <3>1 DEF Bare
    <3>3. AheadOf(s, o + 1, j + 1)'
      BY <2>2, <3>1, <3>2 DEF AheadOf
    <3> QED  BY <1>5, <1>10, <3>3 DEF Loose
  <2>4. CASE ReadOther
    BY <1>9, <1>10, <2>2, <2>3, <2>4
  <2>5. CASE ReadETX
    BY <1>2, <2>2, <2>3, <2>5 DEF ReadETX
  <2> QED  BY <1>7, <2>4, <2>5
<1>11. CASE AheadOf(s, o, j) /\ j # DataLen + 2 /\ Hidden(F, p, s, j)
  <2>1. /\ s[j] = o + 1 /\ b = ESC /\ s[j + 1] = s[j] + 2 /\ s[j + 1] <= Len(F)
        /\ pos >= j - 1 /\ s[j] \in Nat
    <3>1. s[j] \in Nat /\ o = s[j] - 1
      BY <1>4, <1>11 DEF AheadOf
    <3>2. s[j] = o + 1
      BY <3>1
    <3> QED  BY <1>4, <1>5, <1>11, <3>1, <3>2 DEF b, AheadOf, Hidden
  <2>2. ReadOther
    BY <1>0, <1>2, <1>7, <2>1
  <2>3. msg' = Append(msg, ESC) /\ state' = "STARTED"
    BY <1>9, <1>11, <2>1, <2>2
  <2>4. pos' = pos + 1 /\ msg'[pos'] = ESC /\ pos' >= j
    BY <1>0, <1>8, <2>1, <2>3
  <2>5. AheadInEscape(F, p, s, o + 1, j)'
    BY <1>11, <2>1, <2>4 DEF AheadInEscape, Hidden
  <2>6. o + 1 < Len(F)
    BY <1>0, <1>4, <1>5, <1>11, <2>1
  <2> QED  BY <2>3, <2>5, <2>6 DEF Loose
<1>12. CASE AheadOf(s, o, j) /\ j = DataLen + 2
  <2>1. o + 1 = Len(F) /\ b = ETX /\ pos >= DataLen + 1
    <3>1. o + 1 = Len(F) /\ pos >= DataLen + 1
      BY <1>0, <1>4, <1>12 DEF AheadOf
    <3> QED  BY <3>1 DEF Framed, b
  <2>2. ReadETX
    BY <1>2, <1>7, <2>1
  <2>3. pos # DataLen
    BY <1>0, <2>1
  <2> QED  BY <2>2, <2>3 DEF ReadETX
<1>13. CASE AheadInEscape(F, p, s, o, j)
  <2>1. /\ j # DataLen + 2 /\ s[j] = o /\ pos >= j /\ s[j + 1] = o + 2 /\ msg[pos] = ESC
        /\ b \in Byte \ {STX, ESC, ETX} /\ s[j + 1] <= Len(F) /\ pos # 0
    BY <1>0, <1>4, <1>5, <1>13 DEF AheadInEscape, Hidden, b
  <2>2. o + 1 < Len(F) /\ o + 1 = s[j + 1] - 1
    BY <1>0, <2>1
  <2>3. ReadOther
    BY <1>2, <1>7, <2>1
  <2>4. CASE lastesc # pos
    <3>1. lastesc' = pos /\ msg' = [msg EXCEPT ![pos] = Flip(b)] /\ state' = "STARTED"
      BY <2>1, <2>3, <2>4 DEF ReadOther, Received, b
    <3>2. pos' = pos
      BY <1>0, <3>1 DEF pos
    <3>3. AheadOf(s, o + 1, j + 1)'
      <4>1. pos' >= (j + 1) - 1
        BY <1>0, <2>1, <3>2
      <4> QED  BY <2>2, <3>1, <3>2, <4>1 DEF AheadOf
    <3> QED  BY <1>5, <2>1, <2>2, <3>1, <3>3 DEF Loose
  <2>5. CASE lastesc = pos
    <3>1. msg' = Append(msg, b) /\ state' = "STARTED"
      BY <2>1, <2>3, <2>5 DEF ReadOther, Received, b
    <3>2. pos' = pos + 1 /\ msg'[pos'] = b /\ b # ESC
      BY <1>8, <2>1, <3>1
    <3>3. AheadOf(s, o + 1, j + 1)'
      <4>1. pos' >= (j + 1) - 1
        BY <1>0, <2>1, <3>2
      <4> QED  BY <2>2, <3>2, <4>1 DEF AheadOf
    <3> QED  BY <1>5, <2>1, <2>2, <3>1, <3>3 DEF Loose
  <2> QED  BY <2>4, <2>5
<1> QED  BY <1>1, <1>5, <1>10, <1>11, <1>12, <1>13

-----------------------------------------------------------------------------
(***************************************************************************)
(* What is left on the line: byte i of it is at place p[i] of all that was *)
(* ever sent, p[0] is the place that was read last, and what lies between  *)
(* two places is of frames that were hit.                                  *)
(***************************************************************************)
Left(at, F, p) ==
  /\ at[1] = 0
  /\ p \in [0 .. Len(wire) + 1 -> Nat] /\ p[Len(wire) + 1] = at[Len(sent) + 1] + 1
  /\ \A i \in 0 .. Len(wire) : p[i] < p[i + 1] /\ p[i] <= at[Len(sent) + 1]
  /\ \A i \in 1 .. Len(wire) : wire[i].frame \in 1 .. Len(sent)
  /\ \A f \in 1 .. Len(sent) : \A x \in 1 .. Len(F[f]) :
       /\ \A i \in 1 .. Len(wire) :
            p[i] = at[f] + x => wire[i] = [byte |-> F[f][x], frame |-> f]
       /\ \A i \in 0 .. Len(wire) :
            p[i] < at[f] + x /\ at[f] + x < p[i + 1] => f \in damaged

(***************************************************************************)
(* The reader, at place c: in a frame that nothing hit it is not behind,   *)
(* and if nothing hit the frame before it has what was sent.               *)
(***************************************************************************)
InSound(f, at, F, S, c) ==
  /\ c < at[f + 1] /\ state = "STARTED" => Loose(F[f], Packet(sent[f]), S[f], c - at[f])
  /\ c = at[f + 1] => state # "STARTED"
  /\ f - 1 \notin damaged =>
       /\ c < at[f + 1] => state = "STARTED" /\ Within(F[f], Packet(sent[f]), S[f], c - at[f])
       /\ c = at[f + 1] /\ state = "ENDED" => Complete(F[f], Packet(sent[f]), c - at[f])

Sound(at, F, S, c) ==
  /\ below # ESC
  /\ state = "NOTSTARTED" => msg = <<>> /\ lastesc = -1
  /\ c = 0 => state = "NOTSTARTED"
  /\ \A f \in 1 .. Len(sent) : f \notin damaged /\ at[f] < c => InSound(f, at, F, S, c)

(***************************************************************************)
(* from[i] is the frame of got[i], if that was accepted at the end of a    *)
(* frame that nothing hit: of such a frame, and whose predecessor nothing  *)
(* hit, there is one.                                                      *)
(***************************************************************************)
Paid(at, c, from) ==
  /\ from \in [1 .. Len(got) -> Nat]
  /\ damaged \subseteq 1 .. Len(sent)
  /\ \A f \in 1 .. Len(sent) :
       f \notin damaged /\ f - 1 \notin damaged /\ at[f + 1] <= c =>
         \/ at[f + 1] = c /\ state = "ENDED"
         \/ \E i \in 1 .. Len(got) : from[i] = f

Losing(at, F, S, p, from) ==
  /\ Sending(at, F, S) /\ Left(at, F, p)
  /\ Sound(at, F, S, p[0]) /\ Paid(at, p[0], from)

LossInv == \E at, F, S, p, from : Losing(at, F, S, p, from)

\* The frames follow each other.
LEMMA Rising ==
  ASSUME NEW n \in Nat, NEW a \in [1 .. n -> Nat], \A f \in 1 .. n - 1 : a[f] < a[f + 1]
  PROVE  \A f, g \in 1 .. n : f < g => a[f] < a[g]
<1> DEFINE T == { g \in Nat : g \in 1 .. n => \A f \in 1 .. n : f < g => a[f] < a[g] }
<1>1. 0 \in T
  OBVIOUS
<1>2. ASSUME NEW g \in T PROVE g + 1 \in T
  <2>1. g \in Nat
    OBVIOUS
  <2> SUFFICES ASSUME g + 1 \in 1 .. n, NEW f \in 1 .. n, f < g + 1 PROVE a[f] < a[g + 1]
    BY <2>1
  <2>2. f <= g /\ g \in 1 .. n - 1 /\ g \in 1 .. n
    BY <2>1
  <2>3. a[g] < a[g + 1] /\ a[g] \in Nat /\ a[g + 1] \in Nat /\ a[f] \in Nat
    BY <2>2
  <2>4. f = g \/ a[f] < a[g]
    BY <2>1, <2>2
  <2> QED  BY <2>3, <2>4
<1> HIDE DEF T
<1>3. \A g \in Nat : g \in T
  <2>1. T \in SUBSET Nat
    BY DEF T
  <2> QED  BY <1>1, <1>2, <2>1, AllNumbers
<1> QED  BY <1>3 DEF T

\* The place before a place of a frame that nothing hit is read before it.
LEMMA Neighbour ==
  ASSUME NEW at, NEW F, NEW S, NEW p, Sending(at, F, S), Left(at, F, p), TypeOK, Orderly,
         NEW f \in 1 .. Len(sent), f \notin damaged, NEW x \in 1 .. Len(F[f])
  PROVE  /\ p[0] < at[f] + x => p[1] <= at[f] + x
         /\ Len(wire) \in Nat /\ p[0] \in Nat /\ p[1] \in Nat /\ p[0] < p[1]
         /\ at[f] \in Nat /\ at[f + 1] \in Nat /\ Len(F[f]) \in Nat /\ Len(F[f]) >= 2
         /\ at[f + 1] = at[f] + Len(F[f])
<1>1. Len(wire) \in Nat /\ \A i \in 0 .. Len(wire) + 1 : p[i] \in Nat
  <2>1. p \in [0 .. Len(wire) + 1 -> Nat] /\ wire \in Seq([byte : Byte, frame : Nat])
    BY DEF Left, TypeOK
  <2> QED  BY <2>1
<1>2. /\ at[f + 1] = at[f] + Len(F[f]) /\ at[f] \in Nat
      /\ Len(F[f]) \in Nat /\ Len(F[f]) >= 2
  BY Layout
<1>3. at[f] + x \in Nat
  BY <1>2
<1>4. p[0] < at[f] + x => p[1] <= at[f] + x
  <2>1. 0 \in 0 .. Len(wire) /\ 1 \in 0 .. Len(wire) + 1 /\ 0 + 1 = 1
    BY <1>1
  <2>2. p[0] < at[f] + x => ~(at[f] + x < p[0 + 1])
    BY <2>1 DEF Left
  <2>3. p[1] \in Nat
    BY <1>1, <2>1
  <2> QED  BY <1>3, <2>1, <2>2, <2>3
<1>5. 0 \in 0 .. Len(wire) /\ 0 \in 0 .. Len(wire) + 1 /\ 1 \in 0 .. Len(wire) + 1
  BY <1>1
<1>6. p[0] \in Nat /\ p[1] \in Nat
  BY <1>1, <1>5
<1>7. p[0] < p[1]
  <2>1. p[0] < p[0 + 1]
    BY <1>5 DEF Left
  <2> QED  BY <2>1
<1>8. at[f + 1] \in Nat
  BY <1>2
<1> QED  BY <1>1, <1>2, <1>4, <1>6, <1>7, <1>8

\* What stands at the head of the line.
LEMMA HeadOfLine ==
  ASSUME TypeOK, NEW at, NEW F, NEW p, Left(at, F, p), wire # <<>>,
         NEW f \in 1 .. Len(sent), NEW x \in 1 .. Len(F[f]), p[1] = at[f] + x
  PROVE  Head(wire).byte = F[f][x] /\ Head(wire).frame = f
<1>1. 1 \in 1 .. Len(wire) /\ Head(wire) = wire[1]
  BY DEF TypeOK
<1>2. wire[1] = [byte |-> F[f][x], frame |-> f]
  BY <1>1 DEF Left
<1> QED  BY <1>1, <1>2

\* Nothing is sent yet.
LEMMA LossInit == Orderly /\ Init => LossInv
<1> SUFFICES ASSUME Orderly, Init PROVE LossInv
  OBVIOUS
<1> DEFINE at == [ f \in 1 .. 1 |-> 0 ]
           none == [ i \in 1 .. 0 |-> 0 ]
           p == [ i \in 0 .. 1 |-> i ]
<1>1. Len(sent) = 0 /\ Len(got) = 0 /\ Len(wire) = 0 /\ msg = <<>> /\ wire = <<>>
      /\ state = "NOTSTARTED" /\ lastesc = -1 /\ damaged = {} /\ below # ESC
  BY DEF Init, Orderly
<1>2. Sending(at, none, none)
  BY <1>1 DEF Sending
<1>3. Left(at, none, p)
  BY <1>1 DEF Left
<1>4. Sound(at, none, none, p[0])
  BY <1>1 DEF Sound
<1>5. Paid(at, p[0], none)
  BY <1>1 DEF Paid
<1> HIDE DEF at, none, p
<1> QED  BY <1>2, <1>3, <1>4, <1>5 DEF Losing, LossInv

\* Left, of the next state.
LEMMA LeftNext ==
  ASSUME NEW at, NEW F, NEW q, NEW n, NEW m, Len(wire') = n, Len(sent') = m, at[1] = 0,
         q \in [0 .. n + 1 -> Nat], q[n + 1] = at[m + 1] + 1,
         \A i \in 0 .. n : q[i] < q[i + 1] /\ q[i] <= at[m + 1],
         \A i \in 1 .. n : wire'[i].frame \in 1 .. m,
         \A f \in 1 .. m : \A x \in 1 .. Len(F[f]) :
           /\ \A i \in 1 .. n : q[i] = at[f] + x => wire'[i] = [byte |-> F[f][x], frame |-> f]
           /\ \A i \in 0 .. n : q[i] < at[f] + x /\ at[f] + x < q[i + 1] => f \in damaged'
  PROVE  Left(at, F, q)'
  BY DEF Left

\* A byte is read.
LEMMA LeftReads ==
  ASSUME TypeOK, NEW at, NEW F, NEW p, Left(at, F, p),
         wire # <<>>, wire' = Tail(wire), UNCHANGED <<sent, damaged>>
  PROVE  \E q : Left(at, F, q)' /\ q[0] = p[1]
<1> DEFINE n == Len(wire)
           m == Len(sent)
<1>1. /\ n \in Nat \ {0} /\ Len(wire') = n - 1
      /\ \A i \in 1 .. n - 1 : wire'[i] = wire[i + 1]
  BY DEF TypeOK
<1>2. /\ at[1] = 0
      /\ p \in [0 .. n + 1 -> Nat] /\ p[n + 1] = at[m + 1] + 1
      /\ \A i \in 0 .. n : p[i] < p[i + 1] /\ p[i] <= at[m + 1]
      /\ \A i \in 1 .. n : wire[i].frame \in 1 .. m
      /\ \A f \in 1 .. m : \A x \in 1 .. Len(F[f]) :
           /\ \A i \in 1 .. n : p[i] = at[f] + x => wire[i] = [byte |-> F[f][x], frame |-> f]
           /\ \A i \in 0 .. n : p[i] < at[f] + x /\ at[f] + x < p[i + 1] => f \in damaged
  BY DEF Left
<1> HIDE DEF n, m
<1>3. PICK q : q = [ i \in 0 .. n |-> p[i + 1] ]
  OBVIOUS
<1>4. /\ q \in [0 .. n -> Nat] /\ \A i \in 0 .. n : q[i] = p[i + 1]
      /\ q[0] = p[1] /\ q[n] = p[n + 1]
  <2>1. \A i \in 0 .. n : i + 1 \in 0 .. n + 1
    BY <1>1
  <2> QED  BY <1>1, <1>2, <1>3, <2>1
<1>5. \A i \in 0 .. n - 1 : /\ i + 1 \in 0 .. n /\ i \in 0 .. n
                            /\ q[i] = p[i + 1] /\ q[i + 1] = p[(i + 1) + 1]
  BY <1>1, <1>4
<1>6. \A i \in 1 .. n - 1 : /\ i + 1 \in 1 .. n /\ q[i] = p[i + 1] /\ wire'[i] = wire[i + 1]
  BY <1>1, <1>4
<1>7. Len(wire') = n - 1 /\ (n - 1) + 1 = n /\ Len(sent') = m /\ damaged' = damaged
  BY <1>1 DEF m
<1>8. /\ q \in [0 .. (n - 1) + 1 -> Nat] /\ q[(n - 1) + 1] = at[m + 1] + 1
      /\ \A i \in 0 .. n - 1 : q[i] < q[i + 1] /\ q[i] <= at[m + 1]
      /\ \A i \in 1 .. n - 1 : wire'[i].frame \in 1 .. m
  BY <1>2, <1>4, <1>5, <1>6, <1>7
<1>9. ASSUME NEW f \in 1 .. m, NEW x \in 1 .. Len(F[f])
      PROVE  /\ \A i \in 1 .. n - 1 :
                  q[i] = at[f] + x => wire'[i] = [byte |-> F[f][x], frame |-> f]
             /\ \A i \in 0 .. n - 1 : q[i] < at[f] + x /\ at[f] + x < q[i + 1] => f \in damaged
  <2>1. /\ \A i \in 1 .. n : p[i] = at[f] + x => wire[i] = [byte |-> F[f][x], frame |-> f]
        /\ \A i \in 0 .. n : p[i] < at[f] + x /\ at[f] + x < p[i + 1] => f \in damaged
    BY <1>2, Zenon
  <2> QED  BY ONLY <1>5, <1>6, <2>1, Zenon
<1>10. Left(at, F, q)'
  BY <1>2, <1>7, <1>8, <1>9 DEF Left
<1> QED  BY <1>4, <1>10

\* A sequence without one of its elements.
LEMMA Without ==
  ASSUME NEW R, NEW s \in Seq(R), NEW k \in 1 .. Len(s), NEW r,
         r = SubSeq(s, 1, k - 1) \o SubSeq(s, k + 1, Len(s))
  PROVE  /\ Len(r) = Len(s) - 1
         /\ \A i \in 1 .. k - 1 : r[i] = s[i]
         /\ \A i \in k .. Len(s) - 1 : r[i] = s[i + 1]
<1> DEFINE n == Len(s)
           a == SubSeq(s, 1, k - 1)
           b == SubSeq(s, k + 1, n)
<1>1. n \in Nat /\ k \in 1 .. n /\ k - 1 \in 0 .. n /\ k + 1 \in 1 .. n + 1
  OBVIOUS
<1>2. \A i \in 1 .. n + 1 : \A j \in 0 .. n :
        /\ SubSeq(s, i, j) \in Seq(R)
        /\ Len(SubSeq(s, i, j)) = IF i <= j THEN (j - i) + 1 ELSE 0
        /\ \A h \in 1 .. Len(SubSeq(s, i, j)) : SubSeq(s, i, j)[h] = s[(i + h) - 1]
  OBVIOUS
<1>3. 1 \in 1 .. n + 1 /\ n \in 0 .. n
  BY <1>1
<1>4. /\ a \in Seq(R) /\ Len(a) = k - 1
      /\ \A h \in 1 .. Len(a) : a[h] = s[(1 + h) - 1]
  <2>1. Len(a) = IF 1 <= k - 1 THEN ((k - 1) - 1) + 1 ELSE 0
    BY <1>1, <1>2, <1>3
  <2>2. Len(a) = k - 1
    BY <1>1, <2>1
  <2> QED  BY <1>1, <1>2, <1>3, <2>2
<1>5. /\ b \in Seq(R) /\ Len(b) = n - k
      /\ \A h \in 1 .. Len(b) : b[h] = s[((k + 1) + h) - 1]
  <2>1. Len(b) = IF k + 1 <= n THEN (n - (k + 1)) + 1 ELSE 0
    BY <1>1, <1>2, <1>3
  <2>2. Len(b) = n - k
    BY <1>1, <2>1
  <2> QED  BY <1>1, <1>2, <1>3, <2>2
<1> HIDE DEF a, b
<1>6. /\ Len(a \o b) = Len(a) + Len(b)
      /\ \A h \in 1 .. Len(a) : (a \o b)[h] = a[h]
      /\ \A h \in 1 .. Len(b) : (a \o b)[Len(a) + h] = b[h]
  <2>1. \A x, y \in Seq(R) :
          /\ Len(x \o y) = Len(x) + Len(y)
          /\ \A h \in 1 .. Len(x) : (x \o y)[h] = x[h]
          /\ \A h \in 1 .. Len(y) : (x \o y)[Len(x) + h] = y[h]
    OBVIOUS
  <2> QED  BY ONLY <1>4, <1>5, <2>1, Zenon
<1>7. r = a \o b
  BY DEF a, b
<1> HIDE DEF n
<1>8. Len(r) = n - 1
  <2>1. Len(r) = (k - 1) + (n - k)
    BY ONLY <1>4, <1>5, <1>6, <1>7
  <2>2. \A x, y \in Int : (x - 1) + (y - x) = y - 1
    OBVIOUS
  <2>3. k \in Int /\ n \in Int
    BY <1>1
  <2> QED  BY ONLY <2>1, <2>2, <2>3
<1>9. ASSUME NEW i \in 1 .. k - 1 PROVE r[i] = s[i]
  <2>1. i \in 1 .. Len(a) /\ (1 + i) - 1 = i
    BY <1>1, <1>4
  <2> QED  BY <1>4, <1>6, <1>7, <2>1
<1>10. ASSUME NEW i \in k .. n - 1 PROVE r[i] = s[i + 1]
  <2>1. PICK h : h = i - Len(a)
    OBVIOUS
  <2>2. h \in 1 .. Len(b) /\ Len(a) + h = i /\ ((k + 1) + h) - 1 = i + 1
    BY <1>1, <1>4, <1>5, <2>1
  <2>3. (a \o b)[Len(a) + h] = b[h] /\ b[h] = s[((k + 1) + h) - 1]
    BY ONLY <1>5, <1>6, <2>2, Zenon
  <2> QED  BY ONLY <1>7, <2>2, <2>3, Zenon
<1> QED  BY <1>8, <1>9, <1>10 DEF n

\* A byte is lost.
LEMMA LeftLoses ==
  ASSUME TypeOK, Orderly, NEW at, NEW F, NEW S, NEW p, Sending(at, F, S), Left(at, F, p),
         NEW k \in 1 .. Len(wire),
         wire' = SubSeq(wire, 1, k - 1) \o SubSeq(wire, k + 1, Len(wire)),
         damaged' = damaged \cup {wire[k].frame}, sent' = sent
  PROVE  (\E q : Left(at, F, q)' /\ q[0] = p[0]) /\ wire[k].frame \in 1 .. Len(sent)
<1> DEFINE n == Len(wire)
           m == Len(sent)
<1>0. \A f \in 1 .. m : \A x \in 1 .. Len(F[f]) : at[f] + x \in Nat
  <2> SUFFICES ASSUME NEW f \in 1 .. m, NEW x \in 1 .. Len(F[f]) PROVE at[f] + x \in Nat
    OBVIOUS
  <2>1. at[f] \in Nat /\ Len(F[f]) \in Nat
    BY Layout
  <2> QED  BY <2>1
<1>1. /\ n \in Nat /\ k \in 1 .. n /\ k \in Nat /\ Len(wire') = n - 1
      /\ \A i \in 1 .. k - 1 : wire'[i] = wire[i]
      /\ \A i \in k .. n - 1 : wire'[i] = wire[i + 1]
  <2>1. wire \in Seq([byte : Byte, frame : Nat])
    BY DEF TypeOK
  <2>2. n \in Nat /\ k \in Nat
    BY <2>1
  <2>3. PICK R, s, r : R = [byte : Byte, frame : Nat] /\ s = wire /\ r = wire'
    OBVIOUS
  <2>4. /\ s \in Seq(R) /\ k \in 1 .. Len(s)
        /\ r = SubSeq(s, 1, k - 1) \o SubSeq(s, k + 1, Len(s))
    BY <2>1, <2>3
  <2>5. /\ Len(r) = Len(s) - 1
        /\ \A i \in 1 .. k - 1 : r[i] = s[i]
        /\ \A i \in k .. Len(s) - 1 : r[i] = s[i + 1]
    BY ONLY <2>4, Without
  <2> QED  BY <2>2, <2>3, <2>5
<1>2. /\ at[1] = 0
      /\ p \in [0 .. n + 1 -> Nat] /\ p[n + 1] = at[m + 1] + 1
      /\ \A i \in 0 .. n : p[i] < p[i + 1] /\ p[i] <= at[m + 1]
      /\ \A i \in 1 .. n : wire[i].frame \in 1 .. m
      /\ \A f \in 1 .. m : \A x \in 1 .. Len(F[f]) :
           /\ \A i \in 1 .. n : p[i] = at[f] + x => wire[i] = [byte |-> F[f][x], frame |-> f]
           /\ \A i \in 0 .. n : p[i] < at[f] + x /\ at[f] + x < p[i + 1] => f \in damaged
  BY DEF Left
<1> HIDE DEF n, m
<1>3. PICK q : q = [ i \in 0 .. n |-> IF i < k THEN p[i] ELSE p[i + 1] ]
  OBVIOUS
<1>4. /\ \A i \in 0 .. n : i < k => q[i] = p[i]
      /\ \A i \in 0 .. n : ~(i < k) => q[i] = p[i + 1]
      /\ q[0] = p[0] /\ q[n] = p[n + 1]
  <2>1. 0 \in 0 .. n /\ n \in 0 .. n /\ 0 < k /\ ~(n < k)
    BY <1>1
  <2> QED  BY <1>3, <2>1
<1>5. q \in [0 .. n -> Nat]
  <2>1. \A i \in 0 .. n : i + 1 \in 0 .. n + 1 /\ i \in 0 .. n + 1
    BY <1>1
  <2>2. \A i \in 0 .. n : q[i] \in Nat
    BY <1>2, <1>4, <2>1
  <2> QED  BY <1>3, <2>2
<1>6. ASSUME NEW i \in 0 .. n - 1
      PROVE  \/ i + 1 < k /\ i \in 0 .. n /\ q[i] = p[i] /\ q[i + 1] = p[i + 1]
             \/ i + 1 = k /\ i \in 0 .. n /\ q[i] = p[i] /\ q[i + 1] = p[k + 1]
                /\ p[i] < p[k] /\ p[k] < p[k + 1]
             \/ k <= i /\ i + 1 \in 0 .. n /\ q[i] = p[i + 1] /\ q[i + 1] = p[(i + 1) + 1]
  <2>1. i + 1 \in 0 .. n /\ i \in 0 .. n /\ k \in 0 .. n
    BY <1>1
  <2>2. CASE i + 1 < k
    <3>1. i < k
      BY <1>1, <2>2
    <3> QED  BY <1>4, <2>1, <2>2, <3>1
  <2>3. CASE i + 1 = k
    <3>1. i < k /\ ~(i + 1 < k)
      BY <1>1, <2>3
    <3>2. p[i] < p[i + 1] /\ p[k] < p[k + 1]
      BY <1>2, <2>1
    <3> QED  BY <1>4, <2>1, <2>3, <3>1, <3>2
  <2>4. CASE k <= i
    <3>1. ~(i < k) /\ ~(i + 1 < k)
      BY <1>1, <2>4
    <3> QED  BY <1>4, <2>1, <2>4, <3>1
  <2> QED  BY <1>1, <2>2, <2>3, <2>4
<1>7. Len(wire') = n - 1 /\ (n - 1) + 1 = n /\ Len(sent') = m
      /\ damaged' = damaged \cup {wire[k].frame}
  <2>1. Len(wire') = n - 1 /\ (n - 1) + 1 = n
    <3>1. n \in Nat /\ Len(wire') = n - 1
      BY ONLY <1>1, Zenon
    <3> QED  BY ONLY <3>1
  <2>2. Len(sent') = m
    BY DEF m
  <2> QED  BY <2>1, <2>2
<1>8. \A i \in 0 .. n + 1 : p[i] \in Nat
  BY <1>2
<1>9. \A i \in 0 .. n - 1 : q[i] < q[i + 1] /\ q[i] <= at[m + 1]
  <2> SUFFICES ASSUME NEW i \in 0 .. n - 1 PROVE q[i] < q[i + 1] /\ q[i] <= at[m + 1]
    OBVIOUS
  <2>1. CASE q[i] = p[i] /\ q[i + 1] = p[i + 1] /\ i \in 0 .. n
    BY <1>2, <2>1
  <2>2. CASE i + 1 = k /\ i \in 0 .. n /\ q[i] = p[i] /\ q[i + 1] = p[k + 1]
                /\ p[i] < p[k] /\ p[k] < p[k + 1]
    <3>1. p[i] \in Nat /\ p[k] \in Nat /\ p[k + 1] \in Nat
      <4>1. i \in 0 .. n + 1 /\ k \in 0 .. n + 1 /\ k + 1 \in 0 .. n + 1
        BY <1>1
      <4> QED  BY <1>8, <4>1
    <3> QED  BY <1>2, <2>2, <3>1
  <2>3. CASE q[i] = p[i + 1] /\ q[i + 1] = p[(i + 1) + 1] /\ i + 1 \in 0 .. n
    BY <1>2, <2>3
  <2> QED  BY <1>6, <2>1, <2>2, <2>3
<1>10. \A i \in 1 .. n - 1 : wire'[i].frame \in 1 .. m
  <2>1. \A i \in 1 .. n - 1 : /\ i \in 1 .. n /\ i + 1 \in 1 .. n
                              /\ i \in 1 .. k - 1 \/ i \in k .. n - 1
    BY <1>1
  <2> QED  BY <1>1, <1>2, <2>1
<1>11. ASSUME NEW f \in 1 .. m, NEW x \in 1 .. Len(F[f]), NEW i \in 1 .. n - 1,
              q[i] = at[f] + x
       PROVE  wire'[i] = [byte |-> F[f][x], frame |-> f]
  <2>1. /\ i \in 1 .. n /\ i + 1 \in 1 .. n /\ i \in 0 .. n
        /\ \A j \in 1 .. n : p[j] = at[f] + x => wire[j] = [byte |-> F[f][x], frame |-> f]
    <3>1. n \in Nat
      BY ONLY <1>1, Zenon
    <3>2. i \in 1 .. n - 1
      OBVIOUS
    <3>3. i \in 1 .. n /\ i + 1 \in 1 .. n /\ i \in 0 .. n
      BY ONLY <3>1, <3>2
    <3>4. \A j \in 1 .. n : p[j] = at[f] + x => wire[j] = [byte |-> F[f][x], frame |-> f]
      BY <1>2, Zenon
    <3> QED  BY ONLY <3>3, <3>4, Zenon
  <2>2. CASE i < k
    <3>1. i \in 1 .. k - 1
      BY <1>1, <2>1, <2>2
    <3>2. wire'[i] = wire[i] /\ q[i] = p[i]
      BY <1>1, <1>4, <2>1, <2>2, <3>1
    <3> QED  BY <1>11, <2>1, <3>2
  <2>3. CASE ~(i < k)
    <3>1. i \in k .. n - 1
      BY <1>1, <2>1, <2>3
    <3>2. wire'[i] = wire[i + 1] /\ q[i] = p[i + 1]
      BY <1>1, <1>4, <2>1, <2>3, <3>1
    <3> QED  BY <1>11, <2>1, <3>2
  <2> QED  BY <2>2, <2>3
<1>12. ASSUME NEW f \in 1 .. m, NEW x \in 1 .. Len(F[f]), NEW i \in 0 .. n - 1,
              q[i] < at[f] + x, at[f] + x < q[i + 1], at[f] + x \in Nat
       PROVE  f \in damaged'
  <2>1. CASE q[i] = p[i] /\ q[i + 1] = p[i + 1] /\ i \in 0 .. n
    BY <1>2, <1>7, <1>12, <2>1
  <2>2. CASE i + 1 = k /\ i \in 0 .. n /\ q[i] = p[i] /\ q[i + 1] = p[k + 1]
    <3>1. k \in 0 .. n /\ p[k] \in Nat /\ k \in 1 .. n
      <4>1. k \in 0 .. n + 1 /\ k \in 0 .. n
        BY <1>1
      <4> QED  BY <1>1, <1>8, <4>1
    <3>2. CASE at[f] + x < p[k]
      <4>1. p[i] < at[f] + x /\ at[f] + x < p[i + 1]
        BY <1>12, <2>2, <3>2
      <4> QED  BY <1>2, <1>7, <2>2, <4>1
    <3>3. CASE at[f] + x = p[k]
      <4>1. wire[k] = [byte |-> F[f][x], frame |-> f]
        BY <1>2, <3>1, <3>3
      <4> QED  BY <1>7, <4>1
    <3>4. CASE p[k] < at[f] + x
      <4>1. at[f] + x < p[k + 1]
        BY <1>12, <2>2
      <4> QED  BY <1>2, <1>7, <3>1, <3>4, <4>1
    <3> QED  BY <1>12, <3>1, <3>2, <3>3, <3>4
  <2>3. CASE q[i] = p[i + 1] /\ q[i + 1] = p[(i + 1) + 1] /\ i + 1 \in 0 .. n
    BY <1>2, <1>7, <1>12, <2>3
  <2> QED  BY <1>6, <2>1, <2>2, <2>3
<1>13. /\ q \in [0 .. (n - 1) + 1 -> Nat] /\ q[(n - 1) + 1] = at[m + 1] + 1
       /\ \A i \in 0 .. n - 1 : q[i] < q[i + 1] /\ q[i] <= at[m + 1]
  BY <1>2, <1>4, <1>5, <1>7, <1>9
<1>14. ASSUME NEW f \in 1 .. m, NEW x \in 1 .. Len(F[f])
       PROVE  /\ \A i \in 1 .. n - 1 :
                   q[i] = at[f] + x => wire'[i] = [byte |-> F[f][x], frame |-> f]
              /\ \A i \in 0 .. n - 1 :
                   q[i] < at[f] + x /\ at[f] + x < q[i + 1] => f \in damaged'
  <2>1. at[f] + x \in Nat
    BY <1>0 DEF m
  <2> QED  BY <1>11, <1>12, <2>1
<1>15. Left(at, F, q)'
  BY <1>2, <1>7, <1>10, <1>13, <1>14, LeftNext
<1> QED  BY <1>1, <1>2, <1>4, <1>15 DEF m

\* Where the reader is depends on what it has, and on what was sent.
LEMMA Kept ==
  ASSUME NEW f, sent'[f] = sent[f], UNCHANGED <<msg, lastesc, below>>, NEW F, NEW s
  PROVE  /\ \A o : Loose(F, Packet(sent[f]), s, o) => Loose(F, Packet(sent[f]), s, o)'
         /\ \A o : Within(F, Packet(sent[f]), s, o) => Within(F, Packet(sent[f]), s, o)'
         /\ \A o : Complete(F, Packet(sent[f]), o) => Complete(F, Packet(sent[f]), o)'
<1>1. /\ \A o, j : AheadOf(s, o, j) => AheadOf(s, o, j)'
      /\ \A o, j : AheadInEscape(F, Packet(sent[f]), s, o, j) =>
                    AheadInEscape(F, Packet(sent[f]), s, o, j)'
      /\ \A o, j : AtByte(Packet(sent[f]), s, o, j) => AtByte(Packet(sent[f]), s, o, j)'
      /\ \A o, j : InEscape(F, Packet(sent[f]), s, o, j) =>
                    InEscape(F, Packet(sent[f]), s, o, j)'
  BY DEF AheadOf, AheadInEscape, AtByte, InEscape, Decoded, Hidden, Packet, pos
<1>2. \A o : Complete(F, Packet(sent[f]), o) => Complete(F, Packet(sent[f]), o)'
  BY DEF Complete, Decoded, Packet
<1> QED  BY <1>1, <1>2 DEF Loose, Within

\* What is sent stays as it is.
LEMMA LossLose ==
  ASSUME TypeOK, Orderly, LossInv, LoseByte
  PROVE  LossInv'
<1>1. PICK at, F, S, p, from : Losing(at, F, S, p, from)
  BY DEF LossInv
<1>2. PICK k \in 1 .. Len(wire) :
        /\ wire' = SubSeq(wire, 1, k - 1) \o SubSeq(wire, k + 1, Len(wire))
        /\ damaged' = damaged \cup {wire[k].frame}
  BY OnLine DEF LoseByte, TypeOK
<1>3. UNCHANGED <<state, msg, lastesc, below, sent, got>>
  BY DEF LoseByte, reader
<1>4. Sending(at, F, S) /\ Left(at, F, p) /\ Sound(at, F, S, p[0]) /\ Paid(at, p[0], from)
  BY <1>1 DEF Losing
<1>5. PICK q : Left(at, F, q)' /\ q[0] = p[0] /\ wire[k].frame \in 1 .. Len(sent)
  BY <1>2, <1>3, <1>4, LeftLoses
<1>6. Sending(at, F, S)'
  BY <1>3, <1>4 DEF Sending
<1>7. Sound(at, F, S, q[0])'
  <2>1. /\ below' # ESC
        /\ state' = "NOTSTARTED" => msg' = <<>> /\ lastesc' = -1
        /\ q[0] = 0 => state' = "NOTSTARTED"
    BY <1>3, <1>4, <1>5 DEF Sound
  <2>2. ASSUME NEW f \in 1 .. Len(sent), f \notin damaged', at[f] < q[0]
        PROVE  InSound(f, at, F, S, q[0])'
    <3>1. InSound(f, at, F, S, p[0])
      BY <1>2, <1>4, <1>5, <2>2 DEF Sound
    <3>2. /\ \A o : Loose(F[f], Packet(sent[f]), S[f], o) => Loose(F[f], Packet(sent[f]), S[f], o)'
          /\ \A o : Within(F[f], Packet(sent[f]), S[f], o) => Within(F[f], Packet(sent[f]), S[f], o)'
          /\ \A o : Complete(F[f], Packet(sent[f]), o) => Complete(F[f], Packet(sent[f]), o)'
      BY <1>3, Kept
    <3>3. f - 1 \notin damaged' => f - 1 \notin damaged
      BY <1>2
    <3> QED  BY <1>3, <1>5, <3>1, <3>2, <3>3 DEF InSound
  <2> QED  BY <1>3, <2>1, <2>2 DEF Sound
<1>8. Paid(at, q[0], from)'
  <2>1. damaged' \subseteq 1 .. Len(sent)
    BY <1>2, <1>4, <1>5 DEF Paid
  <2>2. ASSUME NEW f \in 1 .. Len(sent), f \notin damaged', f - 1 \notin damaged',
               at[f + 1] <= q[0]
        PROVE  \/ at[f + 1] = q[0] /\ state = "ENDED"
               \/ \E i \in 1 .. Len(got) : from[i] = f
    BY <1>2, <1>4, <1>5, <2>2 DEF Paid
  <2> QED  BY <1>3, <1>4, <2>1, <2>2 DEF Paid
<1> QED  BY <1>5, <1>6, <1>7, <1>8 DEF Losing, LossInv

\* What reading a byte does wherever the reader is.
LEMMA ReadsByte ==
  ASSUME TypeOK, below # ESC, ReadSTX \/ ReadETX \/ ReadOther
  PROVE  /\ wire # <<>> /\ wire' = Tail(wire) /\ state # "ENDED" /\ below' = below
         /\ UNCHANGED <<sent, damaged, got>>
         /\ Head(wire).byte = STX => state' = "STARTED" /\ msg' = <<>> /\ lastesc' = lastesc
         /\ Head(wire).byte # STX /\ state = "NOTSTARTED" =>
              state' = "NOTSTARTED" /\ msg' = msg /\ lastesc' = lastesc
         /\ state' = "NOTSTARTED" => state = "NOTSTARTED"
<1>1. CASE ReadSTX
  BY <1>1 DEF ReadSTX, Received, Reading
<1>2. CASE ReadETX
  BY <1>2 DEF ReadETX, Received, Reading, STX, ETX
<1>3. CASE ReadOther
  BY <1>3 DEF ReadOther, Received, Reading
<1> QED  BY <1>1, <1>2, <1>3

\* The first byte of a frame.
LEMMA StartByte ==
  ASSUME StreamAssumption, NEW F, NEW p, NEW s, Framed(F, p, s), msg' = <<>>
  PROVE  /\ Loose(F, p, s, 1)'
         /\ lastesc' <= 0 => Within(F, p, s, 1)'
<1>1. s[1] = 2 /\ DataLen \in Nat /\ 1 \in 1 .. DataLen + 2
  BY DEF Framed, StreamAssumption
<1>2. Len(msg') = 0 /\ pos' = 0
  BY DEF pos
<1>3. AheadOf(s, 1, 1)'
  BY <1>1, <1>2 DEF AheadOf
<1>4. lastesc' <= 0 => AtByte(p, s, 1, 1)'
  BY <1>1, <1>2 DEF AtByte, Decoded
<1> QED  BY <1>1, <1>3, <1>4 DEF Loose, Within

\* A byte of a frame that nothing hit.
LEMMA ReadsFrame ==
  ASSUME TypeOK, Orderly, NEW at, NEW F, NEW S, NEW p,
         Sending(at, F, S), Left(at, F, p), Sound(at, F, S, p[0]),
         ReadSTX \/ ReadETX \/ ReadOther,
         NEW f \in 1 .. Len(sent), f \notin damaged, at[f] < p[1]
  PROVE  InSound(f, at, F, S, p[1])'
<1>0. \A h \in 1 .. Len(sent) : /\ at[h + 1] = at[h] + Len(F[h]) /\ at[h] \in Nat
                                /\ Len(F[h]) \in Nat /\ Len(F[h]) >= 2
  <2>1. \E G : Sending(at, F, G)
    OBVIOUS
  <2> QED  BY ONLY <2>1, TypeOK, Orderly, Layout
<1> DEFINE c == p[0]
           d == p[1]
           l == Len(F[f])
           P == Packet(sent[f])
<1>1. /\ wire # <<>> /\ wire' = Tail(wire) /\ state # "ENDED" /\ below # ESC /\ below' = below
      /\ UNCHANGED <<sent, damaged, got>>
      /\ Head(wire).byte = STX => state' = "STARTED" /\ msg' = <<>> /\ lastesc' = lastesc
      /\ Head(wire).byte # STX /\ state = "NOTSTARTED" => state' = "NOTSTARTED"
  BY ReadsByte DEF Sound
<1>2. /\ at[f] \in Nat /\ at[f + 1] \in Nat /\ at[f + 1] = at[f] + l /\ l \in Nat /\ l >= 2
      /\ Framed(F[f], P, S[f]) /\ P \in Seq(Byte) /\ Len(P) = DataLen + 1
      /\ F[f][1] = STX /\ \A x \in 2 .. l : F[f][x] # STX
      /\ at[1] = 0 /\ 1 \in 1 .. l
  <2>1. l \in Nat /\ l >= 2 /\ at[f] \in Nat /\ at[f + 1] = at[f] + l
    BY Layout
  <2>2. at[f + 1] \in Nat /\ 1 \in 1 .. l
    BY <2>1
  <2> QED  BY <2>1, <2>2, Layout DEF Left
<1>3. ASSUME NEW x \in 1 .. l
      PROVE  /\ c < at[f] + x => d <= at[f] + x
             /\ d = at[f] + x => Head(wire).byte = F[f][x]
  <2>1. x \in 1 .. Len(F[f])
    OBVIOUS
  <2>2. p[0] < at[f] + x => p[1] <= at[f] + x
    BY <2>1, Neighbour
  <2>3. ASSUME p[1] = at[f] + x PROVE Head(wire).byte = F[f][x]
    <3> HIDE DEF c, d, l, P
    <3> QED  BY <1>1, <2>1, <2>3, HeadOfLine
  <2> QED  BY <1>1, <2>2, <2>3
<1>4. c \in Nat /\ d \in Nat /\ c < d
  BY <1>2, Neighbour
<1>5. sent'[f] = sent[f]
  BY <1>1
<1> HIDE DEF c, d, l
<1>6. CASE d > at[f + 1]
  <2>1. ~(d < at[f + 1]) /\ d # at[f + 1]
    BY <1>2, <1>4, <1>6
  <2> QED  BY <2>1 DEF InSound, d
<1>7. CASE d = at[f] + 1
  <2>1. Head(wire).byte = STX
    BY <1>2, <1>3, <1>7
  <2>2. state' = "STARTED" /\ msg' = <<>> /\ lastesc' = lastesc
    BY <1>1, <2>1
  <2>3. d < at[f + 1] /\ d - at[f] = 1
    BY <1>2, <1>7
  <2>4. Loose(F[f], P, S[f], 1)' /\ (lastesc' <= 0 => Within(F[f], P, S[f], 1)')
    <3>1. PICK G, q, s : G = F[f] /\ q = P /\ s = S[f]
      OBVIOUS
    <3>2. Loose(G, q, s, 1)' /\ (lastesc' <= 0 => Within(G, q, s, 1)')
      BY <1>2, <2>2, <3>1, StartByte, StreamAssumption
    <3>3. Packet(sent[f])' = q
      BY <1>5, <3>1
    <3> QED  BY <3>1, <3>2, <3>3
  <2>5. ASSUME f - 1 \notin damaged PROVE lastesc' <= 0
    <3>1. c <= at[f]
      BY <1>2, <1>4, <1>7
    <3>2. CASE f = 1
      <4>1. c = 0
        BY <1>2, <1>4, <3>1, <3>2
      <4> QED  BY <2>2, <4>1 DEF Sound, c
    <3>3. CASE f # 1
      <4> DEFINE g == f - 1
                 k == Len(F[g])
      <4>0. Len(sent) \in Nat /\ f \in 1 .. Len(sent)
        BY DEF TypeOK
      <4>1. g \in 1 .. Len(sent) /\ g + 1 = f /\ Len(sent) \in Nat
        BY ONLY <3>3, <4>0
      <4> HIDE DEF g
      <4>2. at[f] = at[g] + k /\ k \in Nat /\ k >= 2 /\ at[g] \in Nat
        <5>1. /\ at[g + 1] = at[g] + Len(F[g]) /\ at[g] \in Nat
              /\ Len(F[g]) \in Nat /\ Len(F[g]) >= 2
          BY ONLY <1>0, <4>1, Zenon
        <5> QED  BY ONLY <4>1, <5>1
      <4>3. k \in 1 .. k
        BY <4>2
      <4>4. g \notin damaged
        BY <2>5 DEF g
      <4>5. c < at[g] + k => d <= at[g] + k
        BY <4>1, <4>3, <4>4, Neighbour DEF c, d
      <4>6. c = at[f] /\ at[g] < c
        <5> HIDE DEF k
        <5>1. \A a, b, e, u, v \in Nat :
                b = a + e /\ e >= 2 /\ v = b + 1 /\ u <= b /\ (u < a + e => v <= a + e)
                  => u = b /\ a < u
          OBVIOUS
        <5>2. /\ at[g] \in Nat /\ at[f] \in Nat /\ k \in Nat /\ c \in Nat /\ d \in Nat
              /\ at[f] = at[g] + k /\ k >= 2 /\ d = at[f] + 1 /\ c <= at[f]
              /\ c < at[g] + k => d <= at[g] + k
          BY ONLY <1>2, <1>4, <1>7, <3>1, <4>2, <4>5, Zenon
        <5> QED  BY ONLY <5>1, <5>2, Zenon
      <4>7. state # "STARTED"
        BY <4>1, <4>4, <4>6 DEF Sound, InSound, c
      <4>8. lastesc = -1
        BY <1>1, <4>7 DEF Sound, TypeOK, States
      <4> QED  BY <2>2, <4>8
    <3> QED  BY <3>2, <3>3
  <2>6. /\ d < at[f + 1] /\ d # at[f + 1]
        /\ Loose(F[f], P, S[f], d - at[f])'
        /\ f - 1 \notin damaged => Within(F[f], P, S[f], d - at[f])'
    BY <1>2, <2>3, <2>4, <2>5
  <2> QED  BY <1>1, <2>2, <2>6 DEF InSound, d, P
<1>8. CASE d \in at[f] + 2 .. at[f + 1]
  <2> DEFINE o == c - at[f]
  <2>1. c = d - 1 /\ at[f] < c /\ c < at[f + 1] /\ o \in Nat /\ o < l /\ d - at[f] = o + 1
        /\ d = at[f] + (o + 1) /\ o + 1 \in 2 .. l /\ o + 1 \in 1 .. l
        /\ (o + 1 < l <=> d < at[f + 1]) /\ (o + 1 = l <=> d = at[f + 1])
    <3>1. (d - 1) - at[f] \in 1 .. l /\ at[f] + ((d - 1) - at[f]) = d - 1 /\ d - 1 \in Nat
      <4>2. /\ at[f] \in Nat /\ at[f + 1] \in Nat /\ l \in Nat /\ d \in Nat
            /\ at[f + 1] = at[f] + l /\ d \in at[f] + 2 .. at[f + 1]
        BY ONLY <1>2, <1>4, <1>8, Zenon
      <4>3. PICK a, e, k, v : a = at[f] /\ e = at[f + 1] /\ k = l /\ v = d
        OBVIOUS
      <4>4. /\ a \in Nat /\ e \in Nat /\ k \in Nat /\ v \in Nat
            /\ e = a + k /\ v \in a + 2 .. e
        BY ONLY <4>2, <4>3, Zenon
      <4>5. (v - 1) - a \in 1 .. k /\ a + ((v - 1) - a) = v - 1 /\ v - 1 \in Nat
        BY ONLY <4>4
      <4> QED  BY ONLY <4>3, <4>5
    <3>2. c < d - 1 => d <= d - 1
      BY <1>3, <3>1
    <3>3. c = d - 1
      BY <1>4, <3>1, <3>2
    <3>5. /\ at[f] \in Nat /\ l \in Nat /\ at[f + 1] \in Nat /\ c \in Nat /\ d \in Nat
          /\ at[f + 1] = at[f] + l /\ d \in at[f] + 2 .. at[f + 1]
      BY ONLY <1>2, <1>4, <1>8, Zenon
    <3>6. PICK a \in Nat, e \in Nat, u \in Nat, v \in Nat :
            a = at[f] /\ e = at[f + 1] /\ u = c /\ v = d
      BY ONLY <3>5
    <3>8. /\ a \in Nat /\ l \in Nat /\ e \in Nat /\ u \in Nat /\ v \in Nat
          /\ e = a + l /\ v \in a + 2 .. e /\ u = v - 1
      BY ONLY <3>3, <3>5, <3>6
    <3>9. /\ a < u /\ u < e /\ u - a \in Nat /\ u - a < l /\ v - a = (u - a) + 1
          /\ v = a + ((u - a) + 1) /\ (u - a) + 1 \in 2 .. l /\ (u - a) + 1 \in 1 .. l
          /\ ((u - a) + 1 < l <=> v < e) /\ ((u - a) + 1 = l <=> v = e)
      <4>1. v = u + 1 /\ a + 1 <= u /\ u + 1 <= a + l /\ u - a \in Nat
        BY ONLY <3>8
      <4>2. /\ a < u /\ u < e /\ u - a < l /\ v - a = (u - a) + 1 /\ v = a + ((u - a) + 1)
        BY ONLY <3>8, <4>1
      <4>3. (u - a) + 1 \in 2 .. l /\ (u - a) + 1 \in 1 .. l
        BY ONLY <3>8, <4>1
      <4>4. ((u - a) + 1 < l <=> v < e) /\ ((u - a) + 1 = l <=> v = e)
        BY ONLY <3>8, <4>1
      <4> QED  BY ONLY <4>1, <4>2, <4>3, <4>4, Zenon
    <3>7. /\ a < c /\ c < e /\ c - a \in Nat /\ c - a < l /\ d - a = (c - a) + 1
          /\ d = a + ((c - a) + 1) /\ (c - a) + 1 \in 2 .. l /\ (c - a) + 1 \in 1 .. l
          /\ ((c - a) + 1 < l <=> d < e) /\ ((c - a) + 1 = l <=> d = e)
      BY ONLY <3>6, <3>9
    <3> QED  BY <3>3, <3>6, <3>7
  <2>2. InSound(f, at, F, S, c)
    BY <2>1 DEF Sound, c
  <2>3. Head(wire).byte = F[f][o + 1]
    <3> HIDE DEF o
    <3>1. o + 1 \in 1 .. l /\ d = at[f] + (o + 1)
      BY <2>1
    <3> QED  BY ONLY <1>3, <3>1, Zenon
  <2> HIDE DEF o
  <2>4. Head(wire).byte = F[f][o + 1] /\ Head(wire).byte # STX
    BY <1>2, <2>1, <2>3
  <2>5. CASE state = "NOTSTARTED"
    <3>1. state' = "NOTSTARTED"
      BY <1>1, <2>4, <2>5
    <3>2. f - 1 \in damaged
      BY <2>1, <2>2, <2>5 DEF InSound
    <3> QED  BY <1>1, <3>1, <3>2 DEF InSound
  <2>6. CASE state = "STARTED"
    <3>1. Loose(F[f], P, S[f], o) /\ (f - 1 \notin damaged => Within(F[f], P, S[f], o))
      BY <2>1, <2>2, <2>6 DEF InSound, o
    <3>2. \/ state' = "ENDED"
          \/ state' = "STARTED" /\ o + 1 < l /\ Loose(F[f], P, S[f], o + 1)'
      BY <1>1, <1>2, <2>1, <2>4, <2>6, <3>1, LooseByte DEF l
    <3>3. ASSUME f - 1 \notin damaged
          PROVE  \/ state' = "STARTED" /\ Within(F[f], P, S[f], o + 1)'
                 \/ state' = "ENDED" /\ Complete(F[f], P, o + 1)' /\ o + 1 = l
      <4>1. \/ state' = "STARTED" /\ Within(F[f], P, S[f], o + 1)'
            \/ state' = "ENDED" /\ Complete(F[f], P, o + 1)'
        BY <1>1, <1>2, <2>1, <2>4, <2>6, <3>1, <3>3, FrameByte DEF l
      <4> QED  BY <4>1 DEF Complete, l
    <3>4. /\ d < at[f + 1] /\ state' = "STARTED" => Loose(F[f], P, S[f], d - at[f])'
          /\ d = at[f + 1] => state' # "STARTED"
          /\ f - 1 \notin damaged =>
               /\ d < at[f + 1] => state' = "STARTED" /\ Within(F[f], P, S[f], d - at[f])'
               /\ d = at[f + 1] /\ state' = "ENDED" => Complete(F[f], P, d - at[f])'
      BY <2>1, <3>2, <3>3
    <3> QED  BY <1>1, <3>4 DEF InSound, d, P
  <2> QED  BY <1>1, <2>5, <2>6 DEF TypeOK, States
<1>9. at[f] < d
  BY DEF d
<1>10. d > at[f + 1] \/ d = at[f] + 1 \/ d \in at[f] + 2 .. at[f + 1]
  <2>1. \A a, e, v \in Nat : a < v => v > e \/ v = a + 1 \/ v \in a + 2 .. e
    OBVIOUS
  <2>2. at[f] \in Nat /\ at[f + 1] \in Nat /\ d \in Nat
    BY ONLY <1>2, <1>4, Zenon
  <2> QED  BY ONLY <1>9, <2>1, <2>2, Zenon
<1> QED  BY ONLY <1>6, <1>7, <1>8, <1>10, Zenon

\* A byte is read.
LEMMA LossRead ==
  ASSUME TypeOK, Orderly, LossInv, ReadSTX \/ ReadETX \/ ReadOther
  PROVE  LossInv'
<1>1. PICK at, F, S, p, from : Losing(at, F, S, p, from)
  BY DEF LossInv
<1>2. Sending(at, F, S) /\ Left(at, F, p) /\ Sound(at, F, S, p[0]) /\ Paid(at, p[0], from)
  BY <1>1 DEF Losing
<1>3. /\ wire # <<>> /\ wire' = Tail(wire) /\ state # "ENDED" /\ below # ESC /\ below' = below
      /\ UNCHANGED <<sent, damaged, got>>
      /\ Head(wire).byte = STX => state' = "STARTED"
      /\ Head(wire).byte # STX /\ state = "NOTSTARTED" => msg' = msg /\ lastesc' = lastesc
      /\ state' = "NOTSTARTED" => state = "NOTSTARTED"
  BY <1>2, ReadsByte DEF Sound
<1>4. PICK q : Left(at, F, q)' /\ q[0] = p[1]
  BY <1>2, <1>3, LeftReads
<1>5. Sending(at, F, S)'
  BY <1>2, <1>3 DEF Sending
<1>6. p[0] \in Nat /\ p[1] \in Nat /\ p[0] < p[1]
  <2>1. p \in [0 .. Len(wire) + 1 -> Nat] /\ wire \in Seq([byte : Byte, frame : Nat])
    BY <1>2 DEF Left, TypeOK
  <2>2. 0 \in 0 .. Len(wire) + 1 /\ 1 \in 0 .. Len(wire) + 1 /\ 0 \in 0 .. Len(wire)
    BY <2>1
  <2>3. p[0] < p[0 + 1]
    BY <1>2, <2>2 DEF Left
  <2> QED  BY <2>1, <2>2, <2>3
<1>7. ASSUME NEW f \in 1 .. Len(sent), f \notin damaged, at[f] < p[1]
      PROVE  InSound(f, at, F, S, p[1])'
  BY <1>2, <1>7, ReadsFrame
<1>8. Sound(at, F, S, q[0])'
  <2>1. state' = "NOTSTARTED" => msg' = <<>> /\ lastesc' = -1
    BY <1>2, <1>3 DEF Sound
  <2>2. q[0] # 0
    BY <1>4, <1>6
  <2> QED  BY <1>3, <1>4, <1>7, <2>1, <2>2 DEF Sound
<1>9. Paid(at, q[0], from)'
  <2>1. ASSUME NEW f \in 1 .. Len(sent), f \notin damaged, f - 1 \notin damaged,
               at[f + 1] <= p[1]
        PROVE  \/ at[f + 1] = p[1] /\ state' = "ENDED"
               \/ \E i \in 1 .. Len(got) : from[i] = f
    <3> DEFINE x == Len(F[f])
    <3>1. /\ at[f + 1] = at[f] + x /\ x \in Nat /\ x >= 2 /\ at[f] \in Nat
      BY <1>2, Layout
    <3>2. x \in 1 .. x /\ at[f + 1] \in Nat
      BY <3>1
    <3>3. CASE at[f + 1] = p[1]
      <4>1. at[f] < p[1]
        BY <3>1, <3>3
      <4>2. InSound(f, at, F, S, p[1])'
        BY <1>7, <2>1, <4>1
      <4>3. state' # "STARTED"
        BY <3>3, <4>2 DEF InSound
      <4>4. state' # "NOTSTARTED"
        <5> SUFFICES ASSUME state' = "NOTSTARTED" PROVE FALSE
          OBVIOUS
        <5>1. state = "NOTSTARTED"
          BY <1>3
        <5>2. ~(p[0] < at[f + 1] - 1)
          <6>1. x - 1 \in 1 .. x /\ at[f] + (x - 1) = at[f + 1] - 1
            BY <3>1
          <6>2. p[0] < at[f + 1] - 1 => p[1] <= at[f + 1] - 1
            BY <1>2, <2>1, <6>1, Neighbour
          <6> QED  BY <3>2, <3>3, <6>2
        <5>3. at[f] < p[0] /\ p[0] < at[f + 1]
          BY <1>6, <3>1, <3>2, <3>3, <5>2
        <5> QED  BY <1>2, <2>1, <5>1, <5>3 DEF Sound, InSound
      <4>5. state' \in States
        BY ReadTyped DEF TypeOK
      <4> QED  BY <3>3, <4>3, <4>4, <4>5 DEF States
    <3>4. CASE at[f + 1] < p[1]
      <4>1. ~(p[0] < at[f + 1])
        <5>1. p[0] < at[f + 1] => p[1] <= at[f + 1]
          BY <1>2, <2>1, <3>1, <3>2, Neighbour
        <5> QED  BY <1>6, <3>2, <3>4, <5>1
      <4>2. at[f + 1] <= p[0]
        BY <1>6, <3>2, <4>1
      <4> QED  BY <1>2, <1>3, <2>1, <4>2 DEF Paid
    <3> QED  BY <1>6, <2>1, <3>2, <3>3, <3>4
  <2> QED  BY <1>2, <1>3, <1>4, <2>1 DEF Paid
<1> QED  BY <1>4, <1>5, <1>8, <1>9 DEF Losing, LossInv

\* readStream returns, and is called again: no frame that nothing hit is under
\* way, and if there is one at its end it is accepted.
LEMMA LossReturn ==
  ASSUME TypeOK, Orderly, NEW at, NEW F, NEW S, NEW p, NEW from, Losing(at, F, S, p, from),
         Return, damaged \subseteq damaged', damaged' \subseteq 1 .. Len(sent),
         \A f \in 1 .. Len(sent) :
           f \notin damaged' /\ f - 1 \notin damaged' /\ at[f] < p[0] => ~(p[0] < at[f + 1]),
         \A f \in 1 .. Len(sent) :
           f \notin damaged /\ f - 1 \notin damaged /\ at[f + 1] = p[0] /\ state = "ENDED" =>
             Accepted
  PROVE  LossInv'
<1> DEFINE m == Len(sent)
           n == Len(got)
           c == p[0]
<1>1. /\ wire' = wire /\ sent' = sent
      /\ state' = "NOTSTARTED" /\ msg' = <<>> /\ lastesc' = -1 /\ below' # ESC
      /\ ~Accepted => got' = got
      /\ Accepted => got' = Append(got, SubSeq(msg, 1, pos - 1))
  BY DEF Return, Orderly
<1>2. Sending(at, F, S) /\ Left(at, F, p) /\ Sound(at, F, S, c) /\ Paid(at, c, from)
  BY DEF Losing
<1>3. Sending(at, F, S)'
  BY <1>1, <1>2 DEF Sending
<1>4. Left(at, F, p)'
  BY <1>1, <1>2 DEF Left
<1>5. Sound(at, F, S, c)'
  <2>1. ASSUME NEW f \in 1 .. m, f \notin damaged', at[f] < c
        PROVE  InSound(f, at, F, S, c)'
    BY <1>1, <2>1 DEF InSound
  <2> QED  BY <1>1, <2>1 DEF Sound
<1>6. /\ from \in [1 .. n -> Nat] /\ n \in Nat /\ m \in Nat
      /\ \A f \in 1 .. m :
           f \notin damaged' /\ f - 1 \notin damaged' /\ at[f + 1] <= c =>
             \/ at[f + 1] = c /\ Accepted
             \/ \E i \in 1 .. n : from[i] = f
  <2>1. n \in Nat /\ m \in Nat
    BY DEF TypeOK
  <2> QED  BY <1>2, <2>1 DEF Paid
<1>7. CASE ~Accepted
  <2>1. Paid(at, c, from)'
    BY <1>1, <1>6, <1>7 DEF Paid
  <2> QED  BY <1>3, <1>4, <1>5, <2>1 DEF Losing, LossInv
<1>8. CASE Accepted
  <2>1. PICK g \in Nat : \A f \in 1 .. m : at[f + 1] = c => f = g
    <3>1. ASSUME NEW f \in 1 .. m, NEW h \in 1 .. m, at[f + 1] = at[h + 1] PROVE f = h
      <4>1. /\ at \in [1 .. m + 1 -> Nat] /\ m + 1 \in Nat
            /\ \A k \in 1 .. (m + 1) - 1 : at[k] < at[k + 1]
        <5>1. at \in [1 .. m + 1 -> Nat]
          BY <1>2 DEF Sending
        <5>2. \A k \in 1 .. m : at[k] < at[k + 1]
          <6> SUFFICES ASSUME NEW k \in 1 .. m PROVE at[k] < at[k + 1]
            OBVIOUS
          <6>1. at[k + 1] = at[k] + Len(F[k]) /\ at[k] \in Nat /\ Len(F[k]) \in Nat
                /\ Len(F[k]) >= 2
            BY <1>2, Layout
          <6> QED  BY <6>1
        <5>3. (m + 1) - 1 = m
          BY <1>6
        <5> QED  BY <1>6, <5>1, <5>2, <5>3
      <4> HIDE DEF m
      <4>2. \A i, j \in 1 .. m + 1 : i < j => at[i] < at[j]
        BY <4>1, Rising
      <4>3. f + 1 \in 1 .. m + 1 /\ h + 1 \in 1 .. m + 1
        BY <1>6
      <4>4. at[f + 1] \in Nat
        BY <4>1, <4>3
      <4>5. ~(f + 1 < h + 1) /\ ~(h + 1 < f + 1)
        BY <3>1, <4>2, <4>3, <4>4
      <4> QED  BY <1>6, <4>5
    <3>2. CASE \E f \in 1 .. m : at[f + 1] = c
      <4>1. PICK h \in 1 .. m : at[h + 1] = c
        BY <3>2
      <4>2. h \in Nat
        BY <1>6
      <4> QED  BY <3>1, <4>1, <4>2
    <3>3. CASE ~\E f \in 1 .. m : at[f + 1] = c
      <4>1. 0 \in Nat
        OBVIOUS
      <4> QED  BY <3>3, <4>1
    <3> QED  BY <3>2, <3>3
  <2>2. Len(got') = n + 1
    BY <1>1, <1>8 DEF TypeOK
  <2> HIDE DEF n, m
  <2>3. PICK now : now = [ i \in 1 .. n + 1 |-> IF i = n + 1 THEN g ELSE from[i] ]
    OBVIOUS
  <2>4. /\ n + 1 \in 1 .. n + 1 /\ now[n + 1] = g
        /\ \A i \in 1 .. n : i \in 1 .. n + 1 /\ now[i] = from[i]
    BY <1>6, <2>3
  <2>5. now \in [1 .. n + 1 -> Nat]
    <3>1. \A i \in 1 .. n + 1 : i = n + 1 \/ i \in 1 .. n
      BY <1>6
    <3>2. \A i \in 1 .. n + 1 : now[i] \in Nat
      BY <1>6, <2>1, <2>4, <3>1
    <3> QED  BY <2>3, <3>2
  <2>6. ASSUME NEW f \in 1 .. m, f \notin damaged', f - 1 \notin damaged', at[f + 1] <= c
        PROVE  \E i \in 1 .. n + 1 : now[i] = f
    BY <1>6, <2>1, <2>4, <2>6
  <2>7. Len(sent') = m
    BY <1>1 DEF m
  <2>8. Paid(at, c, now)'
    BY <2>2, <2>5, <2>6, <2>7 DEF Paid, m
  <2> QED  BY <1>3, <1>4, <1>5, <2>8 DEF Losing, LossInv
<1> QED  BY <1>7, <1>8

\* The end of a frame, or of what the buffer holds.
LEMMA LossEnd ==
  ASSUME TypeOK, Orderly, LossInv, EndOfFrame
  PROVE  LossInv'
<1>1. PICK at, F, S, p, from : Losing(at, F, S, p, from)
  BY DEF LossInv
<1>2. Sending(at, F, S) /\ Left(at, F, p) /\ Sound(at, F, S, p[0]) /\ Paid(at, p[0], from)
  BY <1>1 DEF Losing
<1>3. ~Reading /\ Return /\ damaged' = damaged /\ damaged \subseteq 1 .. Len(sent)
  BY <1>2 DEF EndOfFrame, Paid
<1>4. ASSUME NEW f \in 1 .. Len(sent), f \notin damaged, f - 1 \notin damaged,
             at[f] < p[0], p[0] < at[f + 1]
      PROVE  FALSE
  <2>1. state = "STARTED" /\ Within(F[f], Packet(sent[f]), S[f], p[0] - at[f])
    BY <1>2, <1>4 DEF Sound, InSound
  <2>2. Framed(F[f], Packet(sent[f]), S[f]) /\ Len(Packet(sent[f])) = DataLen + 1
    BY <1>2, Layout
  <2>3. Len(msg) <= DataLen + 1
    BY <2>1, <2>2, MidFrame, StreamAssumption
  <2>4. Len(msg) \in Nat
    BY DEF TypeOK
  <2> QED  BY <1>3, <2>1, <2>3, <2>4, StreamAssumption DEF Reading, pos
<1>5. ASSUME NEW f \in 1 .. Len(sent), f \notin damaged, f - 1 \notin damaged,
             at[f + 1] = p[0], state = "ENDED"
      PROVE  Accepted
  <2>1. /\ at[f + 1] = at[f] + Len(F[f]) /\ at[f] \in Nat /\ Len(F[f]) \in Nat
        /\ Len(F[f]) >= 2 /\ DataLen \in Nat
        /\ sent[f] \in Seq(Byte) /\ Len(sent[f]) = DataLen
        /\ \A i \in 1 .. DataLen : Packet(sent[f])[i] = sent[f][i]
        /\ Packet(sent[f])[DataLen + 1] = calcCrc(sent[f])
    BY <1>2, Layout
  <2>2. at[f] < p[0]
    BY <1>5, <2>1
  <2>3. Complete(F[f], Packet(sent[f]), p[0] - at[f])
    BY <1>2, <1>5, <2>2 DEF Sound, InSound
  <2>4. Len(msg) = DataLen + 1 /\ \A i \in 1 .. DataLen + 1 : msg[i] = Packet(sent[f])[i]
    BY <2>3 DEF Complete, Decoded
  <2>5. msg[DataLen + 1] = calcCrc(sent[f]) /\ \A i \in 1 .. DataLen : msg[i] = sent[f][i]
    <3>1. DataLen + 1 \in 1 .. DataLen + 1 /\ \A i \in 1 .. DataLen : i \in 1 .. DataLen + 1
      BY <2>1
    <3> QED  BY ONLY <2>1, <2>4, <3>1, Zenon
  <2>6. PICK data : data = sent[f]
    OBVIOUS
  <2>7. /\ data \in Seq(Byte) /\ Len(data) = DataLen /\ Len(msg) = DataLen + 1
        /\ \A i \in 1 .. DataLen : msg[i] = data[i]
        /\ msg[DataLen + 1] = calcCrc(data)
    BY ONLY <2>1, <2>4, <2>5, <2>6
  <2> QED  BY ONLY <2>7, TypeOK, Taken, StreamAssumption
<1> QED  BY <1>1, <1>3, <1>4, <1>5, LossReturn

\* A pause, which hits the frame that it comes in.
LEMMA LossPause ==
  ASSUME TypeOK, Orderly, LossInv, Timeout
  PROVE  LossInv'
<1>1. PICK at, F, S, p, from : Losing(at, F, S, p, from)
  BY DEF LossInv
<1>2. Sending(at, F, S) /\ Left(at, F, p) /\ Sound(at, F, S, p[0]) /\ Paid(at, p[0], from)
  BY <1>1 DEF Losing
<1>3. /\ Return /\ state # "ENDED"
      /\ wire = <<>> => damaged' = damaged
      /\ wire # <<>> => damaged' = IF Head(wire).byte = STX THEN damaged
                                   ELSE damaged \cup {Head(wire).frame}
  BY DEF Timeout, Reading
<1>4. damaged \subseteq damaged' /\ damaged' \subseteq 1 .. Len(sent)
  <2>1. damaged \subseteq 1 .. Len(sent)
    BY <1>2 DEF Paid
  <2>2. wire # <<>> => Head(wire).frame \in 1 .. Len(sent)
    <3>1. wire # <<>> => Head(wire) = wire[1] /\ 1 \in 1 .. Len(wire)
      BY DEF TypeOK
    <3> QED  BY <1>2, <3>1 DEF Left
  <2>3. CASE wire = <<>>
    BY <1>3, <2>1, <2>3
  <2>4. CASE wire # <<>>
    <3>1. damaged' = damaged \/ damaged' = damaged \cup {Head(wire).frame}
      BY <1>3, <2>4
    <3> QED  BY <2>1, <2>2, <2>4, <3>1
  <2> QED  BY <2>3, <2>4
<1>5. ASSUME NEW f \in 1 .. Len(sent), f \notin damaged', at[f] < p[0], p[0] < at[f + 1]
      PROVE  FALSE
  <2> DEFINE x == (p[0] + 1) - at[f]
             l == Len(F[f])
  <2>1. /\ at[f + 1] = at[f] + l /\ at[f] \in Nat /\ l \in Nat /\ at[f + 1] <= at[Len(sent) + 1]
        /\ at[Len(sent) + 1] \in Nat
        /\ \A y \in 2 .. l : F[f][y] # STX
    <3>1. Len(sent) \in Nat /\ f + 1 \in 1 .. Len(sent) + 1
          /\ Len(sent) + 1 \in 1 .. Len(sent) + 1
      BY DEF TypeOK
    <3> QED  BY <1>2, <3>1, Layout
  <2>2. p[0] \in Nat /\ p[1] \in Nat /\ p[0] < p[1] /\ 0 \in 0 .. Len(wire) /\ 0 + 1 = 1
    <3>1. p \in [0 .. Len(wire) + 1 -> Nat] /\ wire \in Seq([byte : Byte, frame : Nat])
      BY <1>2 DEF Left, TypeOK
    <3>2. 0 \in 0 .. Len(wire) + 1 /\ 1 \in 0 .. Len(wire) + 1 /\ 0 \in 0 .. Len(wire)
      BY <3>1
    <3>3. p[0] < p[0 + 1]
      BY <1>2, <3>2 DEF Left
    <3> QED  BY <3>1, <3>2, <3>3
  <2>3. x \in 1 .. l /\ x \in 2 .. l /\ at[f] + x = p[0] + 1
    <3>2. /\ at[f] \in Nat /\ at[f + 1] \in Nat /\ l \in Nat /\ p[0] \in Nat
          /\ at[f + 1] = at[f] + l /\ at[f] < p[0] /\ p[0] < at[f + 1]
      <4> HIDE DEF l
      <4> QED  BY <1>5, <2>1, <2>2
    <3> HIDE DEF l
    <3>3. PICK a, e, u : a = at[f] /\ e = at[f + 1] /\ u = p[0]
      OBVIOUS
    <3>4. /\ a \in Nat /\ e \in Nat /\ l \in Nat /\ u \in Nat
          /\ e = a + l /\ a < u /\ u < e
      BY ONLY <3>2, <3>3, Zenon
    <3>5. (u + 1) - a \in 1 .. l /\ (u + 1) - a \in 2 .. l /\ a + ((u + 1) - a) = u + 1
      BY ONLY <3>4
    <3> QED  BY ONLY <3>3, <3>5
  <2>4. f \notin damaged
    BY <1>4, <1>5
  <2> HIDE DEF x, l
  <2>5. x \in 1 .. Len(F[f]) /\ (p[0] < at[f] + x => p[1] <= at[f] + x)
    <3>1. x \in 1 .. Len(F[f])
      BY <2>3 DEF l
    <3> QED  BY <1>2, <2>4, <3>1, Neighbour
  <2>6. p[1] = p[0] + 1
    BY <2>2, <2>3, <2>5
  <2>7. CASE wire = <<>>
    <3>1. Len(wire) + 1 = 1
      BY <2>7
    <3>2. p[1] = at[Len(sent) + 1] + 1
      BY <1>2, <3>1 DEF Left
    <3>3. \A a, e, u, v \in Nat : ~(u < a /\ a <= e /\ v = u + 1 /\ v = e + 1)
      OBVIOUS
    <3>4. at[f + 1] \in Nat
      BY <2>1
    <3> QED  BY ONLY <1>5, <2>1, <2>2, <2>6, <3>2, <3>3, <3>4, Zenon
  <2>8. CASE wire # <<>>
    <3>1. Head(wire).byte = F[f][x] /\ Head(wire).frame = f
      <4>1. p[1] = at[f] + x
        BY ONLY <2>3, <2>6, Zenon
      <4> QED  BY <1>2, <2>5, <2>8, <4>1, HeadOfLine
    <3>2. Head(wire).byte # STX
      BY <2>1, <2>3, <3>1
    <3> QED  BY <1>3, <1>5, <2>8, <3>1, <3>2
  <2> QED  BY <2>7, <2>8
<1>6. /\ \A f \in 1 .. Len(sent) :
           f \notin damaged' /\ f - 1 \notin damaged' /\ at[f] < p[0] => ~(p[0] < at[f + 1])
      /\ \A f \in 1 .. Len(sent) :
           f \notin damaged /\ f - 1 \notin damaged /\ at[f + 1] = p[0] /\ state = "ENDED" =>
             Accepted
  BY <1>3, <1>5
<1> QED  BY <1>1, <1>3, <1>4, <1>6, LossReturn

\* A frame of l bytes more.
FrameAdded(at, F, at2, F2, l) ==
  /\ l \in Nat /\ l >= 2 /\ Len(sent') = Len(sent) + 1 /\ Len(wire') = Len(wire) + l
  /\ \A i \in 1 .. Len(wire) : wire'[i] = wire[i]
  /\ Len(F2[Len(sent) + 1]) = l
  /\ \A x \in 1 .. l : wire'[Len(wire) + x] =
                          [byte |-> F2[Len(sent) + 1][x], frame |-> Len(sent) + 1]
  /\ \A f \in 1 .. Len(sent) + 1 : at2[f] = at[f]
  /\ at2[Len(sent) + 2] = at[Len(sent) + 1] + l
  /\ \A f \in 1 .. Len(sent) : F2[f] = F[f]

\* A frame is added at the end of the line.
LEMMA LeftGrows ==
  ASSUME TypeOK, Orderly, NEW at, NEW F, NEW S, NEW p, Sending(at, F, S), Left(at, F, p),
         NEW at2, NEW F2, NEW l, FrameAdded(at, F, at2, F2, l), damaged' = damaged
  PROVE  \E q : Left(at2, F2, q)' /\ q[0] = p[0]
<1> DEFINE m == Len(sent)
           n == Len(wire)
           e == at[m + 1]
<1>0. /\ l \in Nat /\ l >= 2 /\ Len(sent') = Len(sent) + 1 /\ Len(wire') = Len(wire) + l
      /\ \A i \in 1 .. Len(wire) : wire'[i] = wire[i]
      /\ Len(F2[Len(sent) + 1]) = l
      /\ \A x \in 1 .. l : wire'[Len(wire) + x] =
                              [byte |-> F2[Len(sent) + 1][x], frame |-> Len(sent) + 1]
      /\ \A f \in 1 .. Len(sent) + 1 : at2[f] = at[f]
      /\ at2[Len(sent) + 2] = at[Len(sent) + 1] + l
      /\ \A f \in 1 .. Len(sent) : F2[f] = F[f]
  BY DEF FrameAdded
<1>1. /\ n \in Nat /\ m \in Nat /\ e \in Nat /\ l \in Nat /\ l >= 2
      /\ Len(wire') = n + l /\ Len(sent') = m + 1
      /\ \A i \in 1 .. n : wire'[i] = wire[i]
      /\ \A x \in 1 .. l : wire'[n + x] = [byte |-> F2[m + 1][x], frame |-> m + 1]
      /\ at2[m + 2] = e + l /\ at2[m + 1] = e /\ Len(F2[m + 1]) = l
      /\ at2[1] = at[1]
  <2>1. n \in Nat /\ m \in Nat
    BY DEF TypeOK
  <2>2. m + 1 \in 1 .. m + 1 /\ 1 \in 1 .. m + 1
    BY <2>1
  <2>3. e \in Nat
    BY <2>2, Layout
  <2> QED  BY <1>0, <2>1, <2>2, <2>3
<1>2. /\ at[1] = 0
      /\ p \in [0 .. n + 1 -> Nat] /\ p[n + 1] = e + 1
      /\ \A i \in 0 .. n : p[i] < p[i + 1] /\ p[i] <= e
      /\ \A i \in 1 .. n : wire[i].frame \in 1 .. m
      /\ \A f \in 1 .. m : \A x \in 1 .. Len(F[f]) :
           /\ \A i \in 1 .. n : p[i] = at[f] + x => wire[i] = [byte |-> F[f][x], frame |-> f]
           /\ \A i \in 0 .. n : p[i] < at[f] + x /\ at[f] + x < p[i + 1] => f \in damaged
  BY DEF Left
<1>3. \A f \in 1 .. m : \A x \in 1 .. Len(F[f]) :
        at[f] + x \in Nat /\ at[f] + x <= e /\ at2[f] = at[f] /\ F2[f] = F[f]
  <2> SUFFICES ASSUME NEW f \in 1 .. m, NEW x \in 1 .. Len(F[f])
               PROVE  at[f] + x \in Nat /\ at[f] + x <= e /\ at2[f] = at[f] /\ F2[f] = F[f]
    OBVIOUS
  <2>1. f \in 1 .. m + 1 /\ f + 1 \in 1 .. m + 1
    BY <1>1
  <2>2. at[f + 1] = at[f] + Len(F[f]) /\ at[f] \in Nat /\ Len(F[f]) \in Nat /\ at[f + 1] <= e
    BY <2>1, Layout
  <2>3. at2[f] = at[f] /\ F2[f] = F[f]
    BY <1>0, <2>1
  <2>4. x \in Nat /\ x <= Len(F[f])
    BY <2>2
  <2>5. e \in Nat
    BY <1>1
  <2> HIDE DEF e
  <2> QED  BY <2>2, <2>3, <2>4, <2>5
<1> HIDE DEF m, n, e
<1>4. PICK q : q = [ i \in 0 .. n + l + 1 |-> IF i <= n THEN p[i] ELSE e + (i - n) ]
  OBVIOUS
<1>5. /\ \A i \in 0 .. n : q[i] = p[i] /\ p[i] \in Nat
      /\ \A x \in 1 .. l + 1 : q[n + x] = e + x
      /\ q[n + 1] = p[n + 1]
  <2>1. \A i \in 0 .. n : q[i] = p[i]
    <3>1. \A i \in 0 .. n : i <= n /\ i \in 0 .. n + l + 1
      BY <1>1
    <3> QED  BY <1>4, <3>1
  <2>2. \A x \in 1 .. l + 1 : q[n + x] = e + x
    <3> SUFFICES ASSUME NEW x \in 1 .. l + 1 PROVE q[n + x] = e + x
      OBVIOUS
    <3>1. ~(n + x <= n) /\ n + x \in 0 .. n + l + 1 /\ (n + x) - n = x
      BY <1>1
    <3> QED  BY <1>4, <3>1
  <2>3. \A i \in 0 .. n : p[i] \in Nat
    <3>1. \A i \in 0 .. n : i \in 0 .. n + 1
      BY <1>1
    <3> QED  BY <1>2, <3>1
  <2>4. 1 \in 1 .. l + 1
    BY <1>1
  <2> QED  BY <1>2, <2>1, <2>2, <2>3, <2>4
\* A place is one of before, or one of the new frame.
<1>6. \A i \in 0 .. n + l : \/ i \in 0 .. n - 1 /\ i + 1 \in 0 .. n
                            \/ i = n
                            \/ \E x \in 1 .. l : i = n + x /\ i + 1 = n + (x + 1)
                                                 /\ x + 1 \in 1 .. l + 1
  <2> SUFFICES ASSUME NEW i \in 0 .. n + l, ~(i \in 0 .. n - 1), i # n
               PROVE  \E x \in 1 .. l : i = n + x /\ i + 1 = n + (x + 1) /\ x + 1 \in 1 .. l + 1
    BY <1>1
  <2>1. i - n \in 1 .. l /\ i = n + (i - n) /\ i + 1 = n + ((i - n) + 1)
        /\ (i - n) + 1 \in 1 .. l + 1
    BY <1>1
  <2> QED  BY <2>1
<1>7. q \in [0 .. n + l + 1 -> Nat]
  <2>1. \A i \in 0 .. n + l + 1 : (IF i <= n THEN p[i] ELSE e + (i - n)) \in Nat
    <3> SUFFICES ASSUME NEW i \in 0 .. n + l + 1
                 PROVE  (IF i <= n THEN p[i] ELSE e + (i - n)) \in Nat
      OBVIOUS
    <3>1. CASE i <= n
      <4>1. i \in 0 .. n
        BY <1>1, <3>1
      <4> QED  BY <1>5, <3>1, <4>1
    <3>2. CASE ~(i <= n)
      <4>1. i - n \in Nat
        BY <1>1, <3>2
      <4> QED  BY <1>1, <3>2, <4>1
    <3> QED  BY <3>1, <3>2
  <2> QED  BY <1>4, <2>1
<1>8. \A i \in 0 .. n + l : q[i] < q[i + 1] /\ q[i] <= e + l
  <2> SUFFICES ASSUME NEW i \in 0 .. n + l PROVE q[i] < q[i + 1] /\ q[i] <= e + l
    OBVIOUS
  <2>1. CASE i \in 0 .. n - 1 /\ i + 1 \in 0 .. n
    <3>1. i \in 0 .. n
      BY <1>1, <2>1
    <3>2. q[i] = p[i] /\ q[i + 1] = p[i + 1] /\ p[i] \in Nat
      BY <1>5, <2>1, <3>1
    <3>3. p[i] < p[i + 1] /\ p[i] <= e
      BY <1>2, <3>1
    <3> QED  BY <1>1, <3>2, <3>3
  <2>2. CASE i = n
    <3>1. n \in 0 .. n
      BY <1>1
    <3>2. q[n] = p[n] /\ q[n + 1] = p[n + 1] /\ p[n] \in Nat /\ p[n] < p[n + 1] /\ p[n] <= e
      BY <1>2, <1>5, <3>1
    <3> QED  BY <1>1, <2>2, <3>2
  <2>3. CASE \E x \in 1 .. l : i = n + x /\ i + 1 = n + (x + 1) /\ x + 1 \in 1 .. l + 1
    <3>1. PICK x \in 1 .. l : i = n + x /\ i + 1 = n + (x + 1) /\ x + 1 \in 1 .. l + 1
      BY <2>3
    <3>2. x \in 1 .. l + 1
      BY <1>1
    <3>3. q[i] = e + x /\ q[i + 1] = e + (x + 1)
      BY <1>5, <3>1, <3>2
    <3>4. \A a, b, y \in Nat : y <= b => a + y < a + (y + 1) /\ a + y <= a + b
      OBVIOUS
    <3>5. x \in Nat /\ x <= l /\ e \in Nat /\ l \in Nat
      BY <1>1
    <3>6. e + x < e + (x + 1) /\ e + x <= e + l
      BY ONLY <3>4, <3>5, Zenon
    <3> QED  BY ONLY <3>3, <3>6, Zenon
  <2> QED  BY <1>6, <2>1, <2>2, <2>3
<1>9. \A i \in 1 .. n + l : i \in 1 .. n \/ \E x \in 1 .. l : i = n + x
  <2> SUFFICES ASSUME NEW i \in 1 .. n + l, ~(i \in 1 .. n) PROVE \E x \in 1 .. l : i = n + x
    OBVIOUS
  <2>1. i - n \in 1 .. l /\ i = n + (i - n)
    BY <1>1
  <2> QED  BY <2>1
<1>10. \A i \in 1 .. n + l : wire'[i].frame \in 1 .. m + 1
  <2> SUFFICES ASSUME NEW i \in 1 .. n + l PROVE wire'[i].frame \in 1 .. m + 1
    OBVIOUS
  <2>1. CASE i \in 1 .. n
    <3>1. wire'[i].frame \in 1 .. m
      BY <1>1, <1>2, <2>1
    <3> QED  BY <1>1, <3>1
  <2>2. CASE \E x \in 1 .. l : i = n + x
    <3>1. PICK x \in 1 .. l : i = n + x
      BY <2>2
    <3>2. wire'[i] = [byte |-> F2[m + 1][x], frame |-> m + 1]
      BY <1>1, <3>1
    <3>3. m + 1 \in 1 .. m + 1
      BY <1>1
    <3> QED  BY <3>2, <3>3
  <2> QED  BY <1>9, <2>1, <2>2
\* The frames of before.
<1>11. ASSUME NEW f \in 1 .. m, NEW x \in 1 .. Len(F2[f])
       PROVE  /\ \A i \in 1 .. n + l :
                   q[i] = at2[f] + x => wire'[i] = [byte |-> F2[f][x], frame |-> f]
              /\ \A i \in 0 .. n + l :
                   q[i] < at2[f] + x /\ at2[f] + x < q[i + 1] => f \in damaged
  <2> DEFINE y == at[f] + x
  <2>1. F2[f] = F[f]
    BY <1>0 DEF m
  <2>2. y \in Nat /\ y <= e /\ at2[f] + x = y /\ x \in 1 .. Len(F[f])
    BY <1>3, <2>1
  <2>3. /\ \A i \in 1 .. n : p[i] = y => wire[i] = [byte |-> F[f][x], frame |-> f]
        /\ \A i \in 0 .. n : p[i] < y /\ y < p[i + 1] => f \in damaged
    BY <1>2, <2>2
  <2> HIDE DEF y
  <2>4. ASSUME NEW z \in 1 .. l PROVE ~(q[n + z] <= y)
    <3>1. z \in 1 .. l + 1
      BY <1>1
    <3>2. q[n + z] = e + z
      BY <1>5, <3>1
    <3>3. \A a, b, u \in Nat : b >= 1 /\ u <= a => ~(a + b <= u)
      OBVIOUS
    <3>4. z \in Nat /\ z >= 1 /\ e \in Nat /\ y \in Nat /\ y <= e
      BY <1>1, <2>2
    <3> QED  BY ONLY <3>2, <3>3, <3>4, Zenon
  <2>5. ASSUME NEW i \in 1 .. n + l, q[i] = y
        PROVE  wire'[i] = [byte |-> F2[f][x], frame |-> f]
    <3>1. i \in 1 .. n
      BY <1>9, <2>2, <2>4, <2>5
    <3>2. i \in 0 .. n
      BY <1>1, <3>1
    <3> QED  BY <1>1, <1>5, <2>1, <2>3, <2>5, <3>1, <3>2
  <2>6. ASSUME NEW i \in 0 .. n + l, q[i] < y, y < q[i + 1]
        PROVE  f \in damaged
    <3>1. CASE i \in 0 .. n - 1 /\ i + 1 \in 0 .. n
      <4>1. i \in 0 .. n
        BY <1>1, <3>1
      <4> QED  BY <1>5, <2>3, <2>6, <3>1, <4>1
    <3>2. CASE i = n
      <4>1. n \in 0 .. n
        BY <1>1
      <4> QED  BY <1>5, <2>3, <2>6, <3>2, <4>1
    <3>3. CASE \E z \in 1 .. l : i = n + z
      <4>1. PICK z \in 1 .. l : i = n + z
        BY <3>3
      <4>2. q[i] <= y
        <5>1. z \in 1 .. l + 1
          BY <1>1
        <5>2. q[i] = e + z
          BY <1>5, <4>1, <5>1
        <5> QED  BY <1>1, <2>2, <2>6, <5>2
      <4> QED  BY <2>4, <4>1, <4>2
    <3> QED  BY <1>6, <3>1, <3>2, <3>3
  <2> QED  BY <2>2, <2>5, <2>6
\* The new one.
<1>12. ASSUME NEW x \in 1 .. Len(F2[m + 1])
       PROVE  /\ \A i \in 1 .. n + l :
                   q[i] = e + x => wire'[i] = [byte |-> F2[m + 1][x], frame |-> m + 1]
              /\ \A i \in 0 .. n + l : ~(q[i] < e + x /\ e + x < q[i + 1])
  <2>1. x \in 1 .. l /\ x \in Nat /\ x >= 1
    BY <1>1
  <2>2. ASSUME NEW i \in 0 .. n PROVE q[i] < e + x
    <3>1. q[i] \in Nat /\ q[i] <= e
      BY <1>2, <1>5
    <3> QED  BY <1>1, <2>1, <3>1
  <2>3. ASSUME NEW i \in 1 .. n + l, q[i] = e + x
        PROVE  wire'[i] = [byte |-> F2[m + 1][x], frame |-> m + 1]
    <3>1. CASE i \in 1 .. n
      <4>1. i \in 0 .. n
        BY <1>1, <3>1
      <4>2. q[i] < e + x
        BY <2>2, <4>1
      <4> QED  BY <1>1, <2>1, <2>3, <4>2
    <3>2. CASE \E z \in 1 .. l : i = n + z
      <4>1. PICK z \in 1 .. l : i = n + z
        BY <3>2
      <4>2. z \in 1 .. l + 1
        BY <1>1
      <4>3. e + z = e + x
        BY <1>5, <2>3, <4>1, <4>2
      <4>4. z = x
        BY <1>1, <2>1, <4>3
      <4> QED  BY <1>1, <4>1, <4>4
    <3> QED  BY <1>9, <3>1, <3>2
  <2>4. ASSUME NEW i \in 0 .. n + l, q[i] < e + x, e + x < q[i + 1] PROVE FALSE
    <3>1. CASE i \in 0 .. n - 1 /\ i + 1 \in 0 .. n
      <4>1. q[i + 1] < e + x /\ q[i + 1] \in Nat
        BY <1>5, <2>2, <3>1
      <4> QED  BY <1>1, <2>1, <2>4, <4>1
    <3>2. CASE i = n
      <4>1. q[n + 1] = e + 1
        BY <1>2, <1>5
      <4> QED  BY <1>1, <2>1, <2>4, <3>2, <4>1
    <3>3. CASE \E z \in 1 .. l : i = n + z /\ i + 1 = n + (z + 1) /\ z + 1 \in 1 .. l + 1
      <4>1. PICK z \in 1 .. l : i = n + z /\ i + 1 = n + (z + 1) /\ z + 1 \in 1 .. l + 1
        BY <3>3
      <4>2. z \in 1 .. l + 1
        BY <1>1
      <4>3. e + z < e + x /\ e + x < e + (z + 1)
        BY <1>5, <2>4, <4>1, <4>2
      <4> QED  BY <1>1, <2>1, <4>3
    <3> QED  BY <1>6, <3>1, <3>2, <3>3
  <2> QED  BY <2>3, <2>4
<1>13. ASSUME NEW f \in 1 .. m + 1, NEW x \in 1 .. Len(F2[f])
       PROVE  /\ \A i \in 1 .. n + l :
                   q[i] = at2[f] + x => wire'[i] = [byte |-> F2[f][x], frame |-> f]
              /\ \A i \in 0 .. n + l :
                   q[i] < at2[f] + x /\ at2[f] + x < q[i + 1] => f \in damaged
  <2>1. CASE f \in 1 .. m
    BY <1>11, <2>1
  <2>2. CASE f = m + 1
    <3>1. at2[f] = e /\ F2[f] = F2[m + 1] /\ x \in 1 .. Len(F2[m + 1])
      BY <1>1, <2>2
    <3>2. /\ \A i \in 1 .. n + l :
               q[i] = e + x => wire'[i] = [byte |-> F2[m + 1][x], frame |-> m + 1]
          /\ \A i \in 0 .. n + l : ~(q[i] < e + x /\ e + x < q[i + 1])
      BY <1>12, <3>1
    <3>3. [byte |-> F2[f][x], frame |-> f] = [byte |-> F2[m + 1][x], frame |-> m + 1]
          /\ at2[f] + x = e + x
      BY ONLY <2>2, <3>1
    <3>4. PICK y, r : y = e + x /\ r = [byte |-> F2[m + 1][x], frame |-> m + 1]
      OBVIOUS
    <3>5. /\ \A i \in 1 .. n + l : q[i] = y => wire'[i] = r
          /\ \A i \in 0 .. n + l : ~(q[i] < y /\ y < q[i + 1])
      BY ONLY <3>2, <3>4, Zenon
    <3>6. at2[f] + x = y /\ [byte |-> F2[f][x], frame |-> f] = r
      BY ONLY <3>3, <3>4, Zenon
    <3> QED  BY ONLY <3>5, <3>6, Zenon
  <2>3. f \in 1 .. m \/ f = m + 1
    BY <1>1
  <2> QED  BY ONLY <2>1, <2>2, <2>3, Zenon
<1>14. q[n + l + 1] = (e + l) + 1 /\ q[0] = p[0]
  <2>1. l + 1 \in 1 .. l + 1 /\ n + (l + 1) = n + l + 1 /\ 0 \in 0 .. n
    BY <1>1
  <2>2. q[n + (l + 1)] = e + (l + 1)
    BY <1>5, <2>1
  <2> QED  BY <1>1, <1>5, <2>1, <2>2
<1>15. /\ Len(sent') = m + 1 /\ at2[1] = 0 /\ Len(wire') = n + l
       /\ (n + l) + 1 = n + l + 1 /\ at2[(m + 1) + 1] = e + l
  <2>1. (m + 1) + 1 = m + 2
    BY <1>1
  <2> QED  BY <1>1, <1>2, <2>1
<1>16. Left(at2, F2, q)'
  <2>1. PICK N, M : N = n + l /\ M = m + 1
    OBVIOUS
  <2>2. /\ Len(wire') = N /\ Len(sent') = M /\ at2[1] = 0 /\ damaged' = damaged
        /\ q \in [0 .. N + 1 -> Nat] /\ q[N + 1] = at2[M + 1] + 1
        /\ at2[M + 1] = e + l
    BY ONLY <1>7, <1>14, <1>15, <2>1, damaged' = damaged
  <2>3. \A i \in 0 .. N : q[i] < q[i + 1] /\ q[i] <= at2[M + 1]
    BY ONLY <1>8, <2>1, <2>2
  <2>4. \A i \in 1 .. N : wire'[i].frame \in 1 .. M
    BY ONLY <1>10, <2>1
  <2>5. \A f \in 1 .. M : \A x \in 1 .. Len(F2[f]) :
          /\ \A i \in 1 .. N :
               q[i] = at2[f] + x => wire'[i] = [byte |-> F2[f][x], frame |-> f]
          /\ \A i \in 0 .. N :
               q[i] < at2[f] + x /\ at2[f] + x < q[i + 1] => f \in damaged'
    BY <1>13, <2>1, <2>2, Zenon
  <2> QED  BY ONLY <2>2, <2>3, <2>4, <2>5, LeftNext
<1> QED  BY <1>14, <1>16

\* Nothing changes for the reader, and the new frame is yet to be read.
LEMMA LossSend ==
  ASSUME TypeOK, Orderly, LossInv, Send
  PROVE  LossInv'
<1>1. PICK at, F, S, p, from : Losing(at, F, S, p, from)
  BY DEF LossInv
<1>2. Sending(at, F, S) /\ Left(at, F, p) /\ Sound(at, F, S, p[0]) /\ Paid(at, p[0], from)
  BY <1>1 DEF Losing
<1>3. UNCHANGED <<state, msg, lastesc, below, damaged, got>>
  BY DEF Send, reader
<1> DEFINE m == Len(sent)
           c == p[0]
<1>4. PICK at2, F2, S2, G :
        /\ Sending(at2, F2, S2)'
        /\ Len(G) \in Nat /\ Len(G) >= 2
        /\ Len(sent') = m + 1
        /\ \A f \in 1 .. m : sent'[f] = sent[f]
        /\ Len(wire) \in Nat /\ Len(wire') = Len(wire) + Len(G)
        /\ \A i \in 1 .. Len(wire) : wire'[i] = wire[i]
        /\ \A x \in 1 .. Len(G) : wire'[Len(wire) + x] = [byte |-> G[x], frame |-> m + 1]
        /\ \A f \in 1 .. m + 1 : at2[f] = at[f]
        /\ at[m + 1] \in Nat
        /\ at2[m + 2] = at[m + 1] + Len(G)
        /\ at2[m + 2] \in Nat
        /\ \A f \in 1 .. m : F2[f] = F[f] /\ S2[f] = S[f]
        /\ F2[m + 1] = G
  <2>1. Sending(at, F, S)
    BY <1>2
  <2> QED  BY <2>1, Extended
<1>5. PICK q : Left(at2, F2, q)' /\ q[0] = c
  <2>1. Len(F2[m + 1]) = Len(G) /\ damaged' = damaged
    BY <1>3, <1>4
  <2>2. \A x \in 1 .. Len(G) :
          wire'[Len(wire) + x] = [byte |-> F2[m + 1][x], frame |-> m + 1]
    BY <1>4
  <2>3. FrameAdded(at, F, at2, F2, Len(G))
    BY ONLY <1>4, <2>1, <2>2, Zenon DEF FrameAdded
  <2> QED  BY <1>2, <2>1, <2>3, LeftGrows
<1>6. /\ m \in Nat /\ c \in Nat /\ c <= at[m + 1] /\ at2[m + 1] = at[m + 1]
      /\ (m + 1) + 1 = m + 2 /\ c < at2[m + 2]
      /\ \A f \in 1 .. m + 1 : f = m + 1 \/ f \in 1 .. m
      /\ \A f \in 1 .. m : f \in 1 .. m + 1 /\ f + 1 \in 1 .. m + 1
  <2>1. m \in Nat /\ p \in [0 .. Len(wire) + 1 -> Nat]
    BY <1>2 DEF Left, TypeOK
  <2>2. 0 \in 0 .. Len(wire) /\ 0 \in 0 .. Len(wire) + 1
    BY <1>4
  <2>3. c \in Nat /\ c <= at[m + 1]
    BY <1>2, <2>1, <2>2 DEF Left
  <2> HIDE DEF m, c
  <2>4. m + 1 \in 1 .. m + 1 /\ (m + 1) + 1 = m + 2
    BY <2>1
  <2>5. \A f \in 1 .. m + 1 : f = m + 1 \/ f \in 1 .. m
    BY ONLY <2>1
  <2>6. \A f \in 1 .. m : f \in 1 .. m + 1 /\ f + 1 \in 1 .. m + 1
    BY ONLY <2>1
  <2>7. at2[m + 1] = at[m + 1]
    BY <1>4, <2>4
  <2>8. c < at2[m + 2]
    <3>1. \A u, a, b, l \in Nat : u <= a /\ b = a + l /\ l >= 2 => u < b
      OBVIOUS
    <3> QED  BY ONLY <1>4, <2>3, <3>1, Zenon
  <2> QED  BY ONLY <2>1, <2>3, <2>4, <2>5, <2>6, <2>7, <2>8
<1> HIDE DEF m, c
<1>7. Sound(at2, F2, S2, c)'
  <2>1. /\ below' # ESC
        /\ state' = "NOTSTARTED" => msg' = <<>> /\ lastesc' = -1
        /\ c = 0 => state' = "NOTSTARTED"
    BY <1>2, <1>3 DEF Sound, c
  <2>2. ASSUME NEW f \in 1 .. m + 1, f \notin damaged, at2[f] < c
        PROVE  InSound(f, at2, F2, S2, c)'
    <3>1. f \in 1 .. m
      <4>1. f # m + 1
        <5>1. ~(at2[m + 1] < c)
          BY <1>4, <1>6
        <5> QED  BY <2>2, <5>1
      <4> QED  BY <1>6, <4>1
    <3>2. /\ at2[f] = at[f] /\ at2[f + 1] = at[f + 1] /\ F2[f] = F[f] /\ S2[f] = S[f]
          /\ sent'[f] = sent[f]
      BY <1>4, <1>6, <3>1
    <3>3. InSound(f, at, F, S, c)
      BY <1>2, <2>2, <3>1, <3>2 DEF Sound, c, m
    <3>4. ASSUME NEW o
          PROVE  /\ Loose(F[f], Packet(sent[f]), S[f], o) =>
                      Loose(F2[f], Packet(sent[f]), S2[f], o)'
                 /\ Within(F[f], Packet(sent[f]), S[f], o) =>
                      Within(F2[f], Packet(sent[f]), S2[f], o)'
                 /\ Complete(F[f], Packet(sent[f]), o) => Complete(F2[f], Packet(sent[f]), o)'
      BY <1>3, <3>2, Kept
    <3> QED  BY <1>3, <3>2, <3>3, <3>4 DEF InSound
  <2> QED  BY <1>3, <1>4, <2>1, <2>2 DEF Sound
<1>8. Paid(at2, c, from)'
  <2>1. damaged' \subseteq 1 .. m + 1
    <3>1. damaged \subseteq 1 .. m
      BY <1>2 DEF Paid, m
    <3> QED  BY <1>3, <1>6, <3>1
  <2>2. ASSUME NEW f \in 1 .. m + 1, f \notin damaged, f - 1 \notin damaged, at2[f + 1] <= c
        PROVE  \/ at2[f + 1] = c /\ state = "ENDED"
               \/ \E i \in 1 .. Len(got) : from[i] = f
    <3>1. CASE f = m + 1
      <4>1. at2[m + 2] <= c
        BY <1>6, <2>2, <3>1
      <4> QED  BY <1>4, <1>6, <4>1
    <3>2. CASE f \in 1 .. m
      <4>1. at2[f + 1] = at[f + 1]
        BY <1>4, <1>6, <3>2
      <4> QED  BY <1>2, <2>2, <3>2, <4>1 DEF Paid, c, m
    <3> QED  BY <1>6, <3>1, <3>2
  <2>3. from \in [1 .. Len(got) -> Nat]
    BY <1>2 DEF Paid
  <2> QED  BY <1>3, <1>4, <2>1, <2>2, <2>3 DEF Paid
<1> QED  BY <1>4, <1>5, <1>7, <1>8 DEF Losing, LossInv

\* Whatever happens, the reader is where LossInv says.
LEMMA LossAlways == ASSUME Orderly PROVE Spec => []LossInv
<1>1. Init => LossInv
  BY LossInit
<1>2. TypeOK /\ LossInv /\ [Next]_vars => LossInv'
  <2> SUFFICES ASSUME TypeOK, LossInv, [Next]_vars PROVE LossInv'
    OBVIOUS
  <2>1. CASE UNCHANGED vars
    <3>1. UNCHANGED <<wire, state, msg, lastesc, below, sent, damaged, got>>
      BY <2>1 DEF vars, reader
    <3>2. PICK at, F, S, p, from : Losing(at, F, S, p, from)
      BY DEF LossInv
    <3>3. Sending(at, F, S)' /\ Left(at, F, p)' /\ Paid(at, p[0], from)'
      BY <3>1, <3>2 DEF Losing, Sending, Left, Paid
    <3>4. ASSUME NEW f \in 1 .. Len(sent), InSound(f, at, F, S, p[0])
          PROVE  InSound(f, at, F, S, p[0])'
      <4>1. sent'[f] = sent[f]
        BY <3>1
      <4>2. \A o : /\ Loose(F[f], Packet(sent[f]), S[f], o) =>
                        Loose(F[f], Packet(sent[f]), S[f], o)'
                   /\ Within(F[f], Packet(sent[f]), S[f], o) =>
                        Within(F[f], Packet(sent[f]), S[f], o)'
                   /\ Complete(F[f], Packet(sent[f]), o) =>
                        Complete(F[f], Packet(sent[f]), o)'
        BY <3>1, <4>1, Kept
      <4> QED  BY <3>1, <3>4, <4>2 DEF InSound
    <3>5. Sound(at, F, S, p[0])'
      BY <3>1, <3>2, <3>4 DEF Losing, Sound
    <3> QED  BY <3>3, <3>5 DEF Losing, LossInv
  <2> QED  BY <2>1, LossSend, LossLose, LossRead, LossEnd, LossPause DEF Next
<1> QED  BY <1>1, <1>2, Typing, PTL DEF Spec

\* The union of two finite sets has at most as many elements as both.
LEMMA Together ==
  ASSUME NEW A, NEW B, IsFiniteSet(A), IsFiniteSet(B)
  PROVE  /\ IsFiniteSet(A \cup B) /\ Cardinality(A) \in Nat /\ Cardinality(B) \in Nat
         /\ Cardinality(A \cup B) \in Nat
         /\ Cardinality(A \cup B) <= Cardinality(A) + Cardinality(B)
<1>1. /\ IsFiniteSet(A \cup B)
      /\ Cardinality(A \cup B) =
           Cardinality(A) + Cardinality(B) - Cardinality(A \cap B)
  BY FS_Union
<1>2. IsFiniteSet(A \cap B)
  <2>1. A \cap B \in SUBSET A
    OBVIOUS
  <2> QED  BY <2>1, FS_Subset
<1>3. /\ Cardinality(A) \in Nat /\ Cardinality(B) \in Nat
      /\ Cardinality(A \cap B) \in Nat /\ Cardinality(A \cup B) \in Nat
  BY <1>1, <1>2, FS_CardinalityType
<1>4. \A x, y, z, u \in Nat : u = x + y - z => u <= x + y
  OBVIOUS
<1> QED  BY <1>1, <1>3, <1>4

\* A function has no more values than arguments.
LEMMA OfEach ==
  ASSUME NEW A, IsFiniteSet(A), NEW h, NEW T, T = { h[a] : a \in A }, DOMAIN h = A,
         h = [ a \in A |-> h[a] ]
  PROVE  IsFiniteSet(T) /\ Cardinality(T) <= Cardinality(A)
<1>1. h \in [A -> T] /\ \A t \in T : \E a \in A : h[a] = t
  OBVIOUS
<1>2. h \in Surjection(A, T)
  BY <1>1 DEF Surjection
<1> QED  BY <1>2, FS_Surjection

\* All of 1 .. m are in g, in D, or follow one in D.
LEMMA TwiceEach ==
  ASSUME NEW m \in Nat, NEW n \in Nat, NEW g \in [1 .. n -> Nat], NEW D \in SUBSET (1 .. m),
         \A f \in 1 .. m : f \in D \/ f - 1 \in D \/ \E i \in 1 .. n : g[i] = f
  PROVE  n >= m - 2 * Cardinality(D)
<1>1. \A z \in Nat : IsFiniteSet(1 .. z) /\ Cardinality(1 .. z) = z
  <2> SUFFICES ASSUME NEW z \in Nat PROVE IsFiniteSet(1 .. z) /\ Cardinality(1 .. z) = z
    OBVIOUS
  <2>1. 1 \in Int /\ z \in Int /\ (1 > z => z = 0) /\ (~(1 > z) => z - 1 + 1 = z)
    OBVIOUS
  <2> QED  BY <2>1, FS_Interval
<1>2. PICK T : T = { g[i] : i \in 1 .. n }
  OBVIOUS
<1>3. IsFiniteSet(T) /\ Cardinality(T) <= n
  <2>1. PICK A : A = 1 .. n
    OBVIOUS
  <2>2. IsFiniteSet(A) /\ Cardinality(A) = n
    BY <1>1, <2>1
  <2>3. g = [ a \in A |-> g[a] ] /\ T = { g[a] : a \in A }
    BY <1>2, <2>1
  <2> QED  BY <2>2, <2>3, OfEach
<1>4. IsFiniteSet(D)
  BY <1>1, FS_Subset
<1>5. PICK h : h = [ d \in D |-> d + 1 ]
  OBVIOUS
<1>6. PICK N : N = { h[d] : d \in D }
  OBVIOUS
<1>7. IsFiniteSet(N) /\ Cardinality(N) <= Cardinality(D)
  BY <1>4, <1>5, <1>6, OfEach
<1>8. 1 .. m \subseteq (T \cup D) \cup N
  <2> SUFFICES ASSUME NEW f \in 1 .. m, f \notin D, f \notin T PROVE f \in N
    OBVIOUS
  <2>1. f - 1 \in D /\ (f - 1) + 1 = f
    BY <1>2
  <2>2. h[f - 1] = (f - 1) + 1
    BY <1>5, <2>1
  <2> QED  BY <1>6, <2>1, <2>2
<1>9. /\ IsFiniteSet(T \cup D) /\ Cardinality(T) \in Nat /\ Cardinality(D) \in Nat
      /\ Cardinality(T \cup D) \in Nat
      /\ Cardinality(T \cup D) <= Cardinality(T) + Cardinality(D)
  BY <1>3, <1>4, Together
<1>10. /\ IsFiniteSet((T \cup D) \cup N) /\ Cardinality(N) \in Nat
       /\ Cardinality((T \cup D) \cup N) \in Nat
       /\ Cardinality((T \cup D) \cup N) <= Cardinality(T \cup D) + Cardinality(N)
  BY <1>7, <1>9, Together
<1>11. m <= Cardinality((T \cup D) \cup N)
  <2>1. PICK U, V : U = (T \cup D) \cup N /\ V = 1 .. m
    OBVIOUS
  <2>2. V \in SUBSET U /\ IsFiniteSet(U)
    BY <1>8, <1>10, <2>1
  <2>3. Cardinality(V) <= Cardinality(U)
    BY <2>2, FS_Subset
  <2> QED  BY <1>1, <2>1, <2>3
<1>12. \A t, d, a, u, w \in Nat :
         t <= n /\ a <= t + d /\ w <= d /\ u <= a + w /\ m <= u => n >= m - 2 * d
  OBVIOUS
<1> QED  BY <1>3, <1>7, <1>9, <1>10, <1>11, <1>12

(***************************************************************************)
(* What is lost, and every pause, costs the frame that it hits and at most *)
(* the one after it, whatever is lost of the line.                         *)
(***************************************************************************)
THEOREM Harm == ASSUME Orderly PROVE Spec => []HarmIsLocal
<1>1. TypeOK /\ LossInv => HarmIsLocal
  <2> SUFFICES ASSUME TypeOK, LossInv, wire = <<>>, state = "NOTSTARTED"
               PROVE  Len(got) >= Len(sent) - 2 * Cardinality(damaged)
    BY DEF HarmIsLocal
  <2>1. PICK at, F, S, p, from : Losing(at, F, S, p, from)
    BY DEF LossInv
  <2>2. Sending(at, F, S) /\ Left(at, F, p) /\ Paid(at, p[0], from)
    BY <2>1 DEF Losing
  <2>3. Len(sent) \in Nat /\ Len(got) \in Nat
    BY DEF TypeOK
  <2>4. ASSUME NEW f \in 1 .. Len(sent), f \notin damaged, f - 1 \notin damaged
        PROVE  \E i \in 1 .. Len(got) : from[i] = f
    <3> DEFINE l == Len(F[f])
    <3>1. /\ at[f + 1] = at[f] + l /\ at[f] \in Nat /\ l \in Nat /\ l >= 2
          /\ at[f + 1] <= at[Len(sent) + 1] /\ at[Len(sent) + 1] \in Nat
      <4>1. f + 1 \in 1 .. Len(sent) + 1 /\ Len(sent) + 1 \in 1 .. Len(sent) + 1
        BY <2>3
      <4> QED  BY <2>2, <4>1, Layout
    <3>2. l \in 1 .. l /\ at[f + 1] \in Nat
      BY <3>1
    <3>3. p[1] = at[Len(sent) + 1] + 1
      <4>1. Len(wire) + 1 = 1
        OBVIOUS
      <4> QED  BY <2>2, <4>1 DEF Left
    <3>4. p[0] < at[f + 1] => p[1] <= at[f + 1]
      BY <2>2, <2>4, <3>1, <3>2, Neighbour
    <3>5. p[0] \in Nat
      BY <2>2, <2>4, <3>2, Neighbour
    <3>6. at[f + 1] <= p[0]
      BY <3>1, <3>2, <3>3, <3>4, <3>5
    <3> QED  BY <2>2, <2>4, <3>6 DEF Paid
  <2>5. from \in [1 .. Len(got) -> Nat] /\ damaged \subseteq 1 .. Len(sent)
    BY <2>2 DEF Paid
  <2> QED  BY <2>3, <2>4, <2>5, TwiceEach
<1> QED  BY <1>1, LossAlways, Typing, PTL

=============================================================================
