----------------------------- MODULE Recursions -----------------------------
(***************************************************************************)
(* Induction over numbers and over the depth of a tree, and the existence   *)
(* of what a recursive function defines: what the proofs about traversals   *)
(* and about sequences built element by element rest on.                    *)
(***************************************************************************)
EXTENDS SequencesExt, TLAPS, SequenceTheorems, WellFoundedInduction

LEMMA Least ==
    ASSUME NEW T, T \subseteq Nat, T # {}
    PROVE  \E n \in T : \A m \in T : n <= m
<1> DEFINE R == OpToRel(<, Nat)
<1>1. \A x \in Nat, y \in Nat : <<y, x>> \in R <=> y < x
  BY DEF OpToRel
<1>2. PICK x \in T : \A y \in T : ~ (<<y, x>> \in R)
  BY NatLessThanWellFounded, WFMin
<1> HIDE DEF R
<1>3. ASSUME NEW m \in T, m < x PROVE FALSE
  <2>1. m \in Nat /\ x \in Nat
    OBVIOUS
  <2>2. <<m, x>> \in R
    BY <1>1, <1>3, <2>1
  <2> QED
    BY <1>2, <2>2
<1>4. x \in Nat /\ T \subseteq Nat
  OBVIOUS
<1> QED
  BY <1>3, <1>4

LEMMA NumbersFromZero ==
    ASSUME NEW T, 0 \in T, \A n \in T \cap Nat : n + 1 \in T
    PROVE  Nat \subseteq T
<1> DEFINE U == Nat \ T
<1>1. SUFFICES ASSUME U # {} PROVE FALSE
  OBVIOUS
<1>2. PICK n \in U : \A m \in U : n <= m
  BY <1>1, Least
<1>3. n # 0
  OBVIOUS
<1>4. n - 1 \in Nat /\ n - 1 \notin U
  BY <1>2, <1>3
<1> QED
  BY <1>4

LEMMA Greatest ==
    ASSUME NEW N \in Nat, NEW T, T \subseteq 1 .. N, T # {}
    PROVE  Max(T) \in T /\ \A m \in T : m <= Max(T)
<1>1. \E x \in T : \A y \in T : x >= y
  <2> DEFINE Bounds == {n \in Nat : \A m \in T : m <= n}
  <2>1. N \in Bounds /\ Bounds \subseteq Nat
    OBVIOUS
  <2>2. PICK n \in Bounds : \A m \in Bounds : n <= m
    BY <2>1, Least
  <2>3. CASE n \in T
    BY <2>3
  <2>4. CASE n \notin T
    <3>1. n - 1 \in Nat
      <4>1. PICK m \in T : TRUE
        OBVIOUS
      <4>2. m \in 1 .. N /\ m <= n
        BY <2>2
      <4> QED
        BY <2>1, <4>2
    <3>2. \A m \in T : m <= n - 1
      BY <2>4
    <3>3. n - 1 \in Bounds
      BY <3>1, <3>2
    <3> QED
      BY <2>2, <3>3
  <2> QED
    BY <2>3, <2>4
<1> QED
  BY <1>1 DEF Max

LEMMA Smallest ==
    ASSUME NEW T, T \subseteq Nat, T # {}
    PROVE  Min(T) \in T /\ \A m \in T : Min(T) <= m
<1>1. \E x \in T : \A y \in T : x <= y
  BY Least
<1> QED
  BY <1>1, Zenon DEF Min

LEMMA MinOfTwo ==
    ASSUME NEW a \in Int, NEW b \in Int
    PROVE  Min({a, b}) = IF a < b THEN a ELSE b
BY DEF Min

(* The functions that start with b and apply g to what came before. *)
Iterates(N, S, b, g) ==
    {f \in [0 .. N -> S] : f[0] = b /\ \A n \in 1 .. N : f[n] = g[<<f[n - 1], n>>]}

LEMMA Recursion ==
    ASSUME NEW S, NEW b \in S, NEW g \in [S \X Nat -> S], NEW N \in Nat
    PROVE  Iterates(N, S, b, g) # {}
<1> DEFINE Part(n, h) == /\ h \in [0 .. n -> S] /\ h[0] = b
                         /\ \A k \in 1 .. n : h[k] = g[<<h[k - 1], k>>]
           T == {n \in Nat : \E h \in [0 .. n -> S] : Part(n, h)}
<1>1. 0 \in T
  <2>1. Part(0, [k \in 0 .. 0 |-> b])
    OBVIOUS
  <2> QED
    BY <2>1
<1>2. ASSUME NEW n \in T \cap Nat PROVE n + 1 \in T
  <2>1. PICK h \in [0 .. n -> S] : Part(n, h)
    OBVIOUS
  <2> DEFINE e == [k \in 0 .. n + 1 |-> IF k = n + 1 THEN g[<<h[n], n + 1>>] ELSE h[k]]
  <2>2. h[n] \in S /\ <<h[n], n + 1>> \in S \X Nat
    BY <2>1
  <2>3. g[<<h[n], n + 1>>] \in S
    BY <2>2
  <2>4. e \in [0 .. n + 1 -> S] /\ e[0] = b
    BY <2>1, <2>3
  <2>5. ASSUME NEW k \in 1 .. n + 1 PROVE e[k] = g[<<e[k - 1], k>>]
    <3>1. CASE k = n + 1
      <4>1. e[n + 1] = g[<<h[n], n + 1>>] /\ e[n] = h[n]
        BY <2>1
      <4>2. k - 1 = n
        BY <3>1
      <4> HIDE DEF e
      <4> QED
        BY <3>1, <4>1, <4>2
    <3>2. CASE k \in 1 .. n
      <4>1. e[k] = h[k] /\ e[k - 1] = h[k - 1]
        BY <3>2
      <4>2. h[k] = g[<<h[k - 1], k>>]
        BY <2>1, <3>2
      <4> QED
        BY <4>1, <4>2
    <3> QED
      BY <3>1, <3>2
  <2> HIDE DEF e
  <2>6. Part(n + 1, e)
    BY <2>4, <2>5
  <2> QED
    BY <2>4, <2>6
<1>3. Nat \subseteq T
  <2> HIDE DEF T
  <2> QED BY <1>1, <1>2, NumbersFromZero
<1>4. PICK f \in [0 .. N -> S] : Part(N, f)
  BY <1>3
<1>5. f \in Iterates(N, S, b, g)
  BY <1>4 DEF Iterates
<1> QED
  BY <1>5

-----------------------------------------------------------------------------
(* Induction over the elements of D by a bounded height. *)
LEMMA InductionByHeight ==
    ASSUME NEW D, NEW N \in Nat, NEW height \in [D -> 0 .. N], NEW T,
           \A x \in D : (\A y \in D : height[y] < height[x] => y \in T) => x \in T
    PROVE  D \subseteq T
<1> DEFINE Low == {n \in Nat : \A x \in D : height[x] < n => x \in T}
<1>1. 0 \in Low
  OBVIOUS
<1>2. ASSUME NEW n \in Low \cap Nat PROVE n + 1 \in Low
  <2>1. ASSUME NEW x \in D, height[x] < n + 1 PROVE x \in T
    <3>1. ASSUME NEW y \in D, height[y] < height[x] PROVE y \in T
      <4>1. height[x] \in Nat /\ height[y] \in Nat
        OBVIOUS
      <4>2. height[y] < n
        BY <2>1, <3>1, <4>1
      <4> QED
        BY <4>2
    <3> QED
      BY <3>1
  <2> QED
    BY <2>1
<1>3. Nat \subseteq Low
  <2> HIDE DEF Low
  <2> QED
    BY <1>1, <1>2, NumbersFromZero
<1>4. ASSUME NEW x \in D PROVE x \in T
  <2>1. N + 1 \in Low /\ height[x] < N + 1
    BY <1>3
  <2> QED
    BY <2>1
<1> QED
  BY <1>4

(* g makes of an element and a function a value that depends only on what   *)
(* the function says of lower elements.                                     *)
LooksDown(D, S, height, g) ==
    \A x \in D, h1 \in [D -> S], h2 \in [D -> S] :
        (\A y \in D : height[y] < height[x] => h1[y] = h2[y]) => g[<<x, h1>>] = g[<<x, h2>>]

(* The functions on D that g defines by recursion.                          *)
Solutions(D, S, g) == {f \in [D -> S] : \A x \in D : f[x] = g[<<x, f>>]}

LEMMA RecursionByHeight ==
    ASSUME NEW D, NEW S, S # {}, NEW N \in Nat, NEW height \in [D -> 0 .. N],
           NEW g \in [D \X [D -> S] -> S], LooksDown(D, S, height, g)
    PROVE  Solutions(D, S, g) # {}
<1> DEFINE Upto(n, f) == \A x \in D : height[x] < n => f[x] = g[<<x, f>>]
           T == {n \in Nat : \E f \in [D -> S] : Upto(n, f)}
<1>1. 0 \in T
  <2>1. PICK s \in S : TRUE
    OBVIOUS
  <2>2. Upto(0, [x \in D |-> s]) /\ [x \in D |-> s] \in [D -> S]
    OBVIOUS
  <2> QED
    BY <2>2
<1>2. ASSUME NEW n \in T \cap Nat PROVE n + 1 \in T
  <2>1. PICK f \in [D -> S] : Upto(n, f)
    OBVIOUS
  <2> DEFINE e == [x \in D |-> IF height[x] < n THEN f[x] ELSE g[<<x, f>>]]
  <2>2. e \in [D -> S]
    <3>1. ASSUME NEW x \in D PROVE g[<<x, f>>] \in S
      OBVIOUS
    <3> QED
      BY <3>1
  <2>3. ASSUME NEW x \in D PROVE e[x] = g[<<x, f>>]
    BY <2>1
  <2>4. ASSUME NEW y \in D, height[y] < n PROVE e[y] = f[y]
    BY <2>4
  <2> HIDE DEF e
  <2>5. ASSUME NEW x \in D, height[x] < n + 1 PROVE e[x] = g[<<x, e>>]
    <3>1. ASSUME NEW y \in D, height[y] < height[x] PROVE e[y] = f[y]
      <4>1. height[x] \in Nat /\ height[y] \in Nat
        OBVIOUS
      <4>2. height[y] < n
        BY <2>5, <3>1, <4>1
      <4> QED
        BY <2>4, <4>2
    <3>2. g[<<x, e>>] = g[<<x, f>>]
      BY <2>2, <3>1 DEF LooksDown
    <3> QED
      BY <2>3, <3>2
  <2> QED
    BY <2>2, <2>5
<1>3. Nat \subseteq T
  <2> HIDE DEF T
  <2> QED
    BY <1>1, <1>2, NumbersFromZero
<1>4. PICK f \in [D -> S] : Upto(N + 1, f)
  <2>1. N + 1 \in T
    <3> HIDE DEF T
    <3> QED
      BY <1>3
  <2> HIDE DEF Upto
  <2> QED
    BY <2>1
<1>5. ASSUME NEW x \in D PROVE f[x] = g[<<x, f>>]
  <2>1. height[x] < N + 1
    OBVIOUS
  <2> QED
    BY <1>4, <2>1
<1> QED
  BY <1>5 DEF Solutions

-----------------------------------------------------------------------------
(* The elements of joined sequences. *)
LEMMA ElementsOfSeq ==
    ASSUME NEW S, NEW s \in Seq(S)
    PROVE  ToSet(s) = {s[k] : k \in 1 .. Len(s)} /\ ToSet(s) \subseteq S
BY LenProperties, ElementOfSeq DEF ToSet

LEMMA ElementsOfJoin ==
    ASSUME NEW S, NEW s \in Seq(S), NEW t \in Seq(S)
    PROVE  s \o t \in Seq(S) /\ ToSet(s \o t) = ToSet(s) \cup ToSet(t)
<1>1. /\ s \o t \in Seq(S) /\ Len(s \o t) = Len(s) + Len(t)
      /\ \A i \in 1 .. Len(s) + Len(t) : (s \o t)[i] = IF i <= Len(s) THEN s[i] ELSE t[i - Len(s)]
  BY ConcatProperties
<1>2. Len(s) \in Nat /\ Len(t) \in Nat
  BY LenProperties
<1> DEFINE both == s \o t
<1> HIDE DEF both
<1>0. /\ ToSet(s) = {s[k] : k \in 1 .. Len(s)} /\ ToSet(t) = {t[k] : k \in 1 .. Len(t)}
      /\ ToSet(both) = {both[k] : k \in 1 .. Len(s) + Len(t)}
  <2>1. both \in Seq(S) /\ Len(both) = Len(s) + Len(t)
    BY <1>1 DEF both
  <2> QED
    BY <2>1, ElementsOfSeq
<1>3. ToSet(s \o t) \subseteq ToSet(s) \cup ToSet(t)
  <2>1. SUFFICES ASSUME NEW i \in 1 .. Len(s) + Len(t)
                 PROVE  (s \o t)[i] \in ToSet(s) \cup ToSet(t)
    BY <1>1, <1>0 DEF both
  <2>2. CASE i <= Len(s)
    <3>1. i \in 1 .. Len(s) /\ (s \o t)[i] = s[i]
      BY <1>1, <1>2, <2>2
    <3> QED
      BY <3>1, <1>0
  <2>3. CASE i > Len(s)
    <3>1. i - Len(s) \in 1 .. Len(t) /\ (s \o t)[i] = t[i - Len(s)]
      BY <1>1, <1>2, <2>3
    <3> QED
      BY <3>1, <1>0
  <2> QED
    BY <1>2, <2>2, <2>3
<1>4. ToSet(s) \subseteq ToSet(s \o t)
  <2>1. SUFFICES ASSUME NEW i \in 1 .. Len(s) PROVE s[i] \in ToSet(s \o t)
    BY <1>0
  <2>2. i \in 1 .. Len(s) + Len(t) /\ (s \o t)[i] = s[i]
    BY <1>1, <1>2
  <2> QED
    BY <1>0, <2>2 DEF both
<1>5. ToSet(t) \subseteq ToSet(s \o t)
  <2>1. SUFFICES ASSUME NEW i \in 1 .. Len(t) PROVE t[i] \in ToSet(s \o t)
    BY <1>0
  <2>2. /\ i + Len(s) \in 1 .. Len(s) + Len(t) /\ ~ (i + Len(s) <= Len(s))
        /\ (i + Len(s)) - Len(s) = i
    BY <1>2
  <2>3. (s \o t)[i + Len(s)] = t[i]
    BY <1>1, <2>2
  <2> QED
    BY <1>0, <2>2, <2>3 DEF both
<1> QED
  BY <1>1, <1>3, <1>4, <1>5

LEMMA ElementsOfAppend ==
    ASSUME NEW S, NEW s \in Seq(S), NEW e \in S
    PROVE  /\ Append(s, e) \in Seq(S) /\ Len(Append(s, e)) = Len(s) + 1
           /\ ToSet(Append(s, e)) = ToSet(s) \cup {e}
<1>1. /\ Append(s, e) \in Seq(S) /\ Len(Append(s, e)) = Len(s) + 1
      /\ \A i \in 1 .. Len(s) : Append(s, e)[i] = s[i]
      /\ Append(s, e)[Len(s) + 1] = e
  BY AppendProperties
<1>2. Len(s) \in Nat
  BY LenProperties
<1>3. 1 .. Len(s) + 1 = (1 .. Len(s)) \cup {Len(s) + 1}
  BY <1>2
<1> DEFINE longer == Append(s, e)
<1> HIDE DEF longer
<1>4. /\ ToSet(s) = {s[k] : k \in 1 .. Len(s)}
      /\ ToSet(longer) = {longer[k] : k \in 1 .. Len(s) + 1}
  <2>1. longer \in Seq(S) /\ Len(longer) = Len(s) + 1
    BY <1>1 DEF longer
  <2> QED
    BY <2>1, ElementsOfSeq
<1>5. /\ \A i \in 1 .. Len(s) : longer[i] = s[i]
      /\ longer[Len(s) + 1] = e
  BY <1>1 DEF longer
<1>6. ToSet(longer) = ToSet(s) \cup {e}
  BY <1>3, <1>4, <1>5
<1> QED
  BY <1>1, <1>6 DEF longer

(* The elements of the first n of a sequence of sequences. *)
JoinOf(S, seqs, n, s) ==
    s \in Seq(S) /\ ToSet(s) = UNION {ToSet(seqs[k]) : k \in 1 .. n}

LEMMA FlattenedSeq ==
    ASSUME NEW S, NEW seqs \in Seq(Seq(S))
    PROVE  JoinOf(S, seqs, Len(seqs), FlattenSeq(seqs))
<1> DEFINE N == Len(seqs)
<1>1. N \in Nat /\ (\A n \in 1 .. N : seqs[n] \in Seq(S)) /\ seqs \in [1 .. N -> Seq(S)]
  BY LenProperties, ElementOfSeq
<1>2. CASE N = 0
  <2>1. seqs = <<>> /\ FlattenSeq(seqs) = <<>>
    BY <1>2, EmptySeq DEF FlattenSeq
  <2>2. ToSet(<<>>) = {} /\ <<>> \in Seq(S)
    BY EmptySeq DEF ToSet
  <2>3. UNION {ToSet(seqs[k]) : k \in 1 .. Len(seqs)} = {}
    <3>1. 1 .. Len(seqs) = {}
      BY <1>2
    <3> QED
      BY <3>1
  <2> QED
    BY <2>1, <2>2, <2>3 DEF JoinOf
<1>3. CASE N # 0
  <2> DEFINE Joined(s, n) == IF n \in 1 .. N THEN s \o seqs[n] ELSE s
             g == [x \in Seq(S) \X Nat |-> Joined(x[1], x[2])]
             Body(h) == [n \in 1 .. N |-> IF n = 1 THEN seqs[n] ELSE h[n - 1] \o seqs[n]]
  <2>1. ASSUME NEW s \in Seq(S), NEW n \in Nat PROVE Joined(s, n) \in Seq(S)
    <3>1. ASSUME NEW t \in Seq(S) PROVE s \o t \in Seq(S)
      BY ConcatProperties
    <3> QED
      BY <1>1, <3>1
  <2> HIDE DEF Joined
  <2>2. g \in [Seq(S) \X Nat -> Seq(S)]
    BY <2>1
  <2>3. ASSUME NEW s \in Seq(S), NEW n \in Nat PROVE g[<<s, n>>] = Joined(s, n)
    OBVIOUS
  <2> HIDE DEF g
  <2>4. PICK f \in [0 .. N -> Seq(S)] : f[0] = <<>> /\ \A n \in 1 .. N : f[n] = g[<<f[n - 1], n>>]
    <3>1. <<>> \in Seq(S)
      BY EmptySeq
    <3> HIDE DEF N
    <3>2. Iterates(N, Seq(S), <<>>, g) # {}
      BY <1>1, <2>2, <3>1, Recursion
    <3> QED
      BY <3>2 DEF Iterates
  <2>5. ASSUME NEW n \in 1 .. N PROVE f[n] = f[n - 1] \o seqs[n] /\ f[n - 1] \in Seq(S)
    <3>1. n - 1 \in 0 .. N /\ n \in Nat
      BY <1>1
    <3>2. f[n - 1] \in Seq(S) /\ f[n] = g[<<f[n - 1], n>>]
      BY <2>4, <3>1
    <3> QED
      BY <2>3, <3>1, <3>2 DEF Joined
  <2>6. 1 \in 1 .. N /\ 1 - 1 = 0
    BY <1>1, <1>3
  <2>7. f[1] = seqs[1]
    <3>1. f[1] = <<>> \o seqs[1] /\ seqs[1] \in Seq(S)
      BY <1>1, <2>4, <2>5, <2>6
    <3> QED
      BY <3>1, ConcatEmptySeq
  <2> DEFINE h == [n \in 1 .. N |-> f[n]]
  <2>8. h = Body(h)
    <3>1. ASSUME NEW n \in 1 .. N PROVE f[n] = IF n = 1 THEN seqs[n] ELSE h[n - 1] \o seqs[n]
      <4>1. CASE n = 1
        BY <2>7, <4>1
      <4>2. CASE n # 1
        <5>1. n - 1 \in 1 .. N
          BY <1>1, <4>2
        <5> QED
          BY <2>5, <4>2, <5>1
      <4> QED
        BY <4>1, <4>2
    <3> QED
      BY <3>1
  <2> HIDE DEF h
  <2> DEFINE flatten == CHOOSE e : e = Body(e)
  <2>9. FlattenSeq(seqs) = flatten[N]
    BY <1>3 DEF FlattenSeq
  <2>10. flatten = Body(flatten)
    BY <2>8, Zenon
  <2> HIDE DEF flatten
  <2>11. flatten[1] = seqs[1] /\ \A n \in 1 .. N : n # 1 => flatten[n] = flatten[n - 1] \o seqs[n]
    BY <2>6, <2>10, Zenon
  <2> DEFINE T == {n \in Nat : n + 1 > N \/ JoinOf(S, seqs, n + 1, flatten[n + 1])}
  <2>12. 0 \in T
    <3>1. 0 + 1 = 1 /\ 1 .. 1 = {1}
      OBVIOUS
    <3>2. UNION {ToSet(seqs[k]) : k \in {1}} = ToSet(seqs[1])
      BY Zenon
    <3> QED
      BY <1>1, <2>6, <2>11, <3>1, <3>2 DEF JoinOf
  <2>13. ASSUME NEW n \in T \cap Nat PROVE n + 1 \in T
    <3>1. CASE n + 2 > N
      BY <3>1
    <3>2. CASE n + 2 <= N
      <4>1. /\ n + 1 \in 1 .. N /\ n + 2 \in 1 .. N /\ n + 2 # 1 /\ (n + 2) - 1 = n + 1 /\ (n + 1) + 1 = n + 2
            /\ 1 .. n + 2 = (1 .. n + 1) \cup {n + 2}
        BY <3>2, <1>1
      <4>2. JoinOf(S, seqs, n + 1, flatten[n + 1])
        BY <4>1, <1>1
      <4>3. flatten[n + 2] = flatten[n + 1] \o seqs[n + 2]
        BY <2>11, <4>1
      <4>4. seqs[n + 2] \in Seq(S)
        BY <1>1, <4>1
      <4>5. /\ flatten[n + 2] \in Seq(S)
            /\ ToSet(flatten[n + 2]) = ToSet(flatten[n + 1]) \cup ToSet(seqs[n + 2])
        BY <4>2, <4>3, <4>4, ElementsOfJoin DEF JoinOf
      <4>6. ToSet(flatten[n + 2]) = UNION {ToSet(seqs[k]) : k \in 1 .. n + 2}
        BY <4>1, <4>2, <4>5, Zenon DEF JoinOf
      <4>7. JoinOf(S, seqs, n + 2, flatten[n + 2])
        BY <4>5, <4>6 DEF JoinOf
      <4> QED
        BY <4>1, <4>7
    <3> QED
      BY <1>1, <3>1, <3>2
  <2> HIDE DEF T
  <2>14. Nat \subseteq T
    BY <2>12, <2>13, NumbersFromZero
  <2>15. N - 1 \in T /\ (N - 1) + 1 = N
    BY <1>1, <1>3, <2>14
  <2> QED
    BY <1>1, <2>9, <2>15 DEF T
<1> QED
  BY <1>2, <1>3
=============================================================================
