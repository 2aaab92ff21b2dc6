----------------------------- MODULE DataLemmas -----------------------------
(***************************************************************************)
(* Facts about numbers and sequences that several proofs need and the      *)
(* library does not state.                                                 *)
(***************************************************************************)
EXTENDS Integers, SequencesExt, SequenceTheorems, WellFoundedInduction, TLAPS

-----------------------------------------------------------------------------
(* Least and greatest numbers.                                             *)

\* A set of natural numbers that is not empty has a least element: what the proofs below use for
\* induction.
LEMMA LeastOfNat ==
  ASSUME NEW T, T \subseteq Nat, T # {} PROVE \E x \in T : \A y \in T : x <= y
<1>1. PICK x \in T : \A y \in T : <<y, x>> \notin OpToRel(<, Nat)
  BY WFMin, NatLessThanWellFounded, Zenon
<1>2. \A y \in T : ~(y < x)
  BY <1>1, Zenon DEF OpToRel
<1> QED
  BY <1>2

\* It is what Min gives.
LEMMA MinOfNat ==
  ASSUME NEW T, T \subseteq Nat, T # {} PROVE Min(T) \in T
<1>1. \E x \in T : \A y \in T : x =< y
  BY LeastOfNat
<1> QED
  BY <1>1, Zenon DEF Min

\* A set of numbers up to n that is not empty has a greatest element.
LEMMA GreatestUpTo ==
  ASSUME NEW n \in Nat, NEW T, T \subseteq 0 .. n, T # {} PROVE \E x \in T : \A y \in T : y <= x
<1> DEFINE U == {n - x : x \in T}
<1>1. U \subseteq Nat /\ U # {}
  <2>1. \A x \in T : n - x \in Nat
    OBVIOUS
  <2>2. PICK x \in T : TRUE
    OBVIOUS
  <2>3. n - x \in U
    OBVIOUS
  <2> QED
    BY <2>1, <2>3
<1>2. PICK u \in U : \A v \in U : u <= v
  BY <1>1, LeastOfNat
<1>3. PICK x \in T : u = n - x
  BY <1>2
<1>4. ASSUME NEW y \in T PROVE y <= x
  <2>1. n - y \in U /\ x \in 0 .. n /\ y \in 0 .. n
    OBVIOUS
  <2>2. n - x <= n - y
    BY <1>2, <1>3, <2>1
  <2> QED
    BY <2>1, <2>2
<1> QED
  BY <1>4

\* The greatest element is what Max gives.
LEMMA MaxIs ==
  ASSUME NEW T, T \subseteq Int, NEW m \in T, \A y \in T : y <= m PROVE Max(T) = m
<1>1. \A y \in T : m >= y
  OBVIOUS
<1>2. Max(T) \in T /\ \A y \in T : Max(T) >= y
  BY <1>1, Zenon DEF Max
<1>3. Max(T) >= m /\ m >= Max(T) /\ Max(T) \in Int /\ m \in Int
  BY <1>1, <1>2
<1> QED
  BY <1>3

LEMMA MaxUpTo ==
  ASSUME NEW n \in Nat, NEW T, T \subseteq 0 .. n, T # {} PROVE Max(T) \in T
<1>1. PICK x \in T : \A y \in T : y <= x
  BY GreatestUpTo
<1>2. T \subseteq Int
  OBVIOUS
<1>3. Max(T) = x
  BY <1>1, <1>2, MaxIs
<1> QED
  BY <1>3

-----------------------------------------------------------------------------
(* Sequences.                                                              *)

\* The elements of a sequence, by index.
LEMMA ToSetByIndex ==
  ASSUME NEW S, NEW s \in Seq(S) PROVE ToSet(s) = {s[j] : j \in 1 .. Len(s)}
BY DEF ToSet

\* What RemoveAt leaves, by index.
LEMMA RemoveAtByIndex ==
  ASSUME NEW S, NEW s \in Seq(S), NEW i \in 1 .. Len(s)
  PROVE  /\ RemoveAt(s, i) \in Seq(S)
         /\ Len(RemoveAt(s, i)) = Len(s) - 1
         /\ \A j \in 1 .. Len(s) - 1 : RemoveAt(s, i)[j] = IF j < i THEN s[j] ELSE s[j + 1]
<1> DEFINE a == SubSeq(s, 1, i - 1)
           b == SubSeq(s, i + 1, Len(s))
<1>1. /\ a \in Seq(S) /\ Len(a) = i - 1
      /\ \A j \in 1 .. i - 1 : a[j] = s[j]
  OBVIOUS
<1>2. /\ b \in Seq(S) /\ Len(b) = Len(s) - i
      /\ \A j \in 1 .. Len(s) - i : b[j] = s[i + j]
  OBVIOUS
<1> HIDE DEF a, b
<1>3. /\ a \o b \in Seq(S) /\ Len(a \o b) = Len(s) - 1
      /\ \A j \in 1 .. i - 1 : (a \o b)[j] = a[j]
      /\ \A j \in i .. Len(s) - 1 : (a \o b)[j] = b[j - i + 1]
  <2>1. /\ a \o b \in Seq(S) /\ Len(a \o b) = Len(a) + Len(b)
        /\ \A j \in 1 .. Len(a) + Len(b) :
             (a \o b)[j] = IF j <= Len(a) THEN a[j] ELSE b[j - Len(a)]
    BY <1>1, <1>2, ConcatProperties
  <2> QED
    BY <1>1, <1>2, <2>1
<1>4. ASSUME NEW j \in 1 .. Len(s) - 1 PROVE (a \o b)[j] = IF j < i THEN s[j] ELSE s[j + 1]
  <2>1. CASE j < i
    BY <1>1, <1>3, <2>1
  <2>2. CASE ~(j < i)
    <3>1. j \in i .. Len(s) - 1 /\ j - i + 1 \in 1 .. Len(s) - i /\ i + (j - i + 1) = j + 1
      BY <2>2
    <3> QED
      BY <1>2, <1>3, <2>2, <3>1
  <2> QED
    BY <2>1, <2>2
<1> QED
  BY <1>3, <1>4 DEF RemoveAt, a, b

\* RemoveAt takes away one element and, if there is no other copy of it, exactly that.
LEMMA RemoveAtSet ==
  ASSUME NEW S, NEW s \in Seq(S), NEW i \in 1 .. Len(s),
         \A j, k \in 1 .. Len(s) : s[j] = s[k] => j = k
  PROVE  /\ ToSet(RemoveAt(s, i)) = ToSet(s) \ {s[i]}
         /\ s[i] \in ToSet(s)
         /\ \A j, k \in 1 .. Len(s) - 1 : RemoveAt(s, i)[j] = RemoveAt(s, i)[k] => j = k
<1> DEFINE t == RemoveAt(s, i)
<1>1. /\ t \in Seq(S) /\ Len(t) = Len(s) - 1
      /\ \A j \in 1 .. Len(s) - 1 : t[j] = IF j < i THEN s[j] ELSE s[j + 1]
  BY RemoveAtByIndex
<1> HIDE DEF t
<1>2. ToSet(s) = {s[j] : j \in 1 .. Len(s)} /\ ToSet(t) = {t[j] : j \in 1 .. Len(s) - 1}
  BY <1>1, ToSetByIndex
<1>3. ASSUME NEW x \in ToSet(t) PROVE x \in ToSet(s) \ {s[i]}
  <2>1. PICK j \in 1 .. Len(s) - 1 : x = t[j]
    BY <1>2
  <2>2. CASE j < i
    BY <1>1, <1>2, <2>1, <2>2
  <2>3. CASE ~(j < i)
    BY <1>1, <1>2, <2>1, <2>3
  <2> QED
    BY <2>2, <2>3
<1>4. ASSUME NEW x \in ToSet(s), x # s[i] PROVE x \in ToSet(t)
  <2>1. PICK j \in 1 .. Len(s) : x = s[j]
    BY <1>2
  <2>2. CASE j < i
    BY <1>1, <1>2, <2>1, <2>2
  <2>3. CASE j > i
    <3>1. j - 1 \in 1 .. Len(s) - 1 /\ t[j - 1] = s[j]
      BY <1>1, <2>3
    <3> QED
      BY <1>2, <2>1, <3>1
  <2> QED
    BY <1>4, <2>1, <2>2, <2>3
<1>5. ASSUME NEW j \in 1 .. Len(s) - 1, NEW k \in 1 .. Len(s) - 1, t[j] = t[k] PROVE j = k
  <2> DEFINE x == IF j < i THEN j ELSE j + 1
             y == IF k < i THEN k ELSE k + 1
  <2>1. x \in 1 .. Len(s) /\ y \in 1 .. Len(s) /\ t[j] = s[x] /\ t[k] = s[y]
    BY <1>1
  <2>2. x = y
    BY <1>5, <2>1
  <2> QED
    BY <2>2
<1> QED
  BY <1>2, <1>3, <1>4, <1>5 DEF t

\* Append adds one element.
LEMMA AppendSet ==
  ASSUME NEW S, NEW s \in Seq(S), NEW e \in S
  PROVE  /\ Append(s, e) \in Seq(S) /\ Len(Append(s, e)) = Len(s) + 1
         /\ \A j \in 1 .. Len(s) : Append(s, e)[j] = s[j]
         /\ Append(s, e)[Len(s) + 1] = e
         /\ ToSet(Append(s, e)) = ToSet(s) \cup {e}
<1> DEFINE t == Append(s, e)
<1>1. /\ t \in Seq(S) /\ Len(t) = Len(s) + 1
      /\ \A j \in 1 .. Len(s) : t[j] = s[j]
      /\ t[Len(s) + 1] = e
  OBVIOUS
<1> HIDE DEF t
<1>2. ToSet(s) = {s[j] : j \in 1 .. Len(s)} /\ ToSet(t) = {t[j] : j \in 1 .. Len(s) + 1}
  BY <1>1, ToSetByIndex
<1>3. ToSet(t) = ToSet(s) \cup {e}
  BY <1>1, <1>2
<1> QED
  BY <1>1, <1>3 DEF t

-----------------------------------------------------------------------------
(* Concatenation of a sequence of sequences.                               *)

\* f is what FlattenSeq computes for the first n elements of s.
Flattens(f, n, s) == f = [i \in 1 .. n |-> IF i = 1 THEN s[i] ELSE f[i - 1] \o s[i]]

\* There is such a function, ...
LEMMA FlattensExists ==
  ASSUME NEW s, NEW n \in Nat PROVE \E f : Flattens(f, n, s)
<1> DEFINE T == {k \in Nat : ~ \E f : Flattens(f, k, s)}
<1>1. ASSUME T # {} PROVE FALSE
  <2>1. PICK k \in T : \A j \in T : k <= j
    BY <1>1, LeastOfNat
  <2>2. CASE k = 0
    <3>1. Flattens([i \in 1 .. 0 |-> s[i]], 0, s)
      BY DEF Flattens
    <3> QED
      BY <2>1, <2>2, <3>1
  <2>3. CASE k # 0
    <3>1. k \in Nat /\ k - 1 \in Nat /\ k - 1 \notin T
      BY <2>1, <2>3
    <3>2. PICK f : Flattens(f, k - 1, s)
      BY <3>1
    <3> DEFINE g == [i \in 1 .. k |-> IF i = 1 THEN s[i] ELSE f[i - 1] \o s[i]]
    <3>3. ASSUME NEW i \in 1 .. k PROVE g[i] = IF i = 1 THEN s[i] ELSE g[i - 1] \o s[i]
      <4>1. CASE i = 1
        BY <4>1
      <4>2. CASE i # 1
        <5>1. i - 1 \in 1 .. k - 1 /\ i - 1 \in 1 .. k
          BY <3>1, <4>2
        <5>2. g[i - 1] = f[i - 1]
          BY <3>2, <5>1 DEF Flattens
        <5> QED
          BY <4>2, <5>2
      <4> QED
        BY <4>1, <4>2
    <3>4. Flattens(g, k, s)
      BY <3>3 DEF Flattens
    <3> QED
      BY <2>1, <3>4
  <2> QED
    BY <2>2, <2>3
<1> QED
  BY <1>1

\* ... it depends only on these elements, ...
LEMMA FlattensAgree ==
  ASSUME NEW f, NEW n, NEW s, Flattens(f, n, s), NEW g, NEW m, NEW t, Flattens(g, m, t),
         n \in Nat, m \in Nat, n <= m, \A i \in 1 .. n : s[i] = t[i]
  PROVE  \A i \in 1 .. n : f[i] = g[i]
<1> DEFINE T == {i \in 1 .. n : f[i] # g[i]}
<1>1. ASSUME T # {} PROVE FALSE
  <2>1. T \subseteq Nat
    OBVIOUS
  <2>2. PICK i \in T : \A j \in T : i <= j
    BY <1>1, <2>1, LeastOfNat
  <2>3. i \in 1 .. n /\ i \in 1 .. m
    OBVIOUS
  <2>4. /\ f[i] = IF i = 1 THEN s[i] ELSE f[i - 1] \o s[i]
        /\ g[i] = IF i = 1 THEN t[i] ELSE g[i - 1] \o t[i]
    BY <2>3 DEF Flattens
  <2>5. i # 1 /\ i - 1 \in 1 .. n
    BY <2>2, <2>3, <2>4
  <2>6. f[i - 1] = g[i - 1]
    <3>1. i - 1 \notin T
      BY <2>2, <2>3
    <3> QED
      BY <2>5, <3>1
  <2> QED
    BY <2>2, <2>3, <2>4, <2>6
<1> QED
  BY <1>1

\* ... and FlattenSeq takes its last value.
LEMMA FlattenIs ==
  ASSUME NEW S, NEW s \in Seq(S), NEW n \in Nat \ {0}, Len(s) = n, NEW f, Flattens(f, n, s)
  PROVE  FlattenSeq(s) = f[n]
<1> DEFINE g == CHOOSE h : h = [i \in 1 .. Len(s) |-> IF i = 1 THEN s[i] ELSE h[i - 1] \o s[i]]
<1>1. Flattens(g, n, s)
  BY Zenon DEF Flattens
<1>2. n \in 1 .. n /\ n <= n /\ n \in Nat
  OBVIOUS
<1>3. f[n] = g[n]
  <2> HIDE DEF g
  <2> QED
    BY <1>1, <1>2, FlattensAgree
<1>4. FlattenSeq(s) = g[n]
  BY DEF FlattenSeq
<1> QED
  BY <1>3, <1>4

\* FlattenSeq of one sequence is that sequence.
LEMMA FlattenOne ==
  ASSUME NEW S, NEW s \in Seq(S), Len(s) = 1 PROVE FlattenSeq(s) = s[1]
<1> DEFINE f == [i \in 1 .. 1 |-> s[i]]
<1>1. Flattens(f, 1, s) /\ f[1] = s[1]
  BY DEF Flattens
<1>2. 1 \in Nat \ {0}
  OBVIOUS
<1> QED
  BY <1>1, <1>2, FlattenIs

\* FlattenSeq of one sequence more is the concatenation with that one.
LEMMA FlattenMore ==
  ASSUME NEW S, NEW s \in Seq(S), Len(s) # 0, NEW t \in Seq(S), Len(t) = Len(s) + 1,
         \A i \in 1 .. Len(s) : s[i] = t[i]
  PROVE  FlattenSeq(t) = FlattenSeq(s) \o t[Len(t)]
<1> DEFINE n == Len(s)
<1>1. n \in Nat \ {0} /\ n + 1 \in Nat \ {0} /\ n <= n + 1 /\ n \in 1 .. n /\ Len(t) = n + 1
  OBVIOUS
<1> HIDE DEF n
<1>2. PICK f : Flattens(f, n, s)
  BY <1>1, FlattensExists
<1>3. PICK g : Flattens(g, n + 1, t)
  BY <1>1, FlattensExists
<1>4. f[n] = g[n]
  <2>1. \A i \in 1 .. n : s[i] = t[i]
    BY DEF n
  <2>2. \A i \in 1 .. n : f[i] = g[i]
    <3> DEFINE m == n + 1
    <3>1. n \in Nat /\ m \in Nat /\ n <= m /\ Flattens(g, m, t)
      BY <1>1, <1>3
    <3> HIDE DEF m
    <3> QED
      BY <1>2, <2>1, <3>1, FlattensAgree
  <2> QED
    BY <1>1, <2>2
<1>5. g[n + 1] = g[n] \o t[n + 1]
  <2>1. n + 1 \in 1 .. n + 1 /\ n + 1 # 1 /\ (n + 1) - 1 = n
    BY <1>1
  <2>2. g[n + 1] = IF n + 1 = 1 THEN t[n + 1] ELSE g[(n + 1) - 1] \o t[n + 1]
    BY <1>3, <2>1 DEF Flattens
  <2> QED
    BY <2>1, <2>2
<1>6. FlattenSeq(s) = f[n] /\ FlattenSeq(t) = g[n + 1]
  <2>1. FlattenSeq(s) = f[n]
    BY <1>1, <1>2, FlattenIs DEF n
  <2>2. FlattenSeq(t) = g[n + 1]
    BY <1>1, <1>3, FlattenIs
  <2> QED
    BY <2>1, <2>2
<1> QED
  BY <1>1, <1>4, <1>5, <1>6
=============================================================================
