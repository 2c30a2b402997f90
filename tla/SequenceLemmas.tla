---------------------------- MODULE SequenceLemmas ----------------------------
(***************************************************************************)
(* Facts about the operators of the community modules that the models use  *)
(* and the proofs cite.  Induction is stated for sets of numbers: the       *)
(* provers can instantiate a set, not an operator.                          *)
(***************************************************************************)
EXTENDS SequencesExt, SequenceTheorems, FiniteSetTheorems, WellFoundedInduction, TLAPS

\* A set that has 0 and the successor of each of its numbers has all numbers.
LEMMA NatSetInduction ==
  ASSUME NEW S, 0 \in S, \A n \in Nat : n \in S => n + 1 \in S
  PROVE  Nat \subseteq S
<1> DEFINE T == Nat \ S
<1> SUFFICES ASSUME T # {} PROVE FALSE
  OBVIOUS
<1>1. PICK x \in T : \A y \in T : ~(<<y, x>> \in OpToRel(<, Nat))
  BY NatLessThanWellFounded, WFMin, T \subseteq Nat
<1>2. x # 0 /\ x - 1 \in Nat
  OBVIOUS
<1>3. x - 1 \in T
  BY <1>2
<1>4. <<x - 1, x>> \in OpToRel(<, Nat)
  BY <1>2 DEF OpToRel
<1> QED BY <1>1, <1>3, <1>4

\* A non-empty set of numbers has a smallest one.
LEMMA SmallestOf ==
  ASSUME NEW S, S \subseteq Nat, S # {}
  PROVE  \E x \in S : \A y \in S : x <= y
<1> DEFINE T == {n \in Nat : \A y \in S : n <= y}
<1> SUFFICES ASSUME \A x \in S : x \notin T PROVE FALSE
  OBVIOUS
<1>1. 0 \in T
  OBVIOUS
<1>2. ASSUME NEW n \in Nat, n \in T PROVE n + 1 \in T
  BY <1>2
<1> HIDE DEF T
<1>3. Nat \subseteq T
  BY <1>1, <1>2, NatSetInduction
<1> QED BY <1>3

\* A non-empty set of numbers up to a bound has a largest one.
LEMMA LargestOf ==
  ASSUME NEW n \in Nat, NEW S, S \subseteq 0..n, S # {}
  PROVE  \E x \in S : \A y \in S : y <= x
<1> DEFINE T == {n - x : x \in S}
<1>1. \A x \in S : x \in Nat /\ n - x \in Nat
  BY SMT
<1> HIDE DEF T
<1>a. T \subseteq Nat
  BY <1>1 DEF T
<1>b. T # {}
  BY DEF T
<1>2. PICK m \in T : \A k \in T : m <= k
  BY <1>a, <1>b, SmallestOf
<1>3. PICK x \in S : m = n - x
  BY <1>2 DEF T
<1>4. ASSUME NEW y \in S PROVE y <= x
  <2>1. n - y \in T
    BY DEF T
  <2>2. n - x <= n - y
    BY <1>2, <1>3, <2>1
  <2> QED BY <1>1, <2>2
<1> QED BY <1>4

-----------------------------------------------------------------------------
(* Concatenation. *)

\* The sequence with the elements of a and then those of b is their concatenation.
LEMMA ConcatIs ==
  ASSUME NEW S, NEW a \in Seq(S), NEW b \in Seq(S),
         NEW c \in Seq(S), Len(c) = Len(a) + Len(b),
         \A p \in 1..Len(a) : c[p] = a[p],
         \A k \in 1..Len(b) : c[Len(a) + k] = b[k]
  PROVE  a \o b = c
<1> DEFINE m == Len(a) + Len(b)
<1>1. /\ a \o b \in Seq(S) /\ Len(a \o b) = m
      /\ \A p \in 1..m : (a \o b)[p] = IF p <= Len(a) THEN a[p] ELSE b[p - Len(a)]
  BY ConcatProperties
<1>2. Len(a) \in Nat /\ Len(b) \in Nat /\ m \in Nat
  BY LenProperties
<1>3. ASSUME NEW p \in 1..m PROVE (a \o b)[p] = c[p]
  <2>1. CASE p <= Len(a)
    <3>1. p \in 1..Len(a)
      BY <1>2, <2>1
    <3> QED BY <1>1, <2>1, <3>1
  <2>2. CASE ~(p <= Len(a))
    <3> DEFINE k == p - Len(a)
    <3>1. k \in 1..Len(b) /\ Len(a) + k = p
      BY <1>2, <2>2
    <3>2. (a \o b)[p] = b[k]
      BY <1>1, <2>2
    <3> QED BY <3>1, <3>2
  <2> QED BY <2>1, <2>2
<1>4. a \o b \in [1..m -> S] /\ c \in [1..m -> S]
  BY <1>1, LenProperties
<1> HIDE DEF m
<1> QED BY <1>3, <1>4

\* The elements of a concatenation, by the sequence they come from.
LEMMA ConcatElements ==
  ASSUME NEW S, NEW a \in Seq(S), NEW b \in Seq(S)
  PROVE  /\ a \o b \in Seq(S) /\ Len(a \o b) = Len(a) + Len(b)
         /\ Len(a) \in Nat /\ Len(b) \in Nat
         /\ \A p \in 1..Len(a) : p \in 1..Len(a \o b) /\ (a \o b)[p] = a[p]
         /\ \A k \in 1..Len(b) : Len(a) + k \in 1..Len(a \o b) /\ (a \o b)[Len(a) + k] = b[k]
<1>1. /\ a \o b \in Seq(S) /\ Len(a \o b) = Len(a) + Len(b)
      /\ \A p \in 1..(Len(a) + Len(b)) : (a \o b)[p] = IF p <= Len(a) THEN a[p] ELSE b[p - Len(a)]
  BY ConcatProperties
<1>2. Len(a) \in Nat /\ Len(b) \in Nat
  BY LenProperties
<1>3. ASSUME NEW p \in 1..Len(a)
      PROVE  p \in 1..Len(a \o b) /\ (a \o b)[p] = a[p]
  <2>1. p \in 1..(Len(a) + Len(b)) /\ p <= Len(a)
    BY <1>2
  <2> QED BY <1>1, <2>1
<1>4. ASSUME NEW k \in 1..Len(b)
      PROVE  Len(a) + k \in 1..Len(a \o b) /\ (a \o b)[Len(a) + k] = b[k]
  <2>1. /\ Len(a) + k \in 1..(Len(a) + Len(b)) /\ ~(Len(a) + k <= Len(a))
        /\ (Len(a) + k) - Len(a) = k
    BY <1>2
  <2> QED BY <1>1, <2>1
<1> QED BY <1>1, <1>2, <1>3, <1>4

\* What is left of a concatenation without its first part.
LEMMA DropFirst ==
  ASSUME NEW S, NEW a \in Seq(S), NEW b \in Seq(S)
  PROVE  SubSeq(a \o b, Len(a) + 1, Len(a \o b)) = b
<1> DEFINE m == Len(a) + 1
           n == Len(a \o b)
           r == SubSeq(a \o b, m, n)
<1>1. /\ n = Len(a) + Len(b) /\ Len(a) \in Nat /\ Len(b) \in Nat
      /\ \A k \in 1..Len(b) : Len(a) + k \in 1..n /\ (a \o b)[Len(a) + k] = b[k]
  BY ConcatElements
<1>2. /\ m \in Int /\ n \in Int /\ n - m + 1 = Len(b) /\ (m <= n \/ Len(b) = 0)
  BY <1>1
<1>3. ASSUME NEW i \in m..n PROVE (a \o b)[i] \in S
  <2>1. i - Len(a) \in 1..Len(b) /\ Len(a) + (i - Len(a)) = i
    BY <1>1
  <2>2. (a \o b)[i] = b[i - Len(a)]
    BY <1>1, <2>1
  <2> QED BY <2>1, <2>2, ElementOfSeq
<1> HIDE DEF m, n
<1>4. /\ r \in Seq(S) /\ Len(r) = (IF m <= n THEN n - m + 1 ELSE 0)
      /\ \A i \in 1..n - m + 1 : r[i] = (a \o b)[m + i - 1]
  <2> DEFINE s == a \o b
  <2>1. \A i \in m..n : s[i] \in S
    BY <1>3
  <2> HIDE DEF s
  <2>2. /\ SubSeq(s, m, n) \in Seq(S)
        /\ Len(SubSeq(s, m, n)) = (IF m <= n THEN n - m + 1 ELSE 0)
        /\ \A i \in 1..n - m + 1 : SubSeq(s, m, n)[i] = s[m + i - 1]
    BY <1>2, <2>1, SubSeqProperties
  <2> QED BY <2>2 DEF s
<1>5. Len(r) = Len(b)
  BY <1>2, <1>4
<1>6. ASSUME NEW i \in 1..Len(r) PROVE r[i] = b[i]
  <2>1. i \in 1..n - m + 1 /\ i \in 1..Len(b) /\ m + i - 1 = Len(a) + i
    BY <1>1, <1>2, <1>5 DEF m
  <2> QED BY <1>1, <1>4, <2>1
<1> HIDE DEF r
<1>7. r = b
  BY <1>4, <1>5, <1>6, SeqEqual
<1> QED BY <1>7 DEF r, m, n

\* The first elements of a sequence.
LEMMA PrefixFacts ==
  ASSUME NEW T, NEW s \in Seq(T)
  PROVE  /\ SubSeq(s, 1, 0) = <<>> /\ SubSeq(s, 1, Len(s)) = s
         /\ \A i \in 0..Len(s) : SubSeq(s, 1, i) \in Seq(T) /\ Len(SubSeq(s, 1, i)) = i
         /\ \A i \in 0..(Len(s) - 1) : SubSeq(s, 1, i + 1) = Append(SubSeq(s, 1, i), s[i + 1])
<1>1. Len(s) \in Nat
  OBVIOUS
<1>2. SubSeq(s, 1, 0) = <<>> /\ SubSeq(s, 1, Len(s)) = s
  BY <1>1
<1>3. \A i \in 0..Len(s) : SubSeq(s, 1, i) \in Seq(T) /\ Len(SubSeq(s, 1, i)) = i
  BY <1>1
<1>4. ASSUME NEW i \in 0..(Len(s) - 1)
      PROVE  SubSeq(s, 1, i + 1) = Append(SubSeq(s, 1, i), s[i + 1])
  <2> DEFINE a == SubSeq(s, 1, i + 1)
             b == Append(SubSeq(s, 1, i), s[i + 1])
  <2>1. i \in 0..Len(s) /\ i + 1 \in 1..Len(s) /\ i + 1 \in 0..Len(s) /\ i \in Nat
    BY <1>1
  <2>2. s[i + 1] \in T
    BY <2>1
  <2>3. a \in Seq(T) /\ Len(a) = i + 1 /\ \A k \in 1..(i + 1) : a[k] = s[k]
    BY <1>1, <1>3, <2>1
  <2>4. SubSeq(s, 1, i) \in Seq(T) /\ Len(SubSeq(s, 1, i)) = i /\ \A k \in 1..i : SubSeq(s, 1, i)[k] = s[k]
    BY <1>1, <1>3, <2>1
  <2>5. b \in Seq(T) /\ Len(b) = i + 1 /\ \A k \in 1..(i + 1) : b[k] = s[k]
    BY <2>1, <2>2, <2>4
  <2> HIDE DEF a, b
  <2>6. \A k \in 1..Len(a) : a[k] = b[k]
    BY <2>3, <2>5
  <2>7. a = b
    BY <2>3, <2>5, <2>6, SeqEqual
  <2> QED BY <2>7 DEF a, b
<1> QED BY <1>2, <1>3, <1>4

-----------------------------------------------------------------------------
(* FlattenSeq. *)

\* f runs through the concatenations of the first sequences of s.
Concatenates(f, s, T) ==
  /\ f \in [0..Len(s) -> Seq(T)]
  /\ f[0] = <<>>
  /\ \A i \in 1..Len(s) : f[i] = f[i - 1] \o s[i]

LEMMA ConcatenationExists ==
  ASSUME NEW T, NEW s \in Seq(Seq(T))
  PROVE  \E f : Concatenates(f, s, T)
<1> DEFINE Upto(n) == \E f \in [0..n -> Seq(T)] :
                        f[0] = <<>> /\ \A i \in 1..n : f[i] = f[i - 1] \o s[i]
           S == {n \in Nat : n <= Len(s) => Upto(n)}
<1>1. 0 \in S
  <2> DEFINE f == [i \in 0..0 |-> <<>>]
  <2>1. f \in [0..0 -> Seq(T)] /\ f[0] = <<>>
    BY EmptySeq
  <2>2. \A i \in 1..0 : f[i] = f[i - 1] \o s[i]
    OBVIOUS
  <2> HIDE DEF f
  <2>3. Upto(0)
    BY <2>1, <2>2
  <2> QED BY <2>3
<1>2. ASSUME NEW n \in Nat, n \in S PROVE n + 1 \in S
  <2> HIDE DEF Upto
  <2> SUFFICES ASSUME n + 1 <= Len(s) PROVE Upto(n + 1)
    BY DEF S
  <2>0. Upto(n)
    BY <1>2 DEF S
  <2>1. PICK f \in [0..n -> Seq(T)] : f[0] = <<>> /\ \A i \in 1..n : f[i] = f[i - 1] \o s[i]
    BY <2>0 DEF Upto
  <2> DEFINE g == [i \in 0..(n + 1) |-> IF i <= n THEN f[i] ELSE f[n] \o s[n + 1]]
  <2>2. s[n + 1] \in Seq(T) /\ f[n] \in Seq(T)
    OBVIOUS
  <2>3. f[n] \o s[n + 1] \in Seq(T)
    BY <2>2
  <2>4. g \in [0..(n + 1) -> Seq(T)]
    BY <2>3
  <2>5. g[0] = <<>>
    BY <2>1
  <2>6. ASSUME NEW i \in 1..(n + 1) PROVE g[i] = g[i - 1] \o s[i]
    <3>1. CASE i = n + 1
      <4>1. g[i] = f[n] \o s[n + 1] /\ i - 1 = n
        BY <3>1
      <4>2. g[n] = f[n]
        OBVIOUS
      <4> QED BY <3>1, <4>1, <4>2
    <3>2. CASE i # n + 1
      <4>1. i \in 1..n /\ i - 1 \in 0..n
        BY <3>2
      <4>2. g[i] = f[i] /\ g[i - 1] = f[i - 1]
        BY <4>1
      <4> QED BY <2>1, <4>1, <4>2
    <3> QED BY <3>1, <3>2
  <2> HIDE DEF g
  <2> QED BY <2>4, <2>5, <2>6 DEF Upto
<1> HIDE DEF S
<1>3. Nat \subseteq S
  BY <1>1, <1>2, NatSetInduction
<1>4. Len(s) \in Nat
  OBVIOUS
<1> HIDE DEF Upto
<1>5. Upto(Len(s))
  BY <1>3, <1>4 DEF S
<1> QED BY <1>5 DEF Concatenates, Upto

\* FlattenSeq ends such a run.
LEMMA FlattenConcatenates ==
  ASSUME NEW T, NEW s \in Seq(Seq(T)), NEW f, Concatenates(f, s, T)
  PROVE  FlattenSeq(s) = f[Len(s)]
<1>1. CASE Len(s) = 0
  <2>1. s = <<>>
    BY <1>1
  <2>2. FlattenSeq(s) = s
    BY <1>1 DEF FlattenSeq
  <2> QED BY <1>1, <2>1, <2>2 DEF Concatenates
<1>2. CASE Len(s) # 0
  <2> DEFINE n == Len(s)
             Flat(g) == g = [i \in 1..n |-> IF i = 1 THEN s[i] ELSE g[i - 1] \o s[i]]
             h == CHOOSE g : Flat(g)
             e == [i \in 1..n |-> f[i]]
  <2>1. n \in Nat \ {0}
    BY <1>2
  <2>2. f \in [0..n -> Seq(T)] /\ f[0] = <<>> /\ \A i \in 1..n : f[i] = f[i - 1] \o s[i]
    BY DEF Concatenates
  <2>3. f[1] = s[1]
    <3>1. 1 \in 1..n /\ 1 - 1 = 0
      BY <2>1
    <3>2. f[1] = <<>> \o s[1]
      BY <2>2, <3>1
    <3>3. s[1] \in Seq(T)
      BY <3>1, ElementOfSeq
    <3> QED BY <3>2, <3>3, ConcatEmptySeq
  <2>4. Flat(e)
    <3>1. ASSUME NEW i \in 1..n
          PROVE  e[i] = IF i = 1 THEN s[i] ELSE e[i - 1] \o s[i]
      <4>1. CASE i = 1
        BY <2>3, <4>1
      <4>2. CASE i # 1
        <5>1. i - 1 \in 1..n
          BY <2>1, <4>2
        <5>2. e[i] = f[i] /\ e[i - 1] = f[i - 1]
          BY <5>1
        <5> QED BY <2>2, <4>2, <5>2
      <4> QED BY <4>1, <4>2
    <3> QED BY <3>1, Zenon
  <2>5. Flat(h)
    BY <2>4, Zenon
  <2>6. FlattenSeq(s) = h[n]
    BY <1>2, Zenon DEF FlattenSeq
  <2> HIDE DEF h, e
  <2>7. \A i \in 1..n : h[i] = IF i = 1 THEN s[i] ELSE h[i - 1] \o s[i]
    BY <2>5, Zenon
  <2> HIDE DEF Flat
  <2> DEFINE S == {i \in Nat : i + 1 \in 1..n => h[i + 1] = f[i + 1]}
  <2> HIDE DEF S
  <2>8. 0 \in S
    BY <2>3, <2>7 DEF S
  <2>9. ASSUME NEW i \in Nat, i \in S PROVE i + 1 \in S
    <3> SUFFICES ASSUME i + 2 \in 1..n PROVE h[i + 2] = f[i + 2]
      BY DEF S
    <3>1. h[i + 1] = f[i + 1]
      BY <2>1, <2>9 DEF S
    <3> DEFINE j == i + 2
    <3>a. j \in 1..n /\ j # 1 /\ j - 1 = i + 1
      OBVIOUS
    <3> HIDE DEF j
    <3>2. h[j] = h[i + 1] \o s[j]
      BY <2>7, <3>a
    <3>3. f[j] = f[i + 1] \o s[j]
      BY <2>2, <3>a
    <3> QED BY <3>1, <3>2, <3>3 DEF j
  <2>10. Nat \subseteq S
    BY <2>8, <2>9, NatSetInduction
  <2>11. n - 1 \in S
    BY <2>1, <2>10
  <2>12. h[n] = f[n]
    BY <2>1, <2>11 DEF S
  <2> QED BY <2>6, <2>12
<1> QED BY <1>1, <1>2

\* A run of concatenations only grows.
LEMMA ConcatenationGrows ==
  ASSUME NEW T, NEW s \in Seq(Seq(T)), NEW f, Concatenates(f, s, T),
         NEW i \in 0..Len(s), NEW j \in i..Len(s)
  PROVE  Len(f[i]) <= Len(f[j])
<1> DEFINE S == {n \in Nat : i + n <= Len(s) => Len(f[i]) <= Len(f[i + n])}
<1>a. Len(s) \in Nat
  OBVIOUS
<1>b. \A m \in 0..Len(s) : f[m] \in Seq(T)
  BY DEF Concatenates
<1>c. \A m \in 0..Len(s) : Len(f[m]) \in Nat
  BY <1>b, LenProperties
<1>d. \A m \in 1..Len(s) : f[m] = f[m - 1] \o s[m]
  BY DEF Concatenates
<1>e. \A m \in 1..Len(s) : s[m] \in Seq(T)
  BY ElementOfSeq
<1>f. i \in Nat /\ j \in Nat /\ i <= j /\ j <= Len(s)
  BY <1>a
<1> HIDE DEF S
<1>1. 0 \in S
  BY <1>c, <1>f DEF S
<1>2. ASSUME NEW n \in Nat, n \in S PROVE n + 1 \in S
  <2> SUFFICES ASSUME i + (n + 1) <= Len(s) PROVE Len(f[i]) <= Len(f[i + (n + 1)])
    BY DEF S
  <2> DEFINE m == i + n
             k == i + (n + 1)
  <2>1. m \in 0..Len(s) /\ k \in 1..Len(s) /\ k \in 0..Len(s) /\ k - 1 = m
    BY <1>a, <1>f
  <2>2. Len(f[i]) <= Len(f[m])
    BY <1>2, <2>1 DEF S
  <2> HIDE DEF m, k
  <2>3. f[k] = f[m] \o s[k]
    BY <1>d, <2>1
  <2>4. f[m] \in Seq(T) /\ s[k] \in Seq(T)
    BY <1>b, <1>e, <2>1
  <2>5. Len(f[k]) = Len(f[m]) + Len(s[k]) /\ Len(s[k]) \in Nat
    BY <2>3, <2>4, ConcatProperties, LenProperties
  <2>6. Len(f[i]) \in Nat /\ Len(f[m]) \in Nat
    BY <1>a, <1>c, <1>f, <2>1
  <2>7. Len(f[i]) <= Len(f[k])
    <3>1. \A a, b, c \in Nat : a <= b => a <= b + c
      OBVIOUS
    <3> QED BY <2>2, <2>5, <2>6, <3>1
  <2> QED BY <2>7 DEF k
<1>3. j - i \in Nat /\ i + (j - i) = j
  BY <1>f
<1>4. j - i \in S
  BY <1>1, <1>2, <1>3, NatSetInduction
<1> QED BY <1>f, <1>3, <1>4 DEF S

\* A property of the first sequences that each further one keeps.
LEMMA ConcatenationKeeps ==
  ASSUME NEW T, NEW s \in Seq(Seq(T)), NEW f, Concatenates(f, s, T),
         NEW P, \A a \in P \cap Seq(T), b \in Seq(T) : a \o b \in P,
         NEW i \in 0..Len(s), f[i] \in P
  PROVE  f[Len(s)] \in P
<1> DEFINE S == {n \in Nat : i + n <= Len(s) => f[i + n] \in P}
<1>1. Len(s) \in Nat /\ i \in Nat /\ i <= Len(s)
  OBVIOUS
<1> HIDE DEF S
<1>2. 0 \in S
  BY <1>1 DEF S
<1>3. ASSUME NEW n \in Nat, n \in S PROVE n + 1 \in S
  <2> SUFFICES ASSUME i + (n + 1) <= Len(s) PROVE f[i + (n + 1)] \in P
    BY DEF S
  <2> DEFINE m == i + n
             k == i + (n + 1)
  <2>1. m \in 0..Len(s) /\ k \in 1..Len(s) /\ k - 1 = m
    BY <1>1
  <2>2. f[m] \in P
    BY <1>3, <2>1 DEF S
  <2> HIDE DEF m, k
  <2>3. f[m] \in Seq(T) /\ f[k] = f[m] \o s[k]
    BY <2>1 DEF Concatenates
  <2>4. s[k] \in Seq(T)
    BY <2>1, ElementOfSeq
  <2> QED BY <2>2, <2>3, <2>4 DEF k
<1>4. Len(s) - i \in Nat /\ i + (Len(s) - i) = Len(s)
  BY <1>1
<1>5. Len(s) - i \in S
  BY <1>2, <1>3, <1>4, NatSetInduction
<1> QED BY <1>1, <1>4, <1>5 DEF S

\* A property that concatenation keeps is one of the whole if it is one of the parts.
LEMMA FlattenIn ==
  ASSUME NEW T, NEW s \in Seq(Seq(T)), NEW P, <<>> \in P,
         \A a, b \in P \cap Seq(T) : a \o b \in P,
         \A i \in 1..Len(s) : s[i] \in P
  PROVE  FlattenSeq(s) \in P /\ FlattenSeq(s) \in Seq(T)
<1>1. PICK f : Concatenates(f, s, T)
  BY ConcatenationExists
<1>2. FlattenSeq(s) = f[Len(s)] /\ Len(s) \in Nat
  BY <1>1, FlattenConcatenates
<1> DEFINE S == {n \in Nat : n <= Len(s) => f[n] \in P}
<1> HIDE DEF S
<1>3. 0 \in S
  BY <1>1 DEF S, Concatenates
<1>4. ASSUME NEW n \in Nat, n \in S PROVE n + 1 \in S
  <2> SUFFICES ASSUME n + 1 <= Len(s) PROVE f[n + 1] \in P
    BY DEF S
  <2>1. n \in 0..Len(s) /\ n + 1 \in 1..Len(s) /\ (n + 1) - 1 = n
    BY <1>2
  <2>2. f[n] \in P
    BY <1>4, <2>1 DEF S
  <2>3. f[n] \in Seq(T)
    BY <1>1, <2>1 DEF Concatenates
  <2>4. f[n + 1] = f[n] \o s[n + 1]
    BY <1>1, <2>1 DEF Concatenates
  <2>5. s[n + 1] \in P /\ s[n + 1] \in Seq(T)
    <3> DEFINE A == Seq(T)
               k == n + 1
    <3>1. s \in Seq(A) /\ k \in 1..Len(s)
      BY <2>1
    <3>2. s[k] \in P
      BY <3>1
    <3> HIDE DEF A, k
    <3>3. s[k] \in A
      BY <3>1, ElementOfSeq
    <3> QED BY <3>2, <3>3 DEF A, k
  <2> QED BY <2>2, <2>3, <2>4, <2>5
<1>5. Len(s) \in S
  BY <1>2, <1>3, <1>4, NatSetInduction
<1>6. f[Len(s)] \in P
  BY <1>2, <1>5 DEF S
<1>7. f[Len(s)] \in Seq(T)
  BY <1>1, <1>2 DEF Concatenates
<1> QED BY <1>2, <1>6, <1>7

\* The flattening of nothing, and of one sequence.
LEMMA FlattenNone == FlattenSeq(<<>>) = <<>>
BY DEF FlattenSeq

LEMMA FlattenOne ==
  ASSUME NEW T, NEW x \in Seq(T)
  PROVE  FlattenSeq(<<x>>) = x
<1> DEFINE S == Seq(T)
<1>1. <<x>> \in Seq(S) /\ Len(<<x>>) = 1 /\ <<x>>[1] = x
  OBVIOUS
<1> HIDE DEF S
<1>2. PICK f : Concatenates(f, <<x>>, T)
  BY <1>1, ConcatenationExists DEF S
<1>3. FlattenSeq(<<x>>) = f[1]
  BY <1>1, <1>2, FlattenConcatenates DEF S
<1>4. f[1] = <<>> \o x
  <2>1. 1 \in 1..Len(<<x>>) /\ 1 - 1 = 0
    BY <1>1
  <2>2. f[1] = f[0] \o <<x>>[1] /\ f[0] = <<>>
    BY <1>2, <2>1 DEF Concatenates
  <2> QED BY <1>1, <2>2
<1> QED BY <1>3, <1>4, ConcatEmptySeq

\* What a part holds, the whole holds.
LEMMA FlattenElements ==
  ASSUME NEW T, NEW s \in Seq(Seq(T)), NEW i \in 1..Len(s), NEW x, x \in ToSet(s[i])
  PROVE  x \in ToSet(FlattenSeq(s))
<1> DEFINE P == {t \in Seq(T) : \E k \in 1..Len(t) : t[k] = x}
<1>1. PICK f : Concatenates(f, s, T)
  BY ConcatenationExists
<1>2. FlattenSeq(s) = f[Len(s)] /\ Len(s) \in Nat
  BY <1>1, FlattenConcatenates
<1>3. \A t \in Seq(T) : DOMAIN t = 1..Len(t)
  OBVIOUS
<1>4. s[i] \in Seq(T)
  <2> DEFINE A == Seq(T)
  <2>1. s \in Seq(A)
    OBVIOUS
  <2> HIDE DEF A
  <2>2. s[i] \in A
    BY <2>1, ElementOfSeq
  <2> QED BY <2>2 DEF A
<1>5. s[i] \in P
  BY <1>3, <1>4 DEF ToSet
<1>6. i \in 0..Len(s) /\ i - 1 \in 0..Len(s) /\ Len(s) \in 0..Len(s)
  BY <1>2
<1>7. f[i - 1] \in Seq(T) /\ f[i] = f[i - 1] \o s[i] /\ f[Len(s)] \in Seq(T)
  <2>1. \A j \in 0..Len(s) : f[j] \in Seq(T)
    BY <1>1, Zenon DEF Concatenates
  <2>2. f[i] = f[i - 1] \o s[i]
    BY <1>1, Zenon DEF Concatenates
  <2> QED BY <1>6, <2>1, <2>2, Zenon
<1>8. ASSUME NEW a \in Seq(T), NEW b \in Seq(T), a \in P \/ b \in P
      PROVE  a \o b \in P
  <2>1. /\ a \o b \in Seq(T) /\ Len(a) \in Nat /\ Len(b) \in Nat
        /\ \A p \in 1..Len(a) : p \in 1..Len(a \o b) /\ (a \o b)[p] = a[p]
        /\ \A k \in 1..Len(b) : Len(a) + k \in 1..Len(a \o b) /\ (a \o b)[Len(a) + k] = b[k]
    BY ConcatElements
  <2>2. \E k \in 1..Len(a \o b) : (a \o b)[k] = x
    BY <1>8, <2>1
  <2> QED BY <2>1, <2>2
<1>9. \A a \in P \cap Seq(T), b \in Seq(T) : a \o b \in P
  BY <1>8
<1>10. f[i] \in P
  BY <1>4, <1>5, <1>7, <1>8
<1> HIDE DEF P
<1>11. f[Len(s)] \in P
  BY <1>1, <1>6, <1>9, <1>10, ConcatenationKeeps
<1> QED BY <1>2, <1>3, <1>7, <1>11 DEF P, ToSet

LEMMA PartIn ==
  ASSUME NEW T, NEW s \in Seq(Seq(T)), NEW i \in 1..Len(s)
  PROVE  s[i] \in Seq(T)
<1> DEFINE A == Seq(T)
<1>1. s \in Seq(A)
  OBVIOUS
<1> HIDE DEF A
<1>2. s[i] \in A
  BY <1>1, ElementOfSeq
<1> QED BY <1>2 DEF A

LEMMA Associative ==
  ASSUME NEW T
  PROVE  \A p, q, r \in Seq(T) : p \o (q \o r) = (p \o q) \o r
BY ConcatAssociative

\* Flattening a list of lists that is itself in two parts.
LEMMA FlattenConcat ==
  ASSUME NEW T, NEW x \in Seq(Seq(T)), NEW y \in Seq(Seq(T))
  PROVE  FlattenSeq(x \o y) = FlattenSeq(x) \o FlattenSeq(y)
<1>0. \A p, q, r \in Seq(T) : p \o (q \o r) = (p \o q) \o r
  BY Associative, SMT
<1> DEFINE S == Seq(T)
           u == x \o y
           a == Len(x)
           b == Len(y)
<1>1. /\ u \in Seq(S) /\ Len(u) = a + b /\ a \in Nat /\ b \in Nat
      /\ (\A p \in 1..a : u[p] = x[p]) /\ (\A k \in 1..b : u[a + k] = y[k])
  <2> HIDE DEF S
  <2>1. x \in Seq(S) /\ y \in Seq(S)
    BY DEF S
  <2> QED BY <2>1, ConcatElements
<1>2. PICK g : Concatenates(g, x, T)
  BY ConcatenationExists
<1>3. PICK h : Concatenates(h, y, T)
  BY ConcatenationExists
<1>4. /\ g \in [0..a -> Seq(T)] /\ g[0] = <<>> /\ \A i \in 1..a : g[i] = g[i - 1] \o x[i]
  BY <1>2 DEF Concatenates
<1>5. /\ h \in [0..b -> Seq(T)] /\ h[0] = <<>> /\ \A i \in 1..b : h[i] = h[i - 1] \o y[i]
  BY <1>3 DEF Concatenates
<1>6. FlattenSeq(x) = g[a] /\ FlattenSeq(y) = h[b]
  BY <1>2, <1>3, FlattenConcatenates
<1> DEFINE f == [i \in 0..(a + b) |-> IF i <= a THEN g[i] ELSE g[a] \o h[i - a]]
<1> HIDE DEF u, a, b
<1>7. g[a] \in Seq(T)
  BY <1>1, <1>4
<1>8. \A i \in 0..b : h[i] \in Seq(T) /\ g[a] \o h[i] \in Seq(T)
  <2> TAKE i \in 0..b
  <2>1. h[i] \in Seq(T)
    BY <1>5
  <2> QED BY <1>7, <2>1, ConcatProperties
<1>9. \A i \in 0..(a + b) : f[i] \in Seq(T)
  <2> TAKE i \in 0..(a + b)
  <2>1. CASE i <= a
    <3>1. i \in 0..a
      BY <1>1, <2>1
    <3> QED BY <1>4, <2>1, <3>1
  <2>2. CASE ~(i <= a)
    <3>1. i - a \in 0..b
      BY <1>1, <2>2
    <3> QED BY <1>8, <2>2, <3>1
  <2> QED BY <2>1, <2>2
<1>10. f[0] = <<>> /\ f \in [0..(a + b) -> Seq(T)]
  <2>1. 0 \in 0..(a + b) /\ 0 <= a
    BY <1>1
  <2> QED BY <1>4, <1>9, <2>1
<1>11. ASSUME NEW i \in 1..(a + b) PROVE f[i] = f[i - 1] \o u[i]
  <2>1. i \in 0..(a + b) /\ i - 1 \in 0..(a + b)
    BY <1>1
  <2>2. CASE i <= a
    <3>1. i \in 1..a /\ i - 1 <= a
      BY <1>1, <2>2
    <3>2. f[i] = g[i] /\ f[i - 1] = g[i - 1] /\ u[i] = x[i]
      BY <1>1, <2>1, <2>2, <3>1
    <3> QED BY <1>4, <3>1, <3>2
  <2>3. CASE ~(i <= a)
    <3> DEFINE k == i - a
    <3>1. k \in 1..b /\ i = a + k /\ k - 1 \in 0..b /\ k \in 0..b
      BY <1>1, <2>3
    <3>2. f[i] = g[a] \o h[k] /\ u[i] = y[k]
      BY <1>1, <2>1, <2>3, <3>1
    <3>3. f[i - 1] = g[a] \o h[k - 1]
      <4>1. CASE k = 1
        <5>1. i - 1 = a /\ h[k - 1] = <<>>
          BY <1>1, <1>5, <3>1, <4>1
        <5>2. f[i - 1] = g[a]
          BY <1>1, <2>1, <5>1
        <5>3. g[a] \o <<>> = g[a]
          BY <1>7, ConcatEmptySeq
        <5> QED BY <5>1, <5>2, <5>3
      <4>2. CASE k # 1
        <5>1. ~(i - 1 <= a) /\ i - 1 - a = k - 1
          BY <1>1, <3>1, <4>2
        <5> QED BY <2>1, <5>1
      <4> QED BY <4>1, <4>2
    <3>4. y[k] \in Seq(T)
      BY <3>1, PartIn DEF b
    <3> HIDE DEF k, f
    <3>5. h[k] = h[k - 1] \o y[k] /\ h[k - 1] \in Seq(T)
      BY <1>5, <3>1
    <3>6. g[a] \o (h[k - 1] \o y[k]) = (g[a] \o h[k - 1]) \o y[k]
      BY <1>0, <1>7, <3>4, <3>5, Zenon
    <3> QED BY <3>2, <3>3, <3>5, <3>6
  <2> QED BY <2>2, <2>3
<1> HIDE DEF f
<1>12. Concatenates(f, u, T)
  BY <1>1, <1>10, <1>11, Zenon DEF Concatenates
<1>13. FlattenSeq(u) = f[a + b]
  <2>1. u \in Seq(Seq(T))
    BY <1>1
  <2> QED BY <1>1, <1>12, <2>1, FlattenConcatenates
<1>14. f[a + b] = g[a] \o h[b]
  <2>1. a + b \in 0..(a + b)
    BY <1>1
  <2>2. CASE b = 0
    <3>1. g[a] \o <<>> = g[a]
      BY <1>7, ConcatEmptySeq
    <3>2. f[a + b] = g[a] /\ h[b] = <<>>
      BY <1>1, <1>5, <2>1, <2>2 DEF f
    <3> QED BY <3>1, <3>2
  <2>3. CASE b # 0
    <3>1. ~(a + b <= a) /\ a + b - a = b
      BY <1>1, <2>3
    <3> DEFINE e == a + b
    <3>2. e \in 0..(a + b) /\ ~(e <= a) /\ e - a = b
      BY <1>1, <2>1, <3>1
    <3> HIDE DEF e
    <3>3. f[e] = g[a] \o h[e - a]
      BY <3>2 DEF f
    <3> QED BY <3>2, <3>3 DEF e
  <2> QED BY <2>2, <2>3
<1> QED BY <1>6, <1>13, <1>14 DEF u

LEMMA FlattenAppend ==
  ASSUME NEW T, NEW x \in Seq(Seq(T)), NEW t \in Seq(T)
  PROVE  FlattenSeq(Append(x, t)) = FlattenSeq(x) \o t
<1> DEFINE S == Seq(T)
<1>1. <<t>> \in Seq(S) /\ Append(x, t) = x \o <<t>>
  <2>1. x \in Seq(S) /\ t \in S
    OBVIOUS
  <2> HIDE DEF S
  <2> QED BY <2>1, AppendIsConcat
<1>2. FlattenSeq(x \o <<t>>) = FlattenSeq(x) \o FlattenSeq(<<t>>)
  BY <1>1, FlattenConcat
<1> QED BY <1>1, <1>2, FlattenOne

\* Where the elements of one part are in the whole.
LEMMA PartAt ==
  ASSUME NEW T, NEW s \in Seq(Seq(T)), NEW f, Concatenates(f, s, T),
         NEW i \in 1..Len(s), NEW j \in 1..Len(s[i])
  PROVE  /\ Len(f[i - 1]) + j \in 1..Len(f[Len(s)])
         /\ f[Len(s)][Len(f[i - 1]) + j] = s[i][j]
<1> DEFINE p == Len(f[i - 1]) + j
           P == {t \in Seq(T) : p <= Len(t) /\ t[p] = s[i][j]}
<1>1. s[i] \in Seq(T)
  BY PartIn
<1>2. /\ i \in 0..Len(s) /\ i - 1 \in 0..Len(s) /\ Len(s) \in 0..Len(s)
  OBVIOUS
<1>3. /\ f[i - 1] \in Seq(T) /\ f[Len(s)] \in Seq(T)
      /\ f[i] = f[i - 1] \o s[i]
  <2>1. \A k \in 0..Len(s) : f[k] \in Seq(T)
    BY Zenon DEF Concatenates
  <2>2. f[i] = f[i - 1] \o s[i]
    BY Zenon DEF Concatenates
  <2> QED BY <1>2, <2>1, <2>2, Zenon
<1>4. p \in Nat \ {0}
  <2>1. Len(f[i - 1]) \in Nat /\ Len(s[i]) \in Nat
    BY <1>1, <1>3
  <2> QED BY <2>1
<1>5. f[i] \in P
  <2> DEFINE a == f[i - 1]
             b == s[i]
  <2>1. a \in Seq(T) /\ b \in Seq(T) /\ j \in 1..Len(b)
    BY <1>1, <1>3
  <2>2. /\ a \o b \in Seq(T) /\ Len(a \o b) = Len(a) + Len(b) /\ Len(a) \in Nat /\ Len(b) \in Nat
        /\ (a \o b)[Len(a) + j] = b[j]
    <3> HIDE DEF a, b, p
    <3>1. a \in Seq(T) /\ b \in Seq(T)
      BY <2>1
    <3>2. /\ a \o b \in Seq(T) /\ Len(a \o b) = Len(a) + Len(b) /\ Len(a) \in Nat /\ Len(b) \in Nat
          /\ \A k \in 1..Len(b) : (a \o b)[Len(a) + k] = b[k]
      BY <3>1, ConcatElements
    <3> QED BY <2>1, <3>2
  <2>3. p <= Len(a \o b)
    BY <2>1, <2>2
  <2> QED BY <1>3, <2>2, <2>3
<1>6. ASSUME NEW a \in P \cap Seq(T), NEW b \in Seq(T) PROVE a \o b \in P
  <2>1. /\ a \o b \in Seq(T) /\ Len(a \o b) = Len(a) + Len(b) /\ Len(a) \in Nat /\ Len(b) \in Nat
        /\ \A k \in 1..Len(a) : (a \o b)[k] = a[k]
    BY ConcatElements
  <2> HIDE DEF p
  <2>2. p \in 1..Len(a) /\ a[p] = s[i][j]
    BY <1>4, <2>1
  <2>3. (a \o b)[p] = s[i][j] /\ p <= Len(a \o b)
    BY <2>1, <2>2
  <2> QED BY <2>1, <2>3
<1>7. \A a \in P \cap Seq(T), b \in Seq(T) : a \o b \in P
  BY <1>6
<1> HIDE DEF P
<1>8. f[Len(s)] \in P
  BY <1>2, <1>5, <1>7, ConcatenationKeeps
<1> HIDE DEF p
<1>9. f[Len(s)] \in Seq(T) /\ p <= Len(f[Len(s)]) /\ f[Len(s)][p] = s[i][j]
  BY <1>8 DEF P
<1>10. p \in 1..Len(f[Len(s)])
  BY <1>4, <1>9
<1> QED BY <1>9, <1>10 DEF p

\* What is around a part of the flattened list.
Borders(x, f, v, k) ==
  /\ Len(f[k - 1]) \in Nat /\ Len(f[k]) = Len(f[k - 1]) + Len(x[k]) /\ Len(f[k]) <= Len(v)
  /\ \A j \in 1..Len(x[k]) : v[Len(f[k - 1]) + j] = x[k][j]
  /\ k = 1 => Len(f[k - 1]) = 0
  /\ k > 1 => Len(f[k - 1]) >= 1 /\ v[Len(f[k - 1])] = x[k - 1][Len(x[k - 1])]
  /\ k = Len(x) => Len(f[k]) = Len(v)
  /\ k < Len(x) => v[Len(f[k]) + 1] = x[k + 1][1]

LEMMA PartBorders ==
  ASSUME NEW T, NEW x \in Seq(Seq(T)), NEW f, Concatenates(f, x, T),
         \A k \in 1..Len(x) : Len(x[k]) >= 1, NEW k \in 1..Len(x)
  PROVE  Borders(x, f, f[Len(x)], k)
<1> DEFINE n == Len(x)
           v == f[n]
<1>1. n \in Nat
  OBVIOUS
<1>2. ASSUME NEW i \in 1..n
      PROVE  /\ Len(f[i - 1]) \in Nat /\ Len(f[i]) = Len(f[i - 1]) + Len(x[i]) /\ Len(f[i]) <= Len(v)
             /\ Len(x[i]) \in Nat
             /\ \A j \in 1..Len(x[i]) : v[Len(f[i - 1]) + j] = x[i][j]
  <2>1. f[i - 1] \in Seq(T) /\ f[i] = f[i - 1] \o x[i]
    <3>1. i - 1 \in 0..n
      BY <1>1
    <3> QED BY <3>1 DEF Concatenates
  <2>2. x[i] \in Seq(T)
    BY PartIn
  <2>3. Len(f[i]) = Len(f[i - 1]) + Len(x[i]) /\ Len(f[i - 1]) \in Nat /\ Len(x[i]) \in Nat
    <3> DEFINE a == f[i - 1]
               b == x[i]
    <3>1. a \in Seq(T) /\ b \in Seq(T) /\ f[i] = a \o b
      BY <2>1, <2>2
    <3> HIDE DEF a, b
    <3>2. Len(a \o b) = Len(a) + Len(b) /\ Len(a) \in Nat /\ Len(b) \in Nat
      BY <3>1, ConcatElements
    <3>3. Len(f[i]) = Len(a) + Len(b) /\ Len(a) \in Nat /\ Len(b) \in Nat
      BY <3>1, <3>2
    <3> QED BY <3>3 DEF a, b
  <2>4. Len(f[i]) <= Len(v)
    <3>1. i \in 0..n /\ n \in i..n
      BY <1>1
    <3> QED BY <3>1, ConcatenationGrows
  <2>5. \A j \in 1..Len(x[i]) : v[Len(f[i - 1]) + j] = x[i][j]
    BY PartAt
  <2> QED BY <2>3, <2>4, <2>5
<1>3. f[0] = <<>> /\ Len(<<>>) = 0
  BY DEF Concatenates
<1>4. \A i \in 1..n : Len(x[i]) >= 1
  OBVIOUS
<1> HIDE DEF n, v
<1>5. k = 1 => Len(f[k - 1]) = 0
  <2>1. 1 - 1 = 0
    OBVIOUS
  <2> QED BY <1>3, <2>1
<1>6. ASSUME k > 1 PROVE Len(f[k - 1]) >= 1 /\ v[Len(f[k - 1])] = x[k - 1][Len(x[k - 1])]
  <2> DEFINE i == k - 1
  <2>1. i \in 1..n
    BY <1>1, <1>6 DEF n
  <2> HIDE DEF i
  <2>2. /\ Len(x[i]) \in Nat /\ Len(f[i]) = Len(f[i - 1]) + Len(x[i]) /\ Len(f[i - 1]) \in Nat
        /\ \A j \in 1..Len(x[i]) : v[Len(f[i - 1]) + j] = x[i][j]
    BY <1>2, <2>1, Zenon
  <2>3. Len(x[i]) >= 1
    BY <1>4, <2>1, Zenon
  <2> DEFINE a == Len(f[i - 1])
             b == Len(x[i])
             c == Len(f[i])
  <2>4. a \in Nat /\ b \in Nat /\ b >= 1 /\ c = a + b /\ \A j \in 1..b : v[a + j] = x[i][j]
    BY <2>2, <2>3
  <2> HIDE DEF a, b, c
  <2>5. c >= 1 /\ v[c] = x[i][b]
    BY <2>4
  <2>6. Len(f[i]) >= 1 /\ v[Len(f[i])] = x[i][Len(x[i])]
    BY <2>5 DEF b, c
  <2> QED BY <2>6 DEF i
<1>7. k = n => Len(f[k]) = Len(v)
  BY DEF v
<1>8. ASSUME k < n PROVE v[Len(f[k]) + 1] = x[k + 1][1]
  <2> DEFINE i == k + 1
  <2>1. i \in 1..n /\ i - 1 = k
    BY <1>1, <1>8 DEF n
  <2> HIDE DEF i
  <2>2. 1 \in 1..Len(x[i])
    BY <1>2, <1>4, <2>1
  <2>3. v[Len(f[i - 1]) + 1] = x[i][1]
    BY <1>2, <2>1, <2>2
  <2>4. v[Len(f[k]) + 1] = x[i][1]
    BY <2>1, <2>3
  <2> QED BY <2>4 DEF i
<1>9. k \in 1..n
  BY DEF n
<1>10. Borders(x, f, v, k)
  BY <1>2, <1>5, <1>6, <1>7, <1>8, <1>9 DEF Borders, n
<1> QED BY <1>10 DEF v, n

\* The concatenation of single elements.
LEMMA FlattenSingles ==
  ASSUME NEW T, NEW m \in Seq(T)
  PROVE  /\ [k \in 1..Len(m) |-> <<m[k]>>] \in Seq(Seq(T))
         /\ FlattenSeq([k \in 1..Len(m) |-> <<m[k]>>]) = m
<1> DEFINE A == Seq(T)
           n == Len(m)
           z == [k \in 1..n |-> <<m[k]>>]
           g == [k \in 0..n |-> SubSeq(m, 1, k)]
<1>1. n \in Nat /\ \A k \in 1..n : m[k] \in T /\ <<m[k]>> \in A
  OBVIOUS
<1>2. /\ SubSeq(m, 1, 0) = <<>> /\ SubSeq(m, 1, n) = m
      /\ \A k \in 0..n : SubSeq(m, 1, k) \in A
      /\ \A k \in 0..(n - 1) : SubSeq(m, 1, k + 1) = Append(SubSeq(m, 1, k), m[k + 1])
  BY PrefixFacts
<1> HIDE DEF A, n
<1>3. z \in Seq(A) /\ Len(z) = n
  BY <1>1
<1>4. g \in [0..n -> A] /\ g[0] = <<>> /\ g[n] = m
  BY <1>1, <1>2
<1>5. ASSUME NEW k \in 1..n PROVE g[k] = g[k - 1] \o z[k]
  <2> DEFINE i == k - 1
  <2>1. i \in 0..(n - 1) /\ i + 1 = k /\ i \in 0..n /\ k \in 0..n
    BY <1>1
  <2>2. SubSeq(m, 1, k) = Append(SubSeq(m, 1, i), m[k])
    BY <1>2, <2>1
  <2>3. SubSeq(m, 1, i) \in Seq(T) /\ m[k] \in T
    BY <1>1, <1>2, <2>1 DEF A
  <2>4. Append(SubSeq(m, 1, i), m[k]) = SubSeq(m, 1, i) \o <<m[k]>>
    BY <2>3, AppendIsConcat
  <2>5. g[k] = SubSeq(m, 1, k) /\ g[k - 1] = SubSeq(m, 1, i) /\ z[k] = <<m[k]>>
    BY <2>1
  <2> QED BY <2>2, <2>4, <2>5
<1> HIDE DEF z, g
<1>6. Concatenates(g, z, T)
  BY <1>3, <1>4, <1>5 DEF Concatenates, A
<1>7. z \in Seq(Seq(T))
  BY <1>3 DEF A
<1>8. FlattenSeq(z) = g[Len(z)]
  BY <1>6, <1>7, FlattenConcatenates
<1>9. FlattenSeq(z) = m
  BY <1>3, <1>4, <1>8
<1> QED BY <1>7, <1>9 DEF z, n

\* Concatenation over the sequences of S is associative.
Reassociates(S) == \A p, q, r \in S : p \o (q \o r) = (p \o q) \o r

LEMMA Reassociating ==
  ASSUME NEW T
  PROVE  Reassociates(Seq(T))
BY Associative DEF Reassociates

\* y has a list for each element of the flattened x, and z for each part of x,
\* which has one or two elements: z is y put together by the parts.
Regroups(x, f, y, z) ==
  \A k \in 1..Len(x) :
    \/ Len(x[k]) = 1 /\ z[k] = y[Len(f[k - 1]) + 1]
    \/ Len(x[k]) = 2 /\ z[k] = y[Len(f[k - 1]) + 1] \o y[Len(f[k - 1]) + 2]

LEMMA Regrouped ==
  ASSUME NEW T, NEW x \in Seq(Seq(T)), NEW f, Concatenates(f, x, T),
         NEW U, NEW y \in Seq(Seq(U)), Len(y) = Len(f[Len(x)]),
         NEW z \in Seq(Seq(U)), Len(z) = Len(x), Regroups(x, f, y, z)
  PROVE  FlattenSeq(y) = FlattenSeq(z)
<1>1. PICK g : Concatenates(g, y, U)
  BY ConcatenationExists
<1>2. PICK h : Concatenates(h, z, U)
  BY ConcatenationExists
<1>3. FlattenSeq(y) = g[Len(y)] /\ FlattenSeq(z) = h[Len(z)]
  BY <1>1, <1>2, FlattenConcatenates
<1> DEFINE n == Len(x)
           S == {k \in Nat : k <= n => g[Len(f[k])] = h[k]}
<1>4. n \in Nat /\ Len(y) \in Nat /\ Len(z) = n
  OBVIOUS
<1>5. /\ f \in [0..n -> Seq(T)] /\ f[0] = <<>> /\ \A k \in 1..n : f[k] = f[k - 1] \o x[k]
      /\ g \in [0..Len(y) -> Seq(U)] /\ g[0] = <<>> /\ \A k \in 1..Len(y) : g[k] = g[k - 1] \o y[k]
      /\ h \in [0..n -> Seq(U)] /\ h[0] = <<>> /\ \A k \in 1..n : h[k] = h[k - 1] \o z[k]
  BY <1>1, <1>2, <1>4 DEF Concatenates
<1>7. ASSUME NEW k \in 1..n
      PROVE  /\ Len(f[k]) = Len(f[k - 1]) + Len(x[k]) /\ Len(f[k - 1]) \in Nat
             /\ Len(f[k]) <= Len(y)
  <2>1. f[k - 1] \in Seq(T) /\ f[k] = f[k - 1] \o x[k]
    <3>1. k - 1 \in 0..n
      BY <1>4
    <3> QED BY <1>5, <3>1
  <2>2. x[k] \in Seq(T)
    BY PartIn
  <2>3. Len(f[k]) = Len(f[k - 1]) + Len(x[k]) /\ Len(f[k - 1]) \in Nat
    BY <2>1, <2>2, ConcatElements
  <2>4. Len(f[k]) <= Len(f[n])
    <3>1. k \in 0..n /\ n \in k..n
      BY <1>4
    <3> QED BY <3>1, ConcatenationGrows
  <2> QED BY <2>3, <2>4
<1> HIDE DEF n
<1>8. 0 \in S
  <2>1. Len(f[0]) = 0
    BY <1>5
  <2> QED BY <1>5, <2>1
<1>9. ASSUME NEW k \in Nat, k \in S PROVE k + 1 \in S
  <2> SUFFICES ASSUME k + 1 <= n PROVE g[Len(f[k + 1])] = h[k + 1]
    OBVIOUS
  <2> DEFINE i == k + 1
             p == Len(f[k])
  <2>1. i \in 1..n /\ i - 1 = k /\ k \in 0..n
    BY <1>4
  <2>2. g[p] = h[k]
    BY <1>9, <2>1
  <2> HIDE DEF i, S
  <2>3. Len(f[i]) = p + Len(x[i]) /\ p \in Nat /\ Len(f[i]) <= Len(y)
    BY <1>7, <2>1
  <2>4. \/ Len(x[i]) = 1 /\ z[i] = y[p + 1]
        \/ Len(x[i]) = 2 /\ z[i] = y[p + 1] \o y[p + 2]
    BY <2>1 DEF Regroups, n
  <2>5. h[i] = h[k] \o z[i] /\ h[k] \in Seq(U)
    BY <1>5, <2>1
  <2> HIDE DEF p
  <2>6. CASE Len(x[i]) = 1 /\ z[i] = y[p + 1]
    <3> DEFINE j == p + 1
    <3>1. j \in 1..Len(y) /\ j - 1 = p /\ Len(f[i]) = j
      BY <1>4, <2>3, <2>6
    <3> HIDE DEF j
    <3>2. g[j] = g[p] \o y[j]
      BY <1>5, <3>1
    <3>3. z[i] = y[j]
      BY <2>6 DEF j
    <3>4. g[Len(f[i])] = h[i]
      BY <2>2, <2>5, <3>1, <3>2, <3>3
    <3> QED BY <3>4 DEF i
  <2>7. CASE Len(x[i]) = 2 /\ z[i] = y[p + 1] \o y[p + 2]
    <3> DEFINE j == p + 1
               l == p + 2
    <3>1. j \in 1..Len(y) /\ j - 1 = p /\ l \in 1..Len(y) /\ l - 1 = j /\ Len(f[i]) = l
      BY <1>4, <2>3, <2>7
    <3>2. z[i] = y[j] \o y[l]
      BY <2>7
    <3> HIDE DEF j, l
    <3>3. g[j] = g[p] \o y[j] /\ g[l] = g[j] \o y[l]
      BY <1>5, <3>1
    <3>4. y[j] \in Seq(U) /\ y[l] \in Seq(U)
      BY <3>1, PartIn
    <3>5. h[k] \o (y[j] \o y[l]) = (h[k] \o y[j]) \o y[l]
      <4> DEFINE S3 == Seq(U)
                 p3 == h[k]
                 q3 == y[j]
                 r3 == y[l]
      <4>1. p3 \in S3 /\ q3 \in S3 /\ r3 \in S3
        BY <2>5, <3>4
      <4>2. Reassociates(S3)
        BY Reassociating, Zenon
      <4> HIDE DEF p3, q3, r3, S3
      <4>3. p3 \o (q3 \o r3) = (p3 \o q3) \o r3
        BY <4>1, <4>2, Zenon DEF Reassociates
      <4> QED BY <4>3 DEF p3, q3, r3
    <3>6. g[Len(f[i])] = h[i]
      BY <2>2, <2>5, <3>1, <3>2, <3>3, <3>5
    <3> QED BY <3>6 DEF i
  <2> QED BY <2>4, <2>6, <2>7
<1> HIDE DEF S
<1>10. n \in S
  BY <1>4, <1>8, <1>9, NatSetInduction
<1>11. g[Len(f[n])] = h[n]
  BY <1>4, <1>10 DEF S
<1> QED BY <1>3, <1>4, <1>11 DEF n

\* g starts at base and goes on by step: a function defined by recursion over
\* the numbers up to n.
Steps(step, n, T) == \A i \in 1..n : step[i] \in [T -> T]
Iterates(g, T, n, base, step) ==
  g \in [0..n -> T] /\ g[0] = base /\ \A i \in 1..n : g[i] = step[i][g[i - 1]]

LEMMA RecursionExists ==
  ASSUME NEW T, NEW n \in Nat, NEW base \in T, NEW step, Steps(step, n, T)
  PROVE  \E g : Iterates(g, T, n, base, step)
<1> DEFINE Upto(m) == \E g \in [0..m -> T] : g[0] = base /\ \A i \in 1..m : g[i] = step[i][g[i - 1]]
           S == {m \in Nat : m <= n => Upto(m)}
<1>1. 0 \in S
  <2> DEFINE g == [i \in 0..0 |-> base]
  <2>1. g \in [0..0 -> T] /\ g[0] = base /\ \A i \in 1..0 : g[i] = step[i][g[i - 1]]
    OBVIOUS
  <2> HIDE DEF g
  <2>2. Upto(0)
    BY <2>1
  <2> QED BY <2>2
<1>2. ASSUME NEW m \in Nat, m \in S PROVE m + 1 \in S
  <2> HIDE DEF Upto
  <2> SUFFICES ASSUME m + 1 <= n PROVE Upto(m + 1)
    BY DEF S
  <2>0. Upto(m)
    BY <1>2 DEF S
  <2>1. PICK f \in [0..m -> T] : f[0] = base /\ \A i \in 1..m : f[i] = step[i][f[i - 1]]
    BY <2>0 DEF Upto
  <2> DEFINE g == [i \in 0..(m + 1) |-> IF i <= m THEN f[i] ELSE step[m + 1][f[m]]]
  <2>2. step[m + 1][f[m]] \in T
    <3>1. m + 1 \in 1..n /\ f[m] \in T
      OBVIOUS
    <3> QED BY <3>1 DEF Steps
  <2>3. g \in [0..(m + 1) -> T] /\ g[0] = base
    BY <2>1, <2>2
  <2>4. ASSUME NEW i \in 1..(m + 1) PROVE g[i] = step[i][g[i - 1]]
    <3>1. CASE i = m + 1
      BY <3>1
    <3>2. CASE i # m + 1
      <4>1. i \in 1..m /\ i - 1 \in 0..m
        BY <3>2
      <4> QED BY <2>1, <4>1
    <3> QED BY <3>1, <3>2
  <2> HIDE DEF g
  <2> QED BY <2>3, <2>4 DEF Upto
<1> HIDE DEF S
<1>3. n \in S
  BY <1>1, <1>2, NatSetInduction
<1> HIDE DEF Upto
<1>4. Upto(n)
  BY <1>3 DEF S
<1> QED BY <1>4, Zenon DEF Upto, Iterates

-----------------------------------------------------------------------------
(* Finite sets. *)

\* SetToSeq lists every element of a finite set once.
LEMMA SetToSeqIs ==
  ASSUME NEW S, IsFiniteSet(S)
  PROVE  /\ SetToSeq(S) \in Seq(S)
         /\ \A x \in S : \E i \in 1..Len(SetToSeq(S)) : SetToSeq(S)[i] = x
         /\ \A i, j \in 1..Len(SetToSeq(S)) : SetToSeq(S)[i] = SetToSeq(S)[j] => i = j
<1> DEFINE n == Cardinality(S)
           f == SetToSeq(S)
<1>1. n \in Nat /\ Bijection(1..n, S) # {}
  BY FS_CardinalityType DEF ExistsBijection
<1>2. \E g \in [1..n -> S] : IsInjective(g)
  BY <1>1 DEF Bijection, Injection
<1>3. f \in [1..n -> S] /\ IsInjective(f)
  BY <1>2, Zenon DEF SetToSeq
<1> HIDE DEF f
<1>4. f \in Injection(1..n, S)
  BY <1>3 DEF Injection
<1>5. Cardinality(1..n) = n
  BY <1>1, FS_Interval
<1>6. f \in Surjection(1..n, S)
  BY <1>4, <1>5, FS_Injection
<1>7. f \in Seq(S) /\ Len(f) = n
  BY <1>1, <1>3
<1>8. \A i, j \in 1..n : f[i] = f[j] => i = j
  BY <1>3 DEF IsInjective
<1>9. \A x \in S : \E i \in 1..n : f[i] = x
  BY <1>6 DEF Surjection
<1> QED BY <1>7, <1>8, <1>9 DEF f

\* The values of a function on a finite set are finitely many.
LEMMA FiniteImage ==
  ASSUME NEW f, IsFiniteSet(DOMAIN f), NEW S, \A y \in S : \E x \in DOMAIN f : y = f[x]
  PROVE  IsFiniteSet(S)
<1> DEFINE D == DOMAIN f
           R == {f[x] : x \in D}
           g == [x \in D |-> f[x]]
<1>1. g \in Surjection(D, R)
  BY DEF Surjection
<1> HIDE DEF g
<1>2. IsFiniteSet(R)
  BY <1>1, FS_Surjection
<1>3. S \in SUBSET R
  OBVIOUS
<1> HIDE DEF R
<1> QED BY <1>2, <1>3, FS_Subset

-----------------------------------------------------------------------------
(* Sequences without repetition. *)

NoRepeats(s) == \A p, q \in 1..Len(s) : s[p] = s[q] => p = q

\* There are as many elements as places.
LEMMA NoRepeatsCounted ==
  ASSUME NEW T, NEW s \in Seq(T), NoRepeats(s)
  PROVE  Cardinality(ToSet(s)) = Len(s)
<1> DEFINE n == Len(s)
<1>1. n \in Nat /\ DOMAIN s = 1..n /\ s \in [1..n -> T]
  OBVIOUS
<1>2. ToSet(s) = {s[i] : i \in 1..n}
  BY <1>1 DEF ToSet
<1> DEFINE R == {s[i] : i \in 1..n}
<1>3. s \in [1..n -> R]
  BY <1>1
<1>4. s \in Surjection(1..n, R) /\ s \in Injection(1..n, R)
  BY <1>3 DEF NoRepeats, Injection, Surjection, IsInjective
<1> HIDE DEF R
<1>5. IsFiniteSet(1..n) /\ Cardinality(1..n) = n
  BY <1>1, FS_Interval
<1>6. Cardinality(R) = n
  <2>1. ExistsBijection(1..n, R)
    BY <1>4 DEF Bijection, ExistsBijection
  <2> HIDE DEF n
  <2> QED BY <1>5, <2>1, FS_Bijection
<1> QED BY <1>2, <1>6 DEF R

LEMMA NoRepeatsConcat ==
  ASSUME NEW T, NEW a \in Seq(T), NEW b \in Seq(T), NoRepeats(a), NoRepeats(b),
         \A i \in 1..Len(a), j \in 1..Len(b) : a[i] # b[j]
  PROVE  NoRepeats(a \o b)
<1> DEFINE c == a \o b
           m == Len(a)
<1>1. /\ m \in Nat /\ Len(b) \in Nat /\ Len(c) = m + Len(b)
      /\ \A p \in 1..m : c[p] = a[p]
      /\ \A k \in 1..Len(b) : c[m + k] = b[k]
  BY ConcatElements
<1> HIDE DEF c, m
<1> SUFFICES ASSUME NEW p \in 1..Len(c), NEW q \in 1..Len(c), c[p] = c[q] PROVE p = q
  BY DEF NoRepeats, c
<1>2. \A x \in 1..Len(c) : x > m => x - m \in 1..Len(b) /\ c[x] = b[x - m]
  <2> TAKE x \in 1..Len(c)
  <2> HAVE x > m
  <2>1. x - m \in 1..Len(b) /\ m + (x - m) = x
    BY <1>1
  <2> QED BY <1>1, <2>1
<1>3. \A x \in 1..Len(c) : ~(x > m) => x \in 1..Len(a) /\ c[x] = a[x]
  BY <1>1 DEF m
<1>4. CASE p > m /\ q > m
  <2>1. p - m = q - m
    BY <1>2, <1>4 DEF NoRepeats
  <2> QED BY <1>1, <2>1
<1>5. CASE ~(p > m) /\ ~(q > m)
  BY <1>3, <1>5 DEF NoRepeats
<1>6. CASE p > m /\ ~(q > m)
  BY <1>2, <1>3, <1>6
<1>7. CASE ~(p > m) /\ q > m
  BY <1>2, <1>3, <1>7
<1> QED BY <1>4, <1>5, <1>6, <1>7

\* A last word after each of two lists tells the lists and the words apart.
LEMMA LastWord ==
  ASSUME NEW S, NEW m \in Seq(S), NEW a \in Seq(S), Len(a) = 1
  PROVE  /\ Len(m) \in Nat /\ Len(m \o a) = Len(m) + 1
         /\ \A i \in 1..Len(m) : (m \o a)[i] = m[i]
         /\ (m \o a)[Len(m) + 1] = a[1]
<1>1. /\ m \o a \in Seq(S) /\ Len(m \o a) = Len(m) + Len(a)
      /\ Len(m) \in Nat /\ Len(a) \in Nat
      /\ \A p \in 1..Len(m) : p \in 1..Len(m \o a) /\ (m \o a)[p] = m[p]
      /\ \A k \in 1..Len(a) : Len(m) + k \in 1..Len(m \o a) /\ (m \o a)[Len(m) + k] = a[k]
  <2>1. m \in Seq(S) /\ a \in Seq(S)
    OBVIOUS
  <2> QED BY ONLY <2>1, ConcatElements
<1>2. 1 \in 1..Len(a)
  OBVIOUS
<1> QED BY <1>1, <1>2

LEMMA LastApart ==
  ASSUME NEW S, NEW m \in Seq(S), NEW n \in Seq(S), NEW v \in S, NEW w \in S, m \o <<v>> = n \o <<w>>
  PROVE  m = n /\ v = w
<1> DEFINE a == <<v>>
           b == <<w>>
<1>1. a \in Seq(S) /\ b \in Seq(S) /\ Len(a) = 1 /\ Len(b) = 1 /\ a[1] = v /\ b[1] = w
  OBVIOUS
<1>2. m \o a = n \o b
  OBVIOUS
<1> HIDE DEF a, b
<1>3. /\ Len(m) \in Nat /\ Len(m \o a) = Len(m) + 1
      /\ \A i \in 1..Len(m) : (m \o a)[i] = m[i]
      /\ (m \o a)[Len(m) + 1] = v
  BY <1>1, LastWord
<1>4. /\ Len(n) \in Nat /\ Len(n \o b) = Len(n) + 1
      /\ \A i \in 1..Len(n) : (n \o b)[i] = n[i]
      /\ (n \o b)[Len(n) + 1] = w
  BY <1>1, LastWord
<1>5. Len(m) = Len(n)
  BY <1>2, <1>3, <1>4
<1>6. \A i \in 1..Len(m) : m[i] = n[i]
  BY <1>2, <1>3, <1>4, <1>5
<1>7. m = n
  BY <1>5, <1>6, SeqEqual
<1> QED BY <1>2, <1>3, <1>4, <1>5, <1>7

\* Lists that share nothing make a list without repetition.
LEMMA FlattenNoRepeats ==
  ASSUME NEW T, NEW s \in Seq(Seq(T)), \A i \in 1..Len(s) : NoRepeats(s[i]),
         \A i, j \in 1..Len(s) : \A p \in 1..Len(s[i]), q \in 1..Len(s[j]) : s[i][p] = s[j][q] => i = j
  PROVE  NoRepeats(FlattenSeq(s)) /\ FlattenSeq(s) \in Seq(T)
<1>1. PICK f : Concatenates(f, s, T)
  BY ConcatenationExists
<1>2. FlattenSeq(s) = f[Len(s)]
  BY <1>1, FlattenConcatenates
<1> DEFINE n == Len(s)
           From(i) == \A p \in 1..Len(f[i]) : \E k \in 1..i : \E q \in 1..Len(s[k]) : f[i][p] = s[k][q]
           S == {i \in Nat : i <= n => NoRepeats(f[i]) /\ From(i)}
<1>3. /\ n \in Nat /\ f \in [0..n -> Seq(T)] /\ f[0] = <<>> /\ \A i \in 1..n : f[i] = f[i - 1] \o s[i]
      /\ \A i \in 1..n : s[i] \in Seq(T)
  <2>1. n \in Nat
    OBVIOUS
  <2>2. f \in [0..n -> Seq(T)] /\ f[0] = <<>> /\ \A i \in 1..n : f[i] = f[i - 1] \o s[i]
    BY <1>1, Zenon DEF Concatenates
  <2>3. \A i \in 1..n : s[i] \in Seq(T)
    BY PartIn, Zenon
  <2> QED BY <2>1, <2>2, <2>3, Zenon
<1>4. 0 \in S
  BY <1>3 DEF NoRepeats
<1>5. ASSUME NEW i \in Nat, i \in S PROVE i + 1 \in S
  <2> SUFFICES ASSUME i + 1 <= n PROVE NoRepeats(f[i + 1]) /\ From(i + 1)
    OBVIOUS
  <2> DEFINE a == f[i]
             b == s[i + 1]
             c == f[i + 1]
  <2>1. i \in 0..n /\ i + 1 \in 1..n /\ i + 1 - 1 = i /\ i <= n
    BY <1>3
  <2>2. NoRepeats(a) /\ From(i)
    BY <1>5, <2>1
  <2>3. a \in Seq(T) /\ b \in Seq(T) /\ c = a \o b /\ NoRepeats(b)
    <3>1. NoRepeats(s[i + 1]) /\ s[i + 1] \in Seq(T) /\ f[i] \in Seq(T)
      BY <1>3, <2>1, Zenon
    <3> DEFINE j == i + 1
    <3>2. j \in 1..n /\ j - 1 = i
      BY <2>1
    <3> HIDE DEF j
    <3>3. f[j] = f[j - 1] \o s[j]
      BY <1>3, <3>2
    <3>4. f[i + 1] = f[i] \o s[i + 1]
      BY <3>2, <3>3, Zenon DEF j
    <3> QED BY <2>1, <3>1, <3>4
  <2>4. \A x \in 1..Len(a), y \in 1..Len(b) : a[x] # b[y]
    <3> SUFFICES ASSUME NEW x \in 1..Len(a), NEW y \in 1..Len(b), a[x] = b[y] PROVE FALSE
      OBVIOUS
    <3>1. PICK k \in 1..i : \E q \in 1..Len(s[k]) : a[x] = s[k][q]
      BY <2>2
    <3>2. k \in 1..n /\ k # i + 1
      BY <2>1
    <3> QED BY <2>1, <3>1, <3>2
  <2> HIDE DEF a, b, c
  <2>5. NoRepeats(c)
    BY <2>2, <2>3, <2>4, NoRepeatsConcat
  <2>6. /\ Len(a) \in Nat /\ Len(b) \in Nat /\ Len(c) = Len(a) + Len(b)
        /\ \A p \in 1..Len(a) : c[p] = a[p]
        /\ \A k \in 1..Len(b) : c[Len(a) + k] = b[k]
    BY <2>3, ConcatElements
  <2>7. ASSUME NEW p \in 1..Len(c) PROVE \E k \in 1..(i + 1) : \E q \in 1..Len(s[k]) : c[p] = s[k][q]
    <3>1. CASE p <= Len(a)
      <4>1. p \in 1..Len(a)
        BY <2>6, <2>7, <3>1
      <4>5. c[p] = a[p]
        BY <2>6, <4>1
      <4>2. PICK k \in 1..i : \E q \in 1..Len(s[k]) : a[p] = s[k][q]
        BY <2>2, <4>1 DEF a
      <4>3. k \in 1..(i + 1)
        OBVIOUS
      <4> QED BY <4>2, <4>3, <4>5
    <3>2. CASE ~(p <= Len(a))
      <4> DEFINE q == p - Len(a)
      <4>1. q \in 1..Len(b) /\ Len(a) + q = p
        BY <2>6, <3>2
      <4>2. c[p] = b[q]
        BY <2>6, <4>1
      <4> HIDE DEF q
      <4>3. i + 1 \in 1..(i + 1)
        OBVIOUS
      <4> QED BY <4>1, <4>2, <4>3 DEF b
    <3> QED BY <3>1, <3>2
  <2> QED BY <2>5, <2>7 DEF c
<1> HIDE DEF S
<1>6. Nat \subseteq S
  BY <1>4, <1>5, NatSetInduction
<1>7. NoRepeats(f[n])
  BY <1>3, <1>6 DEF S
<1> QED BY <1>2, <1>3, <1>7

-----------------------------------------------------------------------------
(* Recursion. *)

\* There is a function that follows steps which never go back.
LEMMA FollowExists ==
  ASSUME NEW n \in Nat, NEW next, next \in [1..n -> 1..n], \A i \in 1..n : i <= next[i]
  PROVE  \E g : g = [i \in 1..n |-> IF next[i] = i THEN i ELSE g[next[i]]]
<1> DEFINE Up(m) == \E g : g = [i \in m..n |-> IF next[i] = i THEN i ELSE g[next[i]]]
           S == {d \in Nat : d <= n => Up(n - d + 1)}
<1>1. 0 \in S
  <2>1. (n - 0 + 1)..n = {}
    OBVIOUS
  <2> DEFINE g == [i \in {} |-> 0]
  <2>2. \A h : g = [i \in {} |-> IF next[i] = i THEN i ELSE h[next[i]]]
    OBVIOUS
  <2>3. Up(n - 0 + 1)
    BY <2>1, <2>2, Zenon
  <2> QED BY <2>3
<1>2. ASSUME NEW d \in Nat, d \in S PROVE d + 1 \in S
  <2> HIDE DEF Up
  <2> SUFFICES ASSUME d + 1 <= n PROVE Up(n - (d + 1) + 1)
    BY DEF S
  <2> DEFINE m == n - d
  <2>0. m \in 1..n /\ n - d + 1 = m + 1 /\ n - (d + 1) + 1 = m
    OBVIOUS
  <2>1. Up(m + 1)
    BY <1>2, <2>0 DEF S
  <2> HIDE DEF m
  <2>2. PICK g : g = [i \in (m + 1)..n |-> IF next[i] = i THEN i ELSE g[next[i]]]
    BY <2>1, Zenon DEF Up
  <2> DEFINE h == [i \in m..n |-> IF i = m THEN IF next[m] = m THEN m ELSE g[next[m]] ELSE g[i]]
             e(i) == IF next[i] = i THEN i ELSE h[next[i]]
  <2>3. ASSUME NEW i \in m..n PROVE h[i] = e(i)
    <3>0. i \in 1..n /\ i <= next[i] /\ next[i] \in 1..n
      BY <2>0
    <3>1. CASE i = m
      <4>1. CASE next[m] = m
        BY <3>1, <4>1
      <4>2. CASE next[m] # m
        <5>1. next[m] \in (m + 1)..n /\ next[m] \in m..n
          BY <2>0, <3>0, <3>1, <4>2
        <5>2. h[next[m]] = g[next[m]]
          BY <2>0, <5>1
        <5> QED BY <3>1, <4>2, <5>2
      <4> QED BY <4>1, <4>2
    <3>2. CASE i # m
      <4>1. i \in (m + 1)..n /\ next[i] \in (m + 1)..n
        BY <2>0, <3>0, <3>2
      <4>2. g[i] = IF next[i] = i THEN i ELSE g[next[i]]
        BY <2>2, <4>1
      <4>3. h[next[i]] = g[next[i]] /\ h[i] = g[i]
        BY <2>0, <3>2, <4>1
      <4> QED BY <4>2, <4>3
    <3> QED BY <3>1, <3>2
  <2>4. h = [i \in m..n |-> h[i]]
    OBVIOUS
  <2> HIDE DEF h
  <2>5. h = [i \in m..n |-> IF next[i] = i THEN i ELSE h[next[i]]]
    BY <2>3, <2>4, Zenon
  <2>6. Up(m)
    BY <2>5, Zenon DEF Up
  <2> QED BY <2>0, <2>6
<1> HIDE DEF S
<1>3. n \in S
  BY <1>1, <1>2, NatSetInduction
<1> HIDE DEF Up
<1>4. Up(n - n + 1) /\ n - n + 1 = 1
  BY <1>3 DEF S
<1>5. Up(1)
  BY <1>4
<1> QED BY <1>5, Zenon DEF Up
=============================================================================
