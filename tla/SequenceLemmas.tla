--------------------------- MODULE SequenceLemmas ----------------------------
(***************************************************************************)
(* Facts about natural numbers and sequences that the proofs of the other  *)
(* modules rest on: induction, with the set of the numbers that have the   *)
(* property in place of the property itself, and what Append, RemoveAt and *)
(* prefixes do to the members of a sequence.                               *)
(***************************************************************************)
EXTENDS Integers, Sequences, SequencesExt, SequenceTheorems, FiniteSetTheorems,
        WellFoundedInduction, TLAPS

(* A set of natural numbers that is not empty has a least element.         *)
LEMMA LeastNat ==
  ASSUME NEW T \in SUBSET Nat, T # {}
  PROVE  \E n \in T : \A m \in T : n <= m
<1> DEFINE R == {ss \in Nat \X Nat : ss[1] < ss[2]}
<1>1. IsWellFoundedOn(R, Nat)
  BY NatLessThanWellFounded DEF OpToRel
<1>2. \E n \in T : \A m \in T : <<m, n>> \notin R
  <2> HIDE DEF R
  <2> QED
    BY <1>1, WFMin
<1>3. \A m, n \in Nat : <<m, n>> \notin R => n <= m
  OBVIOUS
<1> QED
  BY <1>2, <1>3

(* Induction: a set with 0 and every successor has every natural number.   *)
LEMMA SetInduction ==
  ASSUME NEW S, 0 \in S, \A n \in Nat : n \in S => n + 1 \in S
  PROVE  Nat \subseteq S
<1> SUFFICES ASSUME Nat \ S # {}
             PROVE  FALSE
  OBVIOUS
<1>1. PICK n \in Nat \ S : \A m \in Nat \ S : n <= m
  BY LeastNat
<1>2. n # 0 /\ n - 1 \in Nat /\ n - 1 \in S
  BY <1>1
<1> QED
  BY <1>1, <1>2

(* Induction up to n.                                                      *)
LEMMA BoundedInduction ==
  ASSUME NEW n \in Nat, NEW R, 0 \in R, \A k \in 0..(n - 1) : k \in R => k + 1 \in R
  PROVE  \A k \in 0..n : k \in R
<1> DEFINE S == {k \in Nat : k <= n => k \in R}
<1>1. 0 \in S
  OBVIOUS
<1>2. \A k \in Nat : k \in S => k + 1 \in S
  OBVIOUS
<1> HIDE DEF S
<1>3. Nat \subseteq S
  BY <1>1, <1>2, SetInduction
<1> QED
  BY <1>3 DEF S

(* g[i] is what the first i steps make of a.                               *)
IsRecursion(g, V, a, n, step) ==
  g \in [0..n -> V] /\ g[0] = a /\ \A i \in 1..n : g[i] = step[i][g[i - 1]]

(* A function defined step by step from a first value exists.              *)
LEMMA RecursionExists ==
  ASSUME NEW V, NEW a \in V, NEW n \in Nat, NEW step \in [1..n -> [V -> V]]
  PROVE  \E g : IsRecursion(g, V, a, n, step)
<1> DEFINE Reached(k) == \E g \in [0..k -> V] : g[0] = a /\ \A i \in 1..k : g[i] = step[i][g[i - 1]]
           S == {k \in Nat : k <= n => Reached(k)}
<1>1. 0 \in S
  <2> DEFINE g == [i \in 0..0 |-> a]
  <2>1. g \in [0..0 -> V] /\ g[0] = a /\ \A i \in 1..0 : g[i] = step[i][g[i - 1]]
    OBVIOUS
  <2> QED
    BY <2>1
<1>2. \A k \in Nat : k \in S => k + 1 \in S
  <2> HIDE DEF Reached
  <2> SUFFICES ASSUME NEW k \in Nat, k + 1 <= n, Reached(k)
               PROVE  Reached(k + 1)
    OBVIOUS
  <2> USE DEF Reached
  <2>1. PICK g \in [0..k -> V] : g[0] = a /\ \A i \in 1..k : g[i] = step[i][g[i - 1]]
    OBVIOUS
  <2> DEFINE h == [i \in 0..(k + 1) |-> IF i = k + 1 THEN step[k + 1][g[k]] ELSE g[i]]
  <2>2. step[k + 1][g[k]] \in V
    <3>1. g[k] \in V /\ k + 1 \in 1..n
      BY <2>1
    <3> QED
      BY <3>1
  <2>3. h \in [0..(k + 1) -> V]
    <3>1. \A i \in 0..(k + 1) : i # k + 1 => i \in 0..k
      OBVIOUS
    <3> QED
      BY <2>2, <3>1
  <2>4. h[0] = a /\ \A i \in 1..(k + 1) : h[i] = step[i][h[i - 1]]
    <3>1. h[0] = a
      BY <2>1
    <3>2. ASSUME NEW i \in 1..k
          PROVE  h[i] = g[i] /\ h[i - 1] = g[i - 1]
      OBVIOUS
    <3>3. h[k + 1] = step[k + 1][g[k]] /\ h[(k + 1) - 1] = g[k]
      OBVIOUS
    <3>4. \A i \in 1..(k + 1) : i \in 1..k \/ i = k + 1
      OBVIOUS
    <3> HIDE DEF h
    <3> QED
      BY <2>1, <3>1, <3>2, <3>3, <3>4
  <2> QED
    BY <2>3, <2>4
<1>3. Reached(n)
  <2> HIDE DEF Reached
  <2>1. n \in S
    BY <1>1, <1>2, SetInduction
  <2> QED
    BY <2>1
<1> QED
  BY <1>3 DEF IsRecursion

(* The members of a sequence after Append.                                 *)
LEMMA ToSetAppend ==
  ASSUME NEW S, NEW s \in Seq(S), NEW e \in S
  PROVE  ToSet(Append(s, e)) = ToSet(s) \cup {e}
<1>1. /\ DOMAIN Append(s, e) = 1..(Len(s) + 1)
      /\ \A i \in 1..Len(s) : Append(s, e)[i] = s[i]
      /\ Append(s, e)[Len(s) + 1] = e
  OBVIOUS
<1>2. 1..(Len(s) + 1) = DOMAIN s \cup {Len(s) + 1}
  OBVIOUS
<1>3. ASSUME NEW x
      PROVE  x \in ToSet(Append(s, e)) <=> x \in ToSet(s) \/ x = e
  <2>1. x \in ToSet(Append(s, e)) <=> \E i \in 1..(Len(s) + 1) : x = Append(s, e)[i]
    BY <1>1 DEF ToSet
  <2>2. x \in ToSet(s) <=> \E i \in 1..Len(s) : x = s[i]
    BY DEF ToSet
  <2> QED
    BY <2>1, <2>2, <1>1, <1>2
<1> QED
  BY <1>3

LEMMA ToSetConcat ==
  ASSUME NEW S, NEW s \in Seq(S), NEW t \in Seq(S)
  PROVE  ToSet(s \o t) = ToSet(s) \cup ToSet(t)
<1>1. /\ s \o t \in Seq(S) /\ Len(s \o t) = Len(s) + Len(t)
      /\ \A i \in 1..(Len(s) + Len(t)) : (s \o t)[i] = IF i <= Len(s) THEN s[i] ELSE t[i - Len(s)]
  BY ConcatProperties
<1> DEFINE u == s \o t
<1> HIDE DEF u
<1>2. /\ Len(s) \in Nat /\ Len(t) \in Nat /\ DOMAIN s = 1..Len(s) /\ DOMAIN t = 1..Len(t)
      /\ DOMAIN u = 1..(Len(s) + Len(t))
  BY <1>1 DEF u
<1>3. ASSUME NEW i \in 1..(Len(s) + Len(t))
      PROVE  u[i] \in ToSet(s) \cup ToSet(t)
  <2>1. i \in 1..Len(s) \/ i - Len(s) \in 1..Len(t)
    BY <1>2
  <2> QED
    BY <1>1, <1>2, <2>1 DEF u, ToSet
<1>4. ASSUME NEW i \in 1..Len(s)
      PROVE  s[i] \in ToSet(u)
  <2>1. i \in DOMAIN u /\ u[i] = s[i]
    BY <1>1, <1>2 DEF u
  <2> QED
    BY <2>1 DEF ToSet
<1>5. ASSUME NEW i \in 1..Len(t)
      PROVE  t[i] \in ToSet(u)
  <2>1. Len(s) + i \in DOMAIN u /\ u[Len(s) + i] = t[i]
    BY <1>1, <1>2 DEF u
  <2> QED
    BY <2>1 DEF ToSet
<1>6. ToSet(u) \subseteq ToSet(s) \cup ToSet(t)
  BY <1>2, <1>3 DEF ToSet
<1>7. ToSet(s) \cup ToSet(t) \subseteq ToSet(u)
  BY <1>2, <1>4, <1>5 DEF ToSet
<1> QED
  BY <1>6, <1>7 DEF u

(* RemoveAt takes out one position and closes the gap.                     *)
LEMMA RemoveAtIs ==
  ASSUME NEW S, NEW s \in Seq(S), NEW i \in 1..Len(s)
  PROVE  /\ RemoveAt(s, i) \in Seq(S)
         /\ Len(RemoveAt(s, i)) = Len(s) - 1
         /\ \A j \in 1..(Len(s) - 1) : RemoveAt(s, i)[j] = IF j < i THEN s[j] ELSE s[j + 1]
<1> DEFINE a == SubSeq(s, 1, i - 1)
           b == SubSeq(s, i + 1, Len(s))
<1>1. a \in Seq(S) /\ Len(a) = i - 1 /\ \A j \in 1..(i - 1) : a[j] = s[j]
  OBVIOUS
<1>2. b \in Seq(S) /\ Len(b) = Len(s) - i /\ \A j \in 1..(Len(s) - i) : b[j] = s[i + j]
  OBVIOUS
<1>3. RemoveAt(s, i) = a \o b
  BY DEF RemoveAt
<1> HIDE DEF a, b
<1>4. a \o b \in Seq(S) /\ Len(a \o b) = Len(s) - 1
  <2>1. a \o b \in Seq(S) /\ Len(a \o b) = Len(a) + Len(b)
    BY <1>1, <1>2, ConcatProperties
  <2> QED
    BY <2>1, <1>1, <1>2
<1>5. ASSUME NEW j \in 1..(Len(s) - 1)
      PROVE  (a \o b)[j] = IF j < i THEN s[j] ELSE s[j + 1]
  <2>1. (a \o b)[j] = IF j <= Len(a) THEN a[j] ELSE b[j - Len(a)]
    BY <1>1, <1>2, ConcatProperties
  <2>2. CASE j < i
    BY <2>1, <2>2, <1>1
  <2>3. CASE j >= i
    <3>1. PICK k \in 1..(Len(s) - i) : k = j - (i - 1)
      BY <2>3
    <3>2. (a \o b)[j] = b[k]
      BY <2>1, <2>3, <3>1, <1>1
    <3>3. b[k] = s[i + k] /\ i + k = j + 1
      BY <3>1, <1>2
    <3> QED
      BY <3>2, <3>3, <2>3
  <2>4. j < i \/ j >= i
    OBVIOUS
  <2> QED
    BY <2>2, <2>3, <2>4
<1> QED
  BY <1>3, <1>4, <1>5

(* In a sequence without repetitions the member removed is gone.           *)
LEMMA RemoveAtSet ==
  ASSUME NEW S, NEW s \in Seq(S), NEW i \in 1..Len(s), IsInjective(s)
  PROVE  /\ IsInjective(RemoveAt(s, i))
         /\ ToSet(RemoveAt(s, i)) = ToSet(s) \ {s[i]}
<1> DEFINE r == RemoveAt(s, i)
<1>1. r \in Seq(S) /\ Len(r) = Len(s) - 1
  BY RemoveAtIs
<1>2. \A j \in 1..Len(r) : r[j] = IF j < i THEN s[j] ELSE s[j + 1]
  BY RemoveAtIs, <1>1
<1> HIDE DEF r
<1>3. \A j, k \in 1..Len(s) : s[j] = s[k] => j = k
  BY DEF IsInjective
<1>4. IsInjective(r)
  <2> SUFFICES ASSUME NEW j \in 1..Len(r), NEW k \in 1..Len(r), r[j] = r[k]
               PROVE  j = k
    BY <1>1 DEF IsInjective
  <2> QED
    BY <1>1, <1>2, <1>3
<1>5. ToSet(r) \subseteq ToSet(s) \ {s[i]}
  <2> SUFFICES ASSUME NEW j \in 1..Len(r)
               PROVE  r[j] \in ToSet(s) \ {s[i]}
    BY <1>1 DEF ToSet
  <2>1. PICK k \in 1..Len(s) : k # i /\ r[j] = s[k]
    BY <1>1, <1>2
  <2> QED
    BY <2>1, <1>3 DEF ToSet
<1>6. ToSet(s) \ {s[i]} \subseteq ToSet(r)
  <2> SUFFICES ASSUME NEW j \in 1..Len(s), j # i
               PROVE  s[j] \in ToSet(r)
    BY DEF ToSet
  <2>1. CASE j < i
    BY <2>1, <1>1, <1>2 DEF ToSet
  <2>2. CASE j > i
    <3>1. j - 1 \in 1..Len(r) /\ r[j - 1] = s[j]
      BY <2>2, <1>1, <1>2
    <3> QED
      BY <3>1, <1>1 DEF ToSet
  <2> QED
    BY <2>1, <2>2
<1> QED
  BY <1>4, <1>5, <1>6 DEF r

(* A sequence is a prefix of a longer one that agrees with it.             *)
LEMMA PrefixIs ==
  ASSUME NEW S, NEW s \in Seq(S), NEW t \in Seq(S)
  PROVE  IsPrefix(s, t) <=> Len(s) <= Len(t) /\ \A i \in 1..Len(s) : t[i] = s[i]
<1>1. SubSeq(s, 1, Len(s)) = s
  OBVIOUS
<1>2. ASSUME Len(s) <= Len(t)
      PROVE  SubSeq(t, 1, Len(s)) = [i \in 1..Len(s) |-> t[i]]
  BY <1>2
<1>3. s = [i \in 1..Len(s) |-> s[i]]
  OBVIOUS
<1> QED
  BY <1>1, <1>2, <1>3 DEF IsPrefix

(* A sequence without repetitions has as many members as positions.        *)
LEMMA InjectiveCardinality ==
  ASSUME NEW S, NEW s \in Seq(S), IsInjective(s)
  PROVE  Cardinality(ToSet(s)) = Len(s)
<1>1. s \in [1..Len(s) -> ToSet(s)]
  BY DEF ToSet
<1>2. s \in Bijection(1..Len(s), ToSet(s))
  BY <1>1 DEF Bijection, Injection, Surjection, IsInjective, ToSet
<1>3. ExistsBijection(1..Len(s), ToSet(s))
  BY <1>2 DEF ExistsBijection
<1> QED
  BY <1>3, FS_CountingElements

(* f[i] is what the first i of n sequences over T flatten to.              *)
IsFlattening(f, T, n, seqs) ==
  /\ f \in [1..n -> Seq(T)] /\ f[1] = seqs[1]
  /\ \A i \in 2..n : f[i] = f[i - 1] \o seqs[i]

(* FlattenSeq, sequence by sequence.                                       *)
LEMMA FlattenSteps ==
  ASSUME NEW T, NEW n \in Nat \ {0}, NEW seqs \in [1..n -> Seq(T)]
  PROVE  \E f : IsFlattening(f, T, n, seqs) /\ FlattenSeq(seqs) = f[n]
<1> DEFINE V == Seq(T)
           none == <<>>
           step == [i \in 1..n |-> [s \in V |-> s \o seqs[i]]]
           Is(f) == f = [i \in 1..n |-> IF i = 1 THEN seqs[i] ELSE f[i - 1] \o seqs[i]]
<1>1. none \in V /\ \A s, t \in V : s \o t \in V
  BY ConcatProperties
<1>2. none \o seqs[1] = seqs[1]
  BY ConcatEmptySeq
<1>3. step \in [1..n -> [V -> V]]
  BY <1>1
<1>4. PICK g : IsRecursion(g, V, none, n, step)
  <2> HIDE DEF none, V, step, Is
  <2> QED
    BY <1>1, <1>3, RecursionExists
<1> DEFINE f == [i \in 1..n |-> g[i]]
<1>5. /\ g \in [0..n -> V] /\ g[0] = none
      /\ \A i \in 1..n : g[i] = g[i - 1] \o seqs[i]
  <2>1. g \in [0..n -> V] /\ g[0] = none /\ \A i \in 1..n : g[i] = step[i][g[i - 1]]
    BY <1>4 DEF IsRecursion
  <2>2. \A i \in 1..n : i - 1 \in 0..n
    OBVIOUS
  <2>3. \A i \in 1..n, s \in V : step[i][s] = s \o seqs[i]
    OBVIOUS
  <2> HIDE DEF V, none, step
  <2> QED
    BY <2>1, <2>2, <2>3
<1>6. /\ f \in [1..n -> V] /\ f[1] = seqs[1]
      /\ \A i \in 2..n : f[i] = f[i - 1] \o seqs[i]
  <2>1. \A i \in 1..n : i \in 0..n
    OBVIOUS
  <2>2. 1 \in 1..n /\ 1 - 1 = 0 /\ \A i \in 2..n : i \in 1..n /\ i - 1 \in 1..n
    OBVIOUS
  <2> HIDE DEF V, none
  <2>3. f \in [1..n -> V]
    BY <1>5, <2>1
  <2>4. f[1] = seqs[1]
    BY <1>2, <1>5, <2>2
  <2> QED
    BY <1>5, <2>2, <2>3, <2>4
<1>7. Is(f)
  <2>1. \A i \in 1..n : i = 1 \/ i \in 2..n
    OBVIOUS
  <2>2. f = [i \in 1..n |-> f[i]]
    OBVIOUS
  <2> HIDE DEF f
  <2> QED
    BY <1>6, <2>1, <2>2
<1> DEFINE h == CHOOSE x : Is(x)
<1>8. Is(h)
  <2> HIDE DEF Is, f
  <2> QED
    BY <1>7
<1>9. FlattenSeq(seqs) = h[n]
  <2>1. Len(seqs) = n
    OBVIOUS
  <2> QED
    BY <2>1 DEF FlattenSeq
<1> HIDE DEF h
<1>10. /\ h = [i \in 1..n |-> h[i]] /\ h[1] = seqs[1]
       /\ \A i \in 2..n : h[i] = h[i - 1] \o seqs[i]
  <2>1. 1 \in 1..n /\ \A i \in 2..n : i \in 1..n /\ i # 1
    OBVIOUS
  <2> QED
    BY <1>8, <2>1
<1> HIDE DEF Is, f, step
<1>11. \A i \in 1..n : h[i] \in V
  <2> DEFINE R == {k \in 0..n : k = 0 \/ h[k] \in V}
  <2>1. 0 \in R
    OBVIOUS
  <2>2. \A k \in 0..(n - 1) : k \in R => k + 1 \in R
    <3> SUFFICES ASSUME NEW k \in 0..(n - 1), k = 0 \/ h[k] \in V
                 PROVE  k + 1 \in 0..n /\ h[k + 1] \in V
      OBVIOUS
    <3>1. /\ k + 1 \in 0..n /\ k + 1 \in 1..n /\ (k + 1) - 1 = k
          /\ k = 0 \/ k + 1 \in 2..n
      OBVIOUS
    <3>2. seqs[k + 1] \in V
      BY <3>1
    <3>3. CASE k = 0
      <4>1. k + 1 = 1
        BY <3>3
      <4> QED
        BY <1>10, <3>1, <3>2, <4>1
    <3>4. CASE k # 0
      <4>1. h[k + 1] = h[k] \o seqs[k + 1]
        BY <1>10, <3>1, <3>4
      <4> HIDE DEF V
      <4> QED
        BY <1>1, <3>1, <3>2, <3>4, <4>1
    <3> QED
      BY <3>3, <3>4
  <2> HIDE DEF R
  <2>3. \A k \in 0..n : k \in R
    BY <2>1, <2>2, BoundedInduction
  <2>4. \A i \in 1..n : i \in 0..n /\ i # 0
    OBVIOUS
  <2> QED
    BY <2>3, <2>4 DEF R
<1>12. IsFlattening(h, T, n, seqs)
  BY <1>10, <1>11 DEF IsFlattening
<1> QED
  BY <1>9, <1>12

(* A sequence of one sequence.                                             *)
LEMMA FlattenOne ==
  ASSUME NEW T, NEW s \in Seq(T)
  PROVE  FlattenSeq(<<s>>) = s
<1> DEFINE seqs == <<s>>
<1>1. 1 \in Nat \ {0} /\ seqs \in [1..1 -> Seq(T)] /\ seqs[1] = s
  OBVIOUS
<1> HIDE DEF seqs
<1>2. PICK f : IsFlattening(f, T, 1, seqs) /\ FlattenSeq(seqs) = f[1]
  BY <1>1, FlattenSteps
<1> QED
  BY <1>1, <1>2 DEF seqs, IsFlattening

(* The length of a sequence of sequences of length b at most.              *)
LEMMA FlattenLength ==
  ASSUME NEW T, NEW n \in Nat, NEW seqs \in [1..n -> Seq(T)], NEW b \in Nat,
         \A i \in 1..n : Len(seqs[i]) <= b
  PROVE  FlattenSeq(seqs) \in Seq(T) /\ Len(FlattenSeq(seqs)) <= n * b
<1>1. CASE n = 0
  <2>1. Len(seqs) = 0 /\ seqs = <<>>
    BY <1>1
  <2>2. FlattenSeq(seqs) = <<>>
    BY <2>1 DEF FlattenSeq
  <2> QED
    BY <1>1, <2>2
<1>2. CASE n # 0
  <2>0. n \in Nat \ {0}
    BY <1>2
  <2>1. PICK f : IsFlattening(f, T, n, seqs) /\ FlattenSeq(seqs) = f[n]
    BY <2>0, FlattenSteps
  <2> DEFINE R == {k \in 0..n : k = 0 \/ Len(f[k]) <= k * b}
  <2>2. 0 \in R
    OBVIOUS
  <2>3. \A k \in 0..(n - 1) : k \in R => k + 1 \in R
    <3> SUFFICES ASSUME NEW k \in 0..(n - 1), k = 0 \/ Len(f[k]) <= k * b
                 PROVE  k + 1 \in 0..n /\ Len(f[k + 1]) <= (k + 1) * b
      OBVIOUS
    <3>1. /\ k + 1 \in 0..n /\ k + 1 \in 1..n /\ (k + 1) - 1 = k
          /\ (k = 0 \/ (k \in 1..n /\ k + 1 \in 2..n))
      OBVIOUS
    <3>2. seqs[k + 1] \in Seq(T) /\ Len(seqs[k + 1]) <= b
      BY <3>1
    <3>3. CASE k = 0
      <4>1. k + 1 = 1 /\ (k + 1) * b = b
        BY <3>3
      <4> QED
        BY <2>1, <3>1, <3>2, <4>1 DEF IsFlattening
    <3>4. CASE k # 0
      <4>1. f[k + 1] = f[k] \o seqs[k + 1] /\ f[k] \in Seq(T)
        BY <2>1, <3>1, <3>4 DEF IsFlattening
      <4>2. Len(f[k + 1]) = Len(f[k]) + Len(seqs[k + 1])
        BY <3>2, <4>1, ConcatProperties
      <4>3. \A x, y \in Nat : x <= k * b /\ y <= b => x + y <= (k + 1) * b
        OBVIOUS
      <4>4. Len(f[k]) \in Nat /\ Len(seqs[k + 1]) \in Nat
        BY <3>2, <4>1
      <4> QED
        BY <3>1, <3>2, <3>4, <4>2, <4>3, <4>4
    <3> QED
      BY <3>3, <3>4
  <2> HIDE DEF R
  <2>4. n \in R
    <3>1. n \in 0..n
      OBVIOUS
    <3> QED
      BY <2>2, <2>3, <3>1, BoundedInduction
  <2> QED
    BY <1>2, <2>1, <2>4 DEF R, IsFlattening
<1> QED
  BY <1>1, <1>2
=============================================================================
