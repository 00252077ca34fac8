----------------------------- MODULE DataLemmas -----------------------------
(***************************************************************************)
(* Facts about numbers, finite sets, sequences and recursive functions     *)
(* that the proofs share.  The library's induction theorems take operators,*)
(* which the provers cannot be given; UpTo is induction over the set of    *)
(* the numbers something holds for, from the well-foundedness of < alone.  *)
(***************************************************************************)
EXTENDS Naturals, SequencesExt, FiniteSetsExt, Functions,
        FiniteSetTheorems, SequenceTheorems, WellFoundedInduction, TLAPS

(* A set of numbers that is not empty has a smallest one.                  *)
LEMMA NatMin ==
  ASSUME NEW T \in SUBSET Nat, T # {}
  PROVE  \E m \in T : \A n \in T : m <= n
<1> DEFINE R == {ss \in Nat \X Nat : ss[1] < ss[2]}
<1>1. IsWellFoundedOn(R, Nat)
  BY NatLessThanWellFounded, Zenon DEF OpToRel
<1>2. \A m, n \in Nat : n < m => <<n, m>> \in R
  OBVIOUS
<1> HIDE DEF R
<1>3. PICK m \in T : \A n \in T : <<n, m>> \notin R
  BY <1>1, WFMin
<1>4. ASSUME NEW n \in T PROVE m <= n
  <2>1. m \in Nat /\ n \in Nat
    OBVIOUS
  <2>2. ~(n < m)
    BY <1>2, <1>3, <2>1
  <2> QED
    BY <2>1, <2>2
<1> QED
  BY <1>4

(* Induction up to a number, over the set G of those it holds for.         *)
LEMMA UpTo ==
  ASSUME NEW n \in Nat, NEW G, 0 \in G, \A k \in 1..n : k - 1 \in G => k \in G
  PROVE  \A k \in 0..n : k \in G
<1> SUFFICES ASSUME NEW k \in 0..n, k \notin G PROVE FALSE
  OBVIOUS
<1> DEFINE Bad == {i \in 0..n : i \notin G}
<1>1. Bad \in SUBSET Nat /\ Bad # {}
  OBVIOUS
<1>2. \A i : i \in Bad <=> i \in 0..n /\ i \notin G
  OBVIOUS
<1> HIDE DEF Bad
<1>3. PICK m \in Bad : \A i \in Bad : m <= i
  BY <1>1, NatMin
<1>4. m \in 1..n /\ m - 1 \in 0..n /\ ~(m <= m - 1)
  BY <1>2
<1>5. m - 1 \in G
  BY <1>2, <1>3, <1>4
<1> QED
  BY <1>2, <1>4, <1>5

(* A finite set of numbers that is not empty has a largest one: what an    *)
(* enumeration has yielded so far is bounded.                              *)
LEMMA FiniteMax ==
  ASSUME NEW T \in SUBSET Nat, T # {}, IsFiniteSet(T)
  PROVE  Max(T) \in T /\ \A n \in T : n <= Max(T)
<1>1. PICK c \in Nat : ExistsBijection(1..c, T)
  BY FS_NatBijection
<1>2. PICK f \in [1..c -> T] : \A t \in T : \E k \in 1..c : f[k] = t
  BY <1>1 DEF ExistsBijection, Bijection, Surjection, Injection
<1> DEFINE G == {k \in 0..c : \E b \in Nat : \A j \in 1..k : f[j] <= b}
           Bounds == {b \in Nat : \A n \in T : n <= b}
<1>3. \A k \in 0..c : k \in G
  <2>0. \A k : k \in G <=> k \in 0..c /\ \E b \in Nat : \A j \in 1..k : f[j] <= b
    OBVIOUS
  <2>1. 0 \in G
    BY <1>1, <2>0
  <2>2. ASSUME NEW k \in 1..c, k - 1 \in G PROVE k \in G
    <3>1. PICK b \in Nat : \A j \in 1..(k - 1) : f[j] <= b
      BY <2>0, <2>2
    <3>2. f[k] \in Nat
      OBVIOUS
    <3>3. b + f[k] \in Nat /\ b <= b + f[k] /\ f[k] <= b + f[k]
      BY <3>2
    <3>4. ASSUME NEW j \in 1..k PROVE f[j] <= b + f[k]
      <4>1. j \in 1..c /\ (j = k \/ j \in 1..(k - 1))
        OBVIOUS
      <4>2. f[j] \in Nat
        BY <4>1
      <4> QED
        BY <3>1, <3>2, <3>3, <4>1, <4>2
    <3> QED
      BY <2>0, <3>3, <3>4
  <2> HIDE DEF G
  <2> QED
    BY <2>1, <2>2, <1>1, UpTo
<1>4. \A b : b \in Bounds <=> b \in Nat /\ \A n \in T : n <= b
  OBVIOUS
<1>5. PICK d \in Nat : \A j \in 1..c : f[j] <= d
  <2>1. c \in G
    <3> HIDE DEF G
    <3> QED
      BY <1>1, <1>3
  <2> QED
    BY <2>1
<1> HIDE DEF G, Bounds
<1>6. d \in Bounds
  BY <1>2, <1>4, <1>5
<1>7. PICK m \in Bounds : \A b \in Bounds : m <= b
  BY <1>4, <1>6, NatMin
<1>8. m \in T
  <2> SUFFICES ASSUME m \notin T PROVE FALSE
    OBVIOUS
  <2>1. PICK t \in T : TRUE
    OBVIOUS
  <2>2. m \in Nat /\ m - 1 \in Nat /\ ~(m <= m - 1)
    BY <1>4, <2>1
  <2>3. \A n \in T : n <= m - 1
    BY <1>4, <2>2
  <2> QED
    BY <1>4, <1>7, <2>2, <2>3
<1>9. \A n \in T : m >= n
  BY <1>4
<1> QED
  BY <1>8, <1>9 DEF Max

(* A finite set is listed, each element once.                              *)
LEMMA Listed ==
  ASSUME NEW S, IsFiniteSet(S)
  PROVE  /\ SetToSeq(S) \in Seq(S) /\ Range(SetToSeq(S)) = S
         /\ \A i, j \in 1..Len(SetToSeq(S)) : SetToSeq(S)[i] = SetToSeq(S)[j] => i = j
<1> DEFINE c == Cardinality(S)
<1>1. c \in Nat /\ ExistsBijection(1..c, S)
  BY FS_CardinalityType
<1> HIDE DEF c
<1>2. \E f \in [1..c -> S] : IsInjective(f)
  BY <1>1 DEF ExistsBijection, Bijection, Injection, IsInjective
<1>3. PICK f : f = SetToSeq(S) /\ f \in [1..c -> S] /\ IsInjective(f)
  BY <1>2 DEF SetToSeq, c
<1>4. Range(f) = S
  <2>1. \A k \in 1..c, l \in 1..c : f[k] = f[l] => k = l
    BY <1>3 DEF IsInjective
  <2>2. IsFiniteSet(1..c) /\ Cardinality(1..c) = c
    BY <1>1, FS_Interval
  <2>3. f \in Injection(1..c, S)
    BY <1>3 DEF Injection, IsInjective
  <2>4. f \in Surjection(1..c, S)
    BY <1>1, <2>2, <2>3, FS_Injection DEF c
  <2> QED
    BY <1>3, <2>4 DEF Surjection, Range
<1>5. f \in Seq(S) /\ Len(f) = c
  BY <1>1, <1>3
<1> QED
  BY <1>3, <1>4, <1>5 DEF IsInjective

(* The first element and the rest.                                         *)
LEMMA HeadAndTail ==
  ASSUME NEW S, NEW s \in Seq(S), s # <<>>
  PROVE  Tail(s) \in Seq(S) /\ Range(s) = Range(Tail(s)) \cup {Head(s)}
<1> DEFINE t == Tail(s)
           n == Len(s)
<1>1. /\ t \in Seq(S) /\ n \in Nat /\ n > 0 /\ Len(t) = n - 1
      /\ \A i \in 1..Len(t) : t[i] = s[i + 1]
  BY HeadTailProperties, EmptySeq
<1>2. Head(s) = s[1]
  OBVIOUS
<1>3. Range(s) = {s[i] : i \in 1..n} /\ Range(t) = {t[i] : i \in 1..Len(t)}
  BY <1>1, RangeEquality
<1> HIDE DEF t, n
<1>4. \A x : x \in Range(s) <=> \E i \in 1..n : s[i] = x
  BY <1>3
<1>5. \A x : x \in Range(t) <=> \E i \in 1..Len(t) : s[i + 1] = x
  BY <1>1, <1>3
<1>6. \A i \in 1..n : i = 1 \/ (i - 1 \in 1..Len(t) /\ (i - 1) + 1 = i)
  BY <1>1
<1>7. 1 \in 1..n /\ \A i \in 1..Len(t) : i + 1 \in 1..n
  BY <1>1
<1>8. \A x : x \in Range(s) => x \in Range(t) \/ x = s[1]
  BY <1>4, <1>5, <1>6
<1>9. \A x : x \in Range(t) \/ x = s[1] => x \in Range(s)
  BY <1>4, <1>5, <1>7
<1> QED
  BY <1>1, <1>2, <1>8, <1>9 DEF t

(* A prefix is no longer, and agrees as far as it goes.                    *)
LEMMA PrefixOf ==
  ASSUME NEW S, NEW p \in Seq(S), NEW q \in Seq(S)
  PROVE  IsPrefix(p, q) <=> Len(p) <= Len(q) /\ \A i \in 1..Len(p) : p[i] = q[i]
<1>1. CASE ~(Len(p) <= Len(q))
  BY <1>1 DEF IsPrefix
<1>2. CASE Len(p) <= Len(q)
  <2> DEFINE n == Len(p)
  <2>0. n \in Nat /\ n <= Len(q) /\ Len(q) \in Nat
    BY <1>2
  <2>1. \A i \in 1..n : p[i] \in S /\ q[i] \in S
    BY <2>0, ElementOfSeq
  <2>2. /\ SubSeq(p, 1, n) \in Seq(S) /\ Len(SubSeq(p, 1, n)) = n
        /\ \A i \in 1..n : SubSeq(p, 1, n)[i] = p[i]
    BY <2>0, <2>1
  <2>3. /\ SubSeq(q, 1, n) \in Seq(S) /\ Len(SubSeq(q, 1, n)) = n
        /\ \A i \in 1..n : SubSeq(q, 1, n)[i] = q[i]
    BY <2>0, <2>1
  <2>4. SubSeq(p, 1, n) = SubSeq(q, 1, n) <=> \A i \in 1..n : p[i] = q[i]
    BY <2>2, <2>3, SeqEqual
  <2> QED
    BY <1>2, <2>4 DEF IsPrefix
<1> QED
  BY <1>1, <1>2

(* A function defined from its value one below exists.                     *)
Unfolds(f, N, S, a, step) ==
  /\ f \in [0..N -> S] /\ f[0] = a
  /\ \A k \in 1..N : f[k] = step[<<k, f[k - 1]>>]

(* A definition by recursion over the first n numbers has a solution, and  *)
(* its values are of the type its steps keep.                              *)
LEMMA Recursion ==
  ASSUME NEW N \in Nat, NEW S, NEW a \in S, NEW step \in [(1..N) \X S -> S]
  PROVE  \E f : Unfolds(f, N, S, a, step)
<1> DEFINE Upto(f, k) == /\ f \in [0..k -> S] /\ f[0] = a
                         /\ \A i \in 1..k : f[i] = step[<<i, f[i - 1]>>]
           G == {k \in 0..N : \E f : Upto(f, k)}
<1>1. \A k : k \in G <=> k \in 0..N /\ \E f : Upto(f, k)
  OBVIOUS
<1> HIDE DEF G
<1>2. 0 \in G
  <2>1. Upto([i \in 0..0 |-> a], 0)
    OBVIOUS
  <2> HIDE DEF Upto
  <2> QED
    BY <1>1, <2>1
<1>3. ASSUME NEW k \in 1..N, k - 1 \in G PROVE k \in G
  <2>1. PICK f : Upto(f, k - 1)
    <3> HIDE DEF Upto
    <3> QED
      BY <1>1, <1>3
  <2> DEFINE g == [i \in 0..k |-> IF i = k THEN step[<<k, f[k - 1]>>] ELSE f[i]]
  <2>2. k - 1 \in 0..(k - 1) /\ f[k - 1] \in S /\ step[<<k, f[k - 1]>>] \in S
    BY <2>1
  <2>3. /\ \A i \in 0..k : i # k => i \in 0..(k - 1) /\ g[i] = f[i]
        /\ \A i \in 1..k : i - 1 \in 0..k /\ i - 1 # k
        /\ g[k] = step[<<k, f[k - 1]>>] /\ 0 \in 0..k /\ 0 # k
    OBVIOUS
  <2>4. g \in [0..k -> S]
    <3>1. \A i \in 0..k : (IF i = k THEN step[<<k, f[k - 1]>>] ELSE f[i]) \in S
      BY <2>1, <2>2, <2>3
    <3> QED
      BY <3>1
  <2> HIDE DEF g
  <2>5. g[0] = a
    BY <2>1, <2>3
  <2>6. ASSUME NEW i \in 1..k PROVE g[i] = step[<<i, g[i - 1]>>]
    <3>1. g[i - 1] = f[i - 1]
      BY <2>3
    <3>2. CASE i = k
      BY <2>3, <3>1, <3>2
    <3>3. CASE i # k
      <4>1. i \in 1..(k - 1) /\ g[i] = f[i]
        BY <2>3, <3>3
      <4> QED
        BY <2>1, <3>1, <4>1
    <3> QED
      BY <3>2, <3>3
  <2>7. Upto(g, k)
    BY <2>4, <2>5, <2>6
  <2> HIDE DEF Upto
  <2> QED
    BY <1>1, <2>7
<1>4. \A k \in 0..N : k \in G
  BY <1>2, <1>3, UpTo
<1>5. PICK f : Upto(f, N)
  <2> HIDE DEF Upto
  <2> QED
    BY <1>1, <1>4
<1> QED
  BY <1>5 DEF Unfolds

(* Induction over a sequence, as over numbers in UpTo.                     *)
LEMMA AlongSeq ==
  ASSUME NEW S, NEW G, <<>> \in G, \A q \in Seq(S), n \in S : q \in G => Append(q, n) \in G
  PROVE  \A q \in Seq(S) : q \in G
<1> SUFFICES ASSUME NEW q \in Seq(S) PROVE q \in G
  OBVIOUS
<1> DEFINE H == {k \in 0..Len(q) : SubSeq(q, 1, k) \in G}
<1>1. Len(q) \in Nat /\ SubSeq(q, 1, Len(q)) = q
  BY SubSeqFull
<1>2. 0 \in H
  <2>1. SubSeq(q, 1, 0) = <<>>
    BY SubSeqEmpty
  <2>2. SubSeq(q, 1, 0) \in G
    BY <2>1, Zenon
  <2> QED
    BY <1>1, <2>2
<1>3. ASSUME NEW k \in 1..Len(q), k - 1 \in H PROVE k \in H
  <2> DEFINE a == SubSeq(q, 1, k - 1)
             b == SubSeq(q, 1, k)
  <2>1. a \in G /\ q[k] \in S /\ k \in Nat /\ k \in 0..Len(q) /\ k - 1 \in Int /\ 1 \in Int
    BY <1>1, <1>3, ElementOfSeq
  <2>2. a \in Seq(S)
    <3>1. \A i \in 1..(k - 1) : q[i] \in S
      BY <1>1, ElementOfSeq
    <3> QED
      BY <2>1, <3>1, SubSeqProperties
  <2>3. b = a \o <<q[k]>>
    BY <1>1, SubSeqRecursiveSecond
  <2> HIDE DEF a, b
  <2>4. b = Append(a, q[k])
    BY <2>1, <2>2, <2>3, AppendIsConcat
  <2>5. b \in G
    BY <2>1, <2>2, <2>4
  <2> QED
    BY <2>1, <2>5 DEF b
<1> HIDE DEF H
<1>4. \A k \in 0..Len(q) : k \in H
  BY <1>1, <1>2, <1>3, UpTo
<1>5. Len(q) \in H
  BY <1>1, <1>4
<1>6. SubSeq(q, 1, Len(q)) \in G
  BY <1>5 DEF H
<1> QED
  BY <1>1, <1>6

(* Two walks that take the same steps are the same.                        *)
LEMMA SameWalk ==
  ASSUME NEW n \in Nat, NEW f, NEW g, f[0] = g[0],
         \A k \in 1..n : f[k - 1] = g[k - 1] => f[k] = g[k]
  PROVE  f[n] = g[n]
<1> DEFINE H == {k \in 0..n : f[k] = g[k]}
<1>1. 0 \in H
  OBVIOUS
<1>2. \A k \in 1..n : k - 1 \in H => k \in H
  OBVIOUS
<1> HIDE DEF H
<1>3. \A k \in 0..n : k \in H
  BY <1>1, <1>2, UpTo
<1> QED
  BY <1>3 DEF H

(* A sequence and an element at its end.                                   *)
LEMMA AppendOn ==
  ASSUME NEW S, NEW p \in Seq(S), NEW q \in Seq(S), NEW n \in S
  PROVE  p \o Append(q, n) = Append(p \o q, n) /\ Append(q, n) \in Seq(S) /\ p \o q \in Seq(S)
<1>1. <<n>> \in Seq(S) /\ p \o q \in Seq(S)
  BY ConcatProperties
<1>2. p \o (q \o <<n>>) = (p \o q) \o <<n>>
  BY <1>1, ConcatAssociative
<1>3. Append(q, n) = q \o <<n>> /\ Append(p \o q, n) = (p \o q) \o <<n>> /\ Append(q, n) \in Seq(S)
  BY <1>1, AppendIsConcat, AppendProperties
<1> QED
  BY <1>1, <1>2, <1>3

LEMMA FrontOf ==
  ASSUME NEW S, NEW p \in Seq(S), p # <<>>
  PROVE  Front(p) \in Seq(S) /\ Last(p) \in S /\ p = Append(Front(p), Last(p))
<1>1. PICK q \in Seq(S), n \in S : p = Append(q, n)
  BY SequenceEmptyOrAppend
<1>2. Len(p) = Len(q) + 1 /\ Len(q) \in Nat /\ p[Len(p)] = n /\ \A k \in 1..Len(q) : p[k] = q[k]
  BY <1>1, AppendProperties
<1>3. Len(p) - 1 = Len(q) /\ 1..Len(q) \subseteq 1..Len(p)
  BY <1>2
<1>4. SubSeq(p, 1, Len(q)) = q
  <2>1. SubSeq(p, 1, Len(q)) \in Seq(S) /\ Len(SubSeq(p, 1, Len(q))) = Len(q)
        /\ \A k \in 1..Len(q) : SubSeq(p, 1, Len(q))[k] = p[k]
    BY <1>2, <1>3
  <2> QED
    BY <1>2, <2>1, SeqEqual
<1>5. Front(p) = q /\ Last(p) = n
  BY <1>2, <1>3, <1>4 DEF Front, Last
<1> QED
  BY <1>1, <1>5

=============================================================================
