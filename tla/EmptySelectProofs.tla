-------------------------- MODULE EmptySelectProofs --------------------------
(***************************************************************************)
(* What EmptySelect hands over is what its reference names (HandsOver),    *)
(* and nothing is measured that need not be (Lazily), for any number of    *)
(* trash directories and entries, any dates, sizes and filters.  The loop  *)
(* sees runs of the sorted candidates and running totals that saturate;    *)
(* the reference sees the entries in no order.  So: the sort gives the     *)
(* order (SortIs, EntIs), a batch of the reference is a run of it          *)
(* (BatchIs), what is no older than a batch is a prefix of it (NoOlderIs), *)
(* and the totals are the weights of the prefixes (HeftIs).                *)
(***************************************************************************)
EXTENDS EmptySelect, DataLemmas

(* What is listed, in the order it was found, and in the order of dates.   *)
N == Len(load.entries)
Ent(k) == load.entries[c[k].entry]
Ranked(x) == x.key \in (1..Trash) \X Nat /\ x.date \in Nat

(* saturating_add() of two sizes.                                          *)
LEMMA AddIs ==
  ASSUME NEW a \in Nat, NEW b \in Nat
  PROVE  Add(a, b) = IF a + b <= U64 THEN a + b ELSE U64
<1> DEFINE m == IF a + b <= U64 THEN a + b ELSE U64
<1>1. U64 \in Nat
  BY EmptyAssumption
<1>2. m \in {a + b, U64} /\ \A y \in {a + b, U64} : m <= y
  BY <1>1
<1>3. \A x \in {a + b, U64} : (\A y \in {a + b, U64} : x <= y) => x = m
  BY <1>1
<1> QED
  BY <1>2, <1>3 DEF Add, Min

(* The order of the candidates is strict, and total on different keys.     *)
LEMMA NewerOrder ==
  ASSUME NEW x, NEW y, NEW z, Ranked(x), Ranked(y), Ranked(z)
  PROVE  /\ ~Newer(x, x) /\ ~(Newer(x, y) /\ Newer(y, x))
         /\ Newer(x, y) /\ Newer(y, z) => Newer(x, z)
         /\ x.key # y.key => Newer(x, y) \/ Newer(y, x)
         /\ Newer(x, y) => x.date >= y.date
<1>1. /\ x.date \in Nat /\ y.date \in Nat /\ z.date \in Nat
      /\ x.key[1] \in Int /\ y.key[1] \in Int /\ z.key[1] \in Int
      /\ x.key[2] \in Int /\ y.key[2] \in Int /\ z.key[2] \in Int
  BY DEF Ranked
<1>2. x.key = <<x.key[1], x.key[2]>> /\ y.key = <<y.key[1], y.key[2]>>
  BY DEF Ranked
<1>3. x.key # y.key => x.key[1] # y.key[1] \/ x.key[2] # y.key[2]
  BY <1>2
<1> QED
  BY <1>1, <1>3 DEF Newer, Before

-----------------------------------------------------------------------------
(* A set that sort_by() can order: no two of one key.                      *)
Sortable(S) ==
  IsFiniteSet(S) /\ (\A x \in S : Ranked(x)) /\ (\A x, y \in S : x.key = y.key => x = y)

(* One of a set is the oldest.                                             *)
LEMMA Oldest ==
  ASSUME NEW S, Sortable(S), S # {}
  PROVE  \E x \in S : \A y \in S \ {x} : Newer(y, x)
<1> DEFINE n == Cardinality(S)
           Has(T) == \E x \in T : \A y \in T \ {x} : Newer(y, x)
           G == {k \in 0..n : \A T \in SUBSET S : T # {} /\ Cardinality(T) = k => Has(T)}
<1>1. n \in Nat /\ IsFiniteSet(S)
  BY FS_CardinalityType DEF Sortable
<1>2. \A k : k \in G <=> /\ k \in 0..n
                         /\ \A T \in SUBSET S : T # {} /\ Cardinality(T) = k => Has(T)
  OBVIOUS
<1> HIDE DEF G
<1>3. 0 \in G
  <2>1. ASSUME NEW T \in SUBSET S, Cardinality(T) = 0 PROVE T = {}
    BY <1>1, <2>1, FS_Subset, FS_EmptySet
  <2> QED
    BY <1>1, <1>2, <2>1
<1>4. ASSUME NEW k \in 1..n, k - 1 \in G PROVE k \in G
  <2> SUFFICES ASSUME NEW T \in SUBSET S, T # {}, Cardinality(T) = k PROVE Has(T)
    BY <1>2
  <2>1. PICK t \in T : TRUE
    OBVIOUS
  <2> DEFINE R == T \ {t}
  <2>2. R \in SUBSET S /\ Cardinality(R) = k - 1
    <3>1. IsFiniteSet(T)
      BY <1>1, FS_Subset
    <3> QED
      BY <2>1, <3>1, FS_RemoveElement
  <2>3. CASE R = {}
    BY <2>1, <2>3
  <2>4. CASE R # {}
    <3>0. Has(R)
      <4> HIDE DEF Has, R
      <4> QED
        BY <1>2, <1>4, <2>2, <2>4
    <3>1. PICK x \in R : \A y \in R \ {x} : Newer(y, x)
      BY <3>0
    <3>2. x \in S /\ t \in S /\ x # t /\ Ranked(x) /\ Ranked(t) /\ x.key # t.key
      BY <2>1, <3>1 DEF Sortable
    <3>3. CASE Newer(t, x)
      BY <3>1, <3>3
    <3>4. CASE Newer(x, t)
      <4>1. ASSUME NEW y \in T \ {t} PROVE Newer(y, t)
        <5>1. y = x \/ (y \in R \ {x} /\ Newer(y, x))
          BY <3>1
        <5>2. Ranked(y)
          BY DEF Sortable
        <5> QED
          BY <3>2, <3>4, <5>1, <5>2, NewerOrder
      <4> QED
        BY <2>1, <4>1
    <3> QED
      BY <3>2, <3>3, <3>4, NewerOrder
  <2> QED
    BY <2>3, <2>4
<1> HIDE DEF n
<1>5. n \in G
  BY <1>1, <1>3, <1>4, UpTo
<1> QED
  BY <1>2, <1>5 DEF n

(* It has an order.                                                        *)
InOrder(q) == \A j, k \in DOMAIN q : j < k => Newer(q[j], q[k])

LEMMA HasOrder ==
  ASSUME NEW S, Sortable(S)
  PROVE  \E q \in SetToSeqs(S) : InOrder(q)
<1> DEFINE n == Cardinality(S)
           Has(T) == \E q \in SetToSeqs(T) : InOrder(q)
           G == {k \in 0..n : \A T \in SUBSET S : Cardinality(T) = k => Has(T)}
<1>1. n \in Nat /\ IsFiniteSet(S)
  BY FS_CardinalityType DEF Sortable
<1>2. \A k : k \in G <=> k \in 0..n /\ \A T \in SUBSET S : Cardinality(T) = k => Has(T)
  OBVIOUS
<1> HIDE DEF G
<1>3. 0 \in G
  <2>1. ASSUME NEW T \in SUBSET S, Cardinality(T) = 0 PROVE Has(T)
    <3>1. <<>> \in [1..0 -> T] /\ DOMAIN <<>> = {} /\ 1..0 = {}
      OBVIOUS
    <3>2. <<>> \in SetToSeqs(T)
      BY <2>1, <3>1 DEF SetToSeqs
    <3> QED
      BY <3>1, <3>2 DEF InOrder
  <2> HIDE DEF Has
  <2> QED
    BY <1>1, <1>2, <2>1
<1>4. ASSUME NEW k \in 1..n, k - 1 \in G PROVE k \in G
  <2> SUFFICES ASSUME NEW T \in SUBSET S, Cardinality(T) = k PROVE Has(T)
    <3> HIDE DEF Has
    <3> QED
      BY <1>2
  <2>1. IsFiniteSet(T) /\ Sortable(T) /\ T # {}
    BY <1>1, FS_Subset, FS_EmptySet DEF Sortable
  <2>2. PICK x \in T : \A y \in T \ {x} : Newer(y, x)
    BY <2>1, Oldest
  <2> DEFINE R == T \ {x}
  <2>3. R \in SUBSET S /\ Cardinality(R) = k - 1
    BY <2>1, FS_RemoveElement
  <2>4. PICK q \in SetToSeqs(R) : InOrder(q)
    BY <1>2, <1>4, <2>3
  <2>5. q \in [1..(k - 1) -> R] /\ \A a, b \in 1..(k - 1) : a # b => q[a] # q[b]
    BY <2>3, <2>4 DEF SetToSeqs
  <2> DEFINE r == [a \in 1..k |-> IF a = k THEN x ELSE q[a]]
  <2>6. \A a \in 1..k : a = k \/ (a \in 1..(k - 1) /\ a < k /\ a # k)
    OBVIOUS
  <2>7. r[k] = x /\ \A a \in 1..k : a # k => r[a] = q[a] /\ q[a] \in R
    BY <2>5, <2>6
  <2>8. r \in [1..k -> T] /\ DOMAIN r = 1..k
    BY <2>2, <2>7
  <2> HIDE DEF r
  <2>9. ASSUME NEW a \in 1..k, NEW b \in 1..k, a # b PROVE r[a] # r[b]
    BY <2>5, <2>6, <2>7, <2>9
  <2>10. ASSUME NEW a \in 1..k, NEW b \in 1..k, a < b PROVE Newer(r[a], r[b])
    <3>1. a # k /\ a \in 1..(k - 1)
      BY <2>10
    <3>2. CASE b = k
      BY <2>2, <2>7, <3>1, <3>2
    <3>3. CASE b # k
      BY <2>4, <2>5, <2>6, <2>7, <2>10, <3>1, <3>3 DEF InOrder
    <3> QED
      BY <3>2, <3>3
  <2>11. r \in SetToSeqs(T)
    BY <2>8, <2>9 DEF SetToSeqs
  <2>12. InOrder(r)
    BY <2>8, <2>10 DEF InOrder
  <2> QED
    BY <2>11, <2>12
<1> HIDE DEF n, Has
<1>5. n \in G
  BY <1>1, <1>3, <1>4, UpTo
<1>6. Has(S)
  BY <1>2, <1>5 DEF n
<1> QED
  BY <1>6 DEF Has

-----------------------------------------------------------------------------
(* The sum of the reference: what the n-th entry adds to the weight of S.  *)
Gain(n, S) == IF load.entries[n] \in S THEN load.entries[n].bytes ELSE 0

LoadOK == load \in Loads /\ cutoff \in Cutoffs /\ max \in Maxima

LEMMA LoadIs ==
  ASSUME LoadOK
  PROVE  /\ N \in Nat /\ DOMAIN load.entries = 1..N /\ U64 \in Nat /\ Trash \in Nat
         /\ \A n \in 1..N : /\ load.entries[n] \in Entries /\ Ranked(load.entries[n])
                            /\ load.entries[n].bytes \in Nat
                            /\ load.entries[n].kind \in {"item", "orphan"}
         /\ \A m, n \in 1..N : load.entries[m].key = load.entries[n].key => m = n
         /\ All = {load.entries[n] : n \in 1..N}
         /\ cutoff \in Nat \cup {None} /\ max \in (0..U64) \cup {None} /\ None \notin Int
<1>1. /\ load.entries \in Seq(Entries)
      /\ \A m, n \in DOMAIN load.entries : m # n => load.entries[m].key # load.entries[n].key
      /\ cutoff \in Nat \cup {None} /\ max \in (0..U64) \cup {None} /\ None \notin Int
      /\ U64 \in Nat /\ Trash \in Nat
  BY EmptyAssumption DEF LoadOK
<1>2. N \in Nat /\ DOMAIN load.entries = 1..N
  BY <1>1 DEF N
<1>3. ASSUME NEW n \in 1..N
      PROVE  /\ load.entries[n] \in Entries /\ Ranked(load.entries[n])
             /\ load.entries[n].bytes \in Nat
             /\ load.entries[n].kind \in {"item", "orphan"}
  <2>1. load.entries[n] \in Entries
    BY <1>1, <1>2
  <2>2. /\ load.entries[n].key \in (1..Trash) \X Nat /\ load.entries[n].date \in Nat
        /\ load.entries[n].bytes \in 0..U64 /\ load.entries[n].kind \in {"item", "orphan"}
    BY <2>1 DEF Entries
  <2>3. load.entries[n].bytes \in Nat
    BY <1>1, <2>2
  <2> QED
    BY <2>1, <2>2, <2>3 DEF Ranked
<1>4. All = {load.entries[n] : n \in 1..N}
  BY <1>2 DEF All, Range
<1> QED
  BY <1>1, <1>2, <1>3, <1>4

(* The weight of a set is what its entries add, one after the other.       *)
LEMMA WeightIs ==
  ASSUME LoadOK, NEW S
  PROVE  \E w \in [0..N -> Nat] :
           /\ w[0] = 0 /\ Weight(S) = w[N]
           /\ \A k \in 1..N : w[k] = w[k - 1] + Gain(k, S)
<1> DEFINE n == N
           step == [x \in (1..n) \X Nat |-> x[2] + Gain(x[1], S)]
           F == CHOOSE f : f = [k \in 0..n |-> IF k = 0 THEN 0 ELSE f[k - 1] + Gain(k, S)]
<1>1. n \in Nat /\ \A k \in 1..n : Gain(k, S) \in Nat
  BY LoadIs DEF Gain
<1>2. Weight(S) = F[n]
  BY DEF Weight, N, Gain
<1> HIDE DEF n
<1>3. step \in [(1..n) \X Nat -> Nat]
  BY <1>1
<1>4. \A k \in 1..n, x \in Nat : step[<<k, x>>] = x + Gain(k, S)
  OBVIOUS
<1> HIDE DEF step
<1>5. PICK f : Unfolds(f, n, Nat, 0, step)
  BY <1>1, <1>3, Recursion
<1>6. f \in [0..n -> Nat] /\ f[0] = 0 /\ \A k \in 1..n : f[k] = step[<<k, f[k - 1]>>]
  BY <1>5 DEF Unfolds
<1>7. \A k \in 1..n : k - 1 \in 0..n /\ k # 0
  BY <1>1
<1>8. \A k \in 1..n : f[k] = f[k - 1] + Gain(k, S)
  BY <1>4, <1>6, <1>7
<1>9. f = [k \in 0..n |-> IF k = 0 THEN 0 ELSE f[k - 1] + Gain(k, S)]
  <2>1. \A k \in 0..n : k = 0 \/ k \in 1..n
    BY <1>1
  <2> QED
    BY <1>6, <1>8, <2>1
<1>10. F = [k \in 0..n |-> IF k = 0 THEN 0 ELSE F[k - 1] + Gain(k, S)]
  BY <1>9
<1> HIDE DEF F
<1>11. F[0] = 0 /\ \A k \in 1..n : F[k] = F[k - 1] + Gain(k, S)
  BY <1>1, <1>7, <1>10
<1> DEFINE G == {k \in 0..n : F[k] \in Nat}
<1>12. \A k \in 0..n : k \in G
  <2>1. 0 \in G
    BY <1>1, <1>11
  <2>2. \A k \in 1..n : k - 1 \in G => k \in G
    BY <1>1, <1>7, <1>11
  <2> HIDE DEF G
  <2> QED
    BY <1>1, <2>1, <2>2, UpTo
<1>13. F \in [0..n -> Nat]
  BY <1>10, <1>12
<1> QED
  BY <1>2, <1>11, <1>13 DEF n

(* More entries weigh no less, and one more weighs its bytes more.         *)
LEMMA WeightGrows ==
  ASSUME LoadOK, NEW S, NEW T, S \subseteq T
  PROVE  Weight(S) \in Nat /\ Weight(T) \in Nat /\ Weight(S) <= Weight(T)
<1>1. PICK v \in [0..N -> Nat] : /\ v[0] = 0 /\ Weight(S) = v[N]
                                 /\ \A k \in 1..N : v[k] = v[k - 1] + Gain(k, S)
  BY WeightIs
<1>2. PICK w \in [0..N -> Nat] : /\ w[0] = 0 /\ Weight(T) = w[N]
                                 /\ \A k \in 1..N : w[k] = w[k - 1] + Gain(k, T)
  BY WeightIs
<1> DEFINE n == N
           G == {k \in 0..n : v[k] <= w[k]}
<1>3. n \in Nat /\ \A k \in 1..n : Gain(k, S) \in Nat /\ Gain(k, T) \in Nat /\ Gain(k, S) <= Gain(k, T)
  BY LoadIs DEF Gain
<1>4. \A k \in 0..n : k \in G
  <2>1. 0 \in G
    BY <1>1, <1>2, <1>3
  <2>2. ASSUME NEW k \in 1..n, k - 1 \in G PROVE k \in G
    <3>1. k - 1 \in 0..n /\ v[k - 1] \in Nat /\ w[k - 1] \in Nat /\ v[k - 1] <= w[k - 1]
      BY <1>1, <1>2, <1>3, <2>2
    <3>2. v[k] <= w[k]
      BY <1>1, <1>2, <1>3, <3>1
    <3> QED
      BY <3>2
  <2> HIDE DEF G, n
  <2> QED
    BY <1>3, <2>1, <2>2, UpTo
<1> QED
  BY <1>1, <1>2, <1>3, <1>4

LEMMA WeightAdds ==
  ASSUME LoadOK, NEW S, NEW m \in 1..N, load.entries[m] \notin S
  PROVE  Weight(S \cup {load.entries[m]}) = Weight(S) + load.entries[m].bytes
<1> DEFINE T == S \cup {load.entries[m]}
           b == load.entries[m].bytes
<1>1. PICK v \in [0..N -> Nat] : /\ v[0] = 0 /\ Weight(S) = v[N]
                                 /\ \A k \in 1..N : v[k] = v[k - 1] + Gain(k, S)
  BY WeightIs
<1>2. PICK w \in [0..N -> Nat] : /\ w[0] = 0 /\ Weight(T) = w[N]
                                 /\ \A k \in 1..N : w[k] = w[k - 1] + Gain(k, T)
  BY WeightIs
<1> DEFINE n == N
           G == {k \in 0..n : w[k] = v[k] + IF m <= k THEN b ELSE 0}
<1>3. /\ n \in Nat /\ b \in Nat /\ m \in Nat
      /\ \A k \in 1..n : /\ Gain(k, S) \in Nat
                         /\ Gain(k, T) = Gain(k, S) + IF k = m THEN b ELSE 0
  <2>1. N \in Nat /\ b \in Nat /\ \A k \in 1..N : load.entries[k].bytes \in Nat
    BY LoadIs
  <2>2. ASSUME NEW k \in 1..N PROVE load.entries[k] = load.entries[m] <=> k = m
    BY LoadIs
  <2> QED
    BY <2>1, <2>2, SMTT(30) DEF Gain
<1>4. \A k \in 0..n : k \in G
  <2>1. 0 \in G
    BY <1>1, <1>2, <1>3
  <2>2. ASSUME NEW k \in 1..n, k - 1 \in G PROVE k \in G
    <3>1. /\ k - 1 \in 0..n /\ v[k - 1] \in Nat /\ w[k - 1] \in Nat
          /\ w[k - 1] = v[k - 1] + IF m <= k - 1 THEN b ELSE 0
      BY <1>1, <1>2, <1>3, <2>2
    <3>2. v[k] = v[k - 1] + Gain(k, S) /\ w[k] = w[k - 1] + Gain(k, T)
      BY <1>1, <1>2
    <3>3. w[k] = v[k] + IF m <= k THEN b ELSE 0
      <4> HIDE DEF T, b, G
      <4>1. Gain(k, S) \in Nat /\ Gain(k, T) = Gain(k, S) + IF k = m THEN b ELSE 0
        BY <1>3
      <4>2. k \in Nat /\ (m <= k <=> m <= k - 1 \/ k = m) /\ (k = m => ~(m <= k - 1))
        BY <1>3
      <4>3. CASE k = m
        BY <1>3, <3>1, <3>2, <4>1, <4>2, <4>3
      <4>4. CASE k # m
        BY <1>3, <3>1, <3>2, <4>1, <4>2, <4>4
      <4> QED
        BY <4>3, <4>4
    <3> QED
      BY <3>3
  <2> HIDE DEF G, n
  <2> QED
    BY <1>3, <2>1, <2>2, UpTo
<1>5. w[n] = v[n] + b
  <2>1. n \in 0..n /\ m <= n
    BY <1>3
  <2> QED
    BY <1>4, <2>1
<1> QED
  BY <1>1, <1>2, <1>5

LEMMA WeightNone == ASSUME LoadOK PROVE Weight({}) = 0
<1>1. PICK v \in [0..N -> Nat] : /\ v[0] = 0 /\ Weight({}) = v[N]
                                 /\ \A k \in 1..N : v[k] = v[k - 1] + Gain(k, {})
  BY WeightIs
<1> DEFINE n == N
           G == {k \in 0..n : v[k] = 0}
<1>2. n \in Nat
  BY LoadIs
<1>3. \A k \in 0..n : k \in G
  <2>1. 0 \in G
    BY <1>1, <1>2
  <2>2. ASSUME NEW k \in 1..n, k - 1 \in G PROVE k \in G
    BY <1>1, <1>2, <2>2 DEF Gain
  <2> HIDE DEF G, n
  <2> QED
    BY <1>2, <2>1, <2>2, UpTo
<1> QED
  BY <1>1, <1>2, <1>3

-----------------------------------------------------------------------------
(* The candidates are the entries, newest first.                           *)
Cands == [key : (1..Trash) \X Nat, date : Nat, entry : 1..N, batchable : BOOLEAN,
          size : Nat \cup {None}]
Sorted ==
  /\ c \in Seq(Cands) /\ Len(c) = N
  /\ \A k \in 1..N : /\ c[k].key = Ent(k).key /\ c[k].date = Ent(k).date
                     /\ c[k].batchable <=> Ent(k).kind = "item"
  /\ \A j, k \in 1..N : j < k => Newer(Ent(j), Ent(k))
  /\ \A n \in 1..N : \E k \in 1..N : c[k].entry = n

(* sort_by() makes them so, and knows no size yet.                         *)
LEMMA SortIs ==
  ASSUME LoadOK, Sort
  PROVE  Sorted' /\ \A k \in 1..N : c'[k].size = None
<1> DEFINE S == {Cand(n) : n \in DOMAIN load.entries}
           f == [n \in 1..N |-> Cand(n)]
<1>1. UNCHANGED load /\ N \in Nat /\ DOMAIN load.entries = 1..N /\ N' = N
  BY LoadIs DEF Sort, N
<1>2. S = {Cand(n) : n \in 1..N}
  BY <1>1
<1>3. ASSUME NEW n \in 1..N
      PROVE  /\ Cand(n).key = load.entries[n].key /\ Cand(n).date = load.entries[n].date
             /\ Cand(n).entry = n /\ Cand(n).size = None /\ Ranked(Cand(n))
             /\ Cand(n).batchable <=> load.entries[n].kind = "item"
             /\ Cand(n) \in Cands
  BY LoadIs DEF Cand, Cands, Ranked
<1> HIDE DEF S
<1>4. f \in Bijection(1..N, S)
  <2>1. \A m, n \in 1..N : Cand(m) = Cand(n) => m = n
    BY <1>3
  <2>2. f \in [1..N -> S] /\ \A n \in 1..N : f[n] = Cand(n)
    BY <1>2
  <2>3. \A x \in S : \E n \in 1..N : f[n] = x
    BY <1>2, <2>2
  <2> HIDE DEF f
  <2>4. f \in Injection(1..N, S)
    BY <2>1, <2>2 DEF Injection, IsInjective
  <2>5. f \in Surjection(1..N, S)
    BY <2>2, <2>3 DEF Surjection
  <2> QED
    BY <2>4, <2>5 DEF Bijection
<1> HIDE DEF f
<1>5. IsFiniteSet(S) /\ Cardinality(S) = N
  <2>1. IsFiniteSet(1..N) /\ Cardinality(1..N) = N
    BY <1>1, FS_Interval
  <2> QED
    BY <1>4, <2>1, FS_Bijection DEF ExistsBijection
<1>6. Sortable(S)
  <2>1. ASSUME NEW x \in S, NEW y \in S, x.key = y.key PROVE x = y
    <3>1. PICK m \in 1..N, n \in 1..N : x = Cand(m) /\ y = Cand(n)
      BY <1>2
    <3>2. load.entries[m].key = load.entries[n].key
      BY <1>3, <2>1, <3>1
    <3>3. m = n
      BY <3>2, LoadIs
    <3> QED
      BY <3>1, <3>3
  <2>2. \A x \in S : Ranked(x)
    BY <1>2, <1>3
  <2> QED
    BY <1>5, <2>1, <2>2 DEF Sortable
<1>7. c' \in SetToSeqs(S) /\ InOrder(c')
  <2>1. \E q \in SetToSeqs(S) : InOrder(q)
    BY <1>6, HasOrder
  <2>2. c' = CHOOSE q \in SetToSeqs(S) : InOrder(q)
    BY DEF Sort, InOrder, S
  <2> QED
    BY <2>1, <2>2
<1>8. c' \in [1..N -> S] /\ \A j, k \in 1..N : j # k => c'[j] # c'[k]
  BY <1>5, <1>7 DEF SetToSeqs
<1>9. c' \in Seq(Cands) /\ Len(c') = N /\ DOMAIN c' = 1..N
  <2>1. S \subseteq Cands
    BY <1>2, <1>3
  <2>2. c' \in [1..N -> Cands]
    BY <1>8, <2>1
  <2> QED
    BY <1>1, <2>2
<1>10. \A k \in 1..N : c'[k] = Cand(c'[k].entry) /\ c'[k].entry \in 1..N
  <2> SUFFICES ASSUME NEW k \in 1..N PROVE c'[k] = Cand(c'[k].entry) /\ c'[k].entry \in 1..N
    OBVIOUS
  <2>1. PICK n \in 1..N : c'[k] = Cand(n)
    BY <1>2, <1>8
  <2> QED
    BY <1>3, <2>1
<1>11. \A k \in 1..N : Ent(k)' = load.entries[c'[k].entry]
  BY <1>1 DEF Ent
<1>12. ASSUME NEW j \in 1..N, NEW k \in 1..N, j < k PROVE Newer(Ent(j)', Ent(k)')
  <2>1. Newer(c'[j], c'[k])
    BY <1>7, <1>9, <1>12 DEF InOrder
  <2>2. /\ c'[j].key = Ent(j)'.key /\ c'[j].date = Ent(j)'.date
        /\ c'[k].key = Ent(k)'.key /\ c'[k].date = Ent(k)'.date
    BY <1>3, <1>10, <1>11
  <2> HIDE DEF Ent
  <2> QED
    BY <2>1, <2>2 DEF Newer
<1>13. \A n \in 1..N : \E k \in 1..N : c'[k].entry = n
  <2>1. c' \in Injection(1..N, S)
    BY <1>8 DEF Injection, IsInjective
  <2>2. IsFiniteSet(1..N) /\ Cardinality(1..N) = N
    BY <1>1, FS_Interval
  <2>3. c' \in Surjection(1..N, S)
    BY <1>5, <2>1, <2>2, FS_Injection
  <2>4. ASSUME NEW n \in 1..N PROVE \E k \in 1..N : c'[k].entry = n
    <3>1. Cand(n) \in S
      BY <1>2
    <3>2. PICK k \in 1..N : c'[k] = Cand(n)
      BY <2>3, <3>1 DEF Surjection
    <3> QED
      BY <1>3, <3>2
  <2> QED
    BY <2>4
<1>14. \A k \in 1..N : /\ c'[k].key = Ent(k)'.key /\ c'[k].date = Ent(k)'.date
                       /\ c'[k].batchable <=> Ent(k)'.kind = "item"
                       /\ c'[k].size = None
  BY <1>3, <1>10, <1>11
<1>15. Cands' = Cands
  BY <1>1 DEF Cands
<1> QED
  BY <1>1, <1>9, <1>12, <1>13, <1>14, <1>15 DEF Sorted

(* An entry has one place in the order, and the order is that of `Newer`.  *)
LEMMA EntIs ==
  ASSUME LoadOK, Sorted
  PROVE  /\ DOMAIN c = 1..N /\ N \in Nat /\ \A k \in 1..N : c[k] \in Cands
         /\ \A k \in 1..N : /\ c[k].entry \in 1..N /\ Ent(k) = load.entries[c[k].entry]
                            /\ Ent(k) \in All /\ Ranked(Ent(k)) /\ Ent(k).bytes \in Nat
                            /\ Ent(k).kind \in {"item", "orphan"}
         /\ \A x \in All : \E k \in 1..N : x = Ent(k)
         /\ \A j, k \in 1..N : /\ j < k <=> Newer(Ent(j), Ent(k))
                               /\ j <= k => Ent(j).date >= Ent(k).date
                               /\ Ent(j).key = Ent(k).key => j = k
<1>1. DOMAIN c = 1..N /\ N \in Nat /\ \A k \in 1..N : c[k] \in Cands /\ c[k].entry \in 1..N
  <2>1. c \in Seq(Cands) /\ Len(c) = N
    BY DEF Sorted
  <2>2. DOMAIN c = 1..N /\ N \in Nat /\ \A k \in 1..N : c[k] \in Cands
    BY <2>1
  <2> QED
    BY <2>2 DEF Cands
<1>2. ASSUME NEW k \in 1..N
      PROVE  /\ Ent(k) = load.entries[c[k].entry]
             /\ Ent(k) \in All /\ Ranked(Ent(k)) /\ Ent(k).bytes \in Nat
             /\ Ent(k).kind \in {"item", "orphan"}
  BY <1>1, LoadIs DEF Ent
<1>3. ASSUME NEW x \in All PROVE \E k \in 1..N : x = Ent(k)
  <2>1. PICK n \in 1..N : x = load.entries[n]
    BY LoadIs
  <2>2. PICK k \in 1..N : c[k].entry = n
    BY DEF Sorted
  <2> QED
    BY <2>1, <2>2 DEF Ent
<1>4. ASSUME NEW j \in 1..N, NEW k \in 1..N
      PROVE  /\ j < k <=> Newer(Ent(j), Ent(k))
             /\ j <= k => Ent(j).date >= Ent(k).date
             /\ Ent(j).key = Ent(k).key => j = k
  <2> HIDE DEF Ent
  <2>1. Ranked(Ent(j)) /\ Ranked(Ent(k))
    BY <1>2
  <2>2. /\ j < k => Newer(Ent(j), Ent(k))
        /\ k < j => Newer(Ent(k), Ent(j))
    BY DEF Sorted
  <2>3. /\ ~Newer(Ent(j), Ent(j)) /\ ~(Newer(Ent(j), Ent(k)) /\ Newer(Ent(k), Ent(j)))
        /\ Newer(Ent(j), Ent(k)) => Ent(j).date >= Ent(k).date
    BY <2>1, NewerOrder
  <2>4. j < k \/ k < j \/ j = k
    OBVIOUS
  <2>5. Ent(j).date \in Nat
    BY <2>1 DEF Ranked
  <2>6. ASSUME Ent(j).key = Ent(k).key PROVE j = k
    <3>1. c[j].entry = c[k].entry
      BY <1>1, <1>2, <2>6, LoadIs
    <3>2. Ent(j) = Ent(k)
      BY <3>1 DEF Ent
    <3> QED
      BY <2>2, <2>3, <2>4, <3>2
  <2> QED
    BY <2>2, <2>3, <2>4, <2>5, <2>6
<1> QED
  BY <1>1, <1>2, <1>3, <1>4

-----------------------------------------------------------------------------
(* The m newest, and what they weigh.                                      *)
First(m) == {Ent(k) : k \in 1..m}

LEMMA FirstIs ==
  ASSUME LoadOK, Sorted
  PROVE  /\ Weight(First(0)) = 0
         /\ \A m \in 0..N : Weight(First(m)) \in Nat
         /\ \A m \in 1..N : Weight(First(m)) = Weight(First(m - 1)) + Ent(m).bytes
<1>1. Weight(First(0)) = 0
  <2>1. First(0) = {}
    BY DEF First
  <2> QED
    BY <2>1, WeightNone
<1>2. \A m \in 0..N : Weight(First(m)) \in Nat
  BY WeightGrows
<1>3. ASSUME NEW m \in 1..N PROVE Weight(First(m)) = Weight(First(m - 1)) + Ent(m).bytes
  <2>1. c[m].entry \in 1..N /\ Ent(m) = load.entries[c[m].entry] /\ N \in Nat
    BY EntIs
  <2>2. ASSUME NEW k \in 1..(m - 1) PROVE Ent(k) # Ent(m)
    <3>1. k \in 1..N /\ k # m
      BY <2>1
    <3> QED
      BY <3>1, EntIs
  <2>3. Ent(m) \notin First(m - 1)
    BY <2>2 DEF First
  <2>4. First(m) = First(m - 1) \cup {Ent(m)}
    <3>1. \A k : k \in 1..m <=> k \in 1..(m - 1) \/ k = m
      BY <2>1
    <3> HIDE DEF Ent
    <3> QED
      BY <3>1 DEF First
  <2> QED
    BY <2>1, <2>3, <2>4, WeightAdds
<1> QED
  BY <1>1, <1>2, <1>3

-----------------------------------------------------------------------------
(* Two entries are of one batch if all from the one to the other are items *)
(* of one date.                                                            *)
LEMMA BatchIs ==
  ASSUME LoadOK, Sorted, NEW j \in 1..N, NEW k \in 1..N, j < k
  PROVE  /\ SameBatch(Ent(j), Ent(k)) <=> SameBatch(Ent(k), Ent(j))
         /\ SameBatch(Ent(j), Ent(k))
              <=> \A m \in j..k : Ent(m).kind = "item" /\ Ent(m).date = Ent(j).date
<1>1. /\ N \in Nat /\ Newer(Ent(j), Ent(k)) /\ ~Newer(Ent(k), Ent(j)) /\ Ent(j) # Ent(k)
  BY EntIs
<1>2. ASSUME NEW o \in All
      PROVE  /\ ~(Newer(Ent(k), o) /\ Newer(o, Ent(j)))
             /\ Newer(Ent(j), o) /\ Newer(o, Ent(k)) => \E m \in j..k : o = Ent(m)
  <2>1. PICK m \in 1..N : o = Ent(m)
    BY EntIs
  <2>2. /\ Newer(Ent(j), o) <=> j < m
        /\ Newer(o, Ent(k)) <=> m < k
        /\ Newer(Ent(k), o) <=> k < m
        /\ Newer(o, Ent(j)) <=> m < j
    BY <2>1, EntIs
  <2> QED
    BY <2>1, <2>2
<1>3. SameBatch(Ent(j), Ent(k)) <=>
        /\ Ent(j).kind = "item" /\ Ent(k).kind = "item" /\ Ent(j).date = Ent(k).date
        /\ ~\E o \in All : o.kind = "orphan" /\ Newer(Ent(j), o) /\ Newer(o, Ent(k))
  <2> HIDE DEF Ent
  <2> QED
    BY <1>1, <1>2 DEF SameBatch
<1>4. SameBatch(Ent(j), Ent(k)) <=> SameBatch(Ent(k), Ent(j))
  <2> HIDE DEF Ent
  <2> QED
    BY <1>1, <1>2, <1>3 DEF SameBatch
<1>5. ASSUME SameBatch(Ent(j), Ent(k)), NEW m \in j..k
      PROVE  Ent(m).kind = "item" /\ Ent(m).date = Ent(j).date
  <2>1. m \in 1..N /\ j <= m /\ m <= k
    BY <1>1
  <2>2. /\ Ent(m) \in All /\ Ent(m).kind \in {"item", "orphan"} /\ Ranked(Ent(m))
        /\ Ent(j).date >= Ent(m).date /\ Ent(m).date >= Ent(k).date
        /\ Ranked(Ent(j)) /\ Ranked(Ent(k))
    BY <2>1, EntIs
  <2>3. Ent(m).date = Ent(j).date
    <3>1. Ent(j).date = Ent(k).date
      BY <1>3, <1>5
    <3>2. Ent(m).date \in Nat /\ Ent(j).date \in Nat
      BY <2>2 DEF Ranked
    <3> QED
      BY <2>2, <3>1, <3>2
  <2>4. CASE m = j \/ m = k
    BY <1>3, <1>5, <2>3, <2>4
  <2>5. CASE m # j /\ m # k
    <3>1. Newer(Ent(j), Ent(m)) /\ Newer(Ent(m), Ent(k))
      BY <2>1, <2>5, EntIs
    <3>2. Ent(m).kind # "orphan"
      BY <1>3, <1>5, <2>2, <3>1
    <3> QED
      BY <2>2, <2>3, <3>2
  <2> QED
    BY <2>4, <2>5
<1>6. ASSUME \A m \in j..k : Ent(m).kind = "item" /\ Ent(m).date = Ent(j).date
      PROVE  SameBatch(Ent(j), Ent(k))
  <2>1. j \in j..k /\ k \in j..k
    OBVIOUS
  <2>2. ASSUME NEW o \in All, o.kind = "orphan", Newer(Ent(j), o), Newer(o, Ent(k)) PROVE FALSE
    <3>1. PICK m \in j..k : o = Ent(m)
      BY <1>2, <2>2
    <3> QED
      BY <1>6, <2>2, <3>1
  <2> QED
    BY <1>3, <1>6, <2>1, <2>2
<1> QED
  BY <1>4, <1>5, <1>6

(* The batch that the loop is in: from `start` up to i, and no entry before*)
(* it is of it.                                                            *)
Alike == {x \in (1..N) \X (1..N) :
            /\ Ent(x[1]).kind = "item" /\ Ent(x[2]).kind = "item"
            /\ Ent(x[1]).date = Ent(x[2]).date}
Mates == {x \in (1..N) \X (1..N) : SameBatch(Ent(x[1]), Ent(x[2]))}
InBatch(k) == k = start \/ <<start, k>> \in Alike
Batched ==
  /\ start \in 1..(N + 1) /\ i \in start..(N + 1)
  /\ \A k \in start..(i - 1) : InBatch(k)
  /\ \A j \in 1..(start - 1), k \in start..N : <<j, k>> \notin Mates

LEMMA JoinsIs ==
  ASSUME LoadOK, Sorted, NEW k \in 1..(N + 1), start \in 1..N
  PROVE  Joins(k) <=> k <= N /\ <<start, k>> \in Alike
<1>1. Len(c) = N /\ N \in Nat
  BY LoadIs DEF Sorted
<1>2. k <= N => k \in 1..N
  BY <1>1
<1>3. /\ c[start].batchable <=> Ent(start).kind = "item"
      /\ c[start].date = Ent(start).date
      /\ k <= N => /\ c[k].batchable <=> Ent(k).kind = "item"
                   /\ c[k].date = Ent(k).date
  BY <1>2 DEF Sorted
<1> QED
  BY <1>1, <1>2, <1>3 DEF Joins, Alike

(* All of it are of one batch,                                             *)
LEMMA BatchWithin ==
  ASSUME LoadOK, Sorted, Batched, NEW j \in start..(i - 1), NEW k \in start..(i - 1)
  PROVE  SameBatch(Ent(j), Ent(k))
<1>1. /\ N \in Nat /\ start \in 1..N /\ i \in Nat /\ start..(i - 1) \subseteq 1..N
      /\ \A m \in start..(i - 1) : InBatch(m)
  BY LoadIs DEF Batched
<1>2. ASSUME NEW a \in start..(i - 1), NEW b \in start..(i - 1), a < b
      PROVE  SameBatch(Ent(a), Ent(b)) /\ SameBatch(Ent(b), Ent(a))
  <2>1. a \in 1..N /\ b \in 1..N /\ b # start
    BY <1>1, <1>2
  <2>2. Ent(start).kind = "item"
    BY <1>1, <2>1 DEF InBatch, Alike
  <2>3. ASSUME NEW m \in start..(i - 1)
        PROVE  Ent(m).kind = "item" /\ Ent(m).date = Ent(start).date
    BY <1>1, <2>2 DEF InBatch, Alike
  <2>4. \A m \in a..b : m \in start..(i - 1)
    BY <1>1
  <2>5. \A m \in a..b : Ent(m).kind = "item" /\ Ent(m).date = Ent(a).date
    BY <2>3, <2>4
  <2> HIDE DEF Ent
  <2> QED
    BY <1>2, <2>1, <2>5, BatchIs
<1>3. j < k \/ k < j \/ j = k
  BY <1>1
<1>4. CASE j = k
  BY <1>4 DEF SameBatch
<1> QED
  BY <1>2, <1>3, <1>4

(* and when no more joins, none after it is.                               *)
LEMMA BatchEnds ==
  ASSUME LoadOK, Sorted, Batched, start \in 1..N, i > start, ~Joins(i),
         NEW j \in 1..(i - 1), NEW k \in i..N
  PROVE  ~SameBatch(Ent(j), Ent(k)) /\ ~SameBatch(Ent(k), Ent(j))
<1>1. N \in Nat /\ i \in 1..(N + 1) /\ j \in 1..N /\ k \in 1..N /\ j < k /\ i \in 1..N
  BY LoadIs DEF Batched
<1>2. SameBatch(Ent(j), Ent(k)) <=> SameBatch(Ent(k), Ent(j))
  BY <1>1, BatchIs
<1>3. ASSUME SameBatch(Ent(j), Ent(k)) PROVE FALSE
  <2>1. \A m \in j..k : Ent(m).kind = "item" /\ Ent(m).date = Ent(j).date
    BY <1>1, <1>3, BatchIs
  <2>2. j \in start..(i - 1)
    <3>1. ~(j \in 1..(start - 1)) \/ ~(k \in start..N)
      BY <1>1, <1>3 DEF Batched, Mates
    <3> QED
      BY <1>1, <3>1
  <2>3. InBatch(j)
    BY <2>2 DEF Batched
  <2>4. j \in j..k /\ i \in j..k
    BY <1>1
  <2>5. Ent(start).kind = "item" /\ Ent(j).date = Ent(start).date
    BY <2>1, <2>3, <2>4 DEF InBatch, Alike
  <2>6. Ent(i).kind = "item" /\ Ent(i).date = Ent(start).date
    BY <2>1, <2>4, <2>5
  <2>7. <<start, i>> \in Alike
    BY <1>1, <2>5, <2>6 DEF Alike
  <2>8. Joins(i)
    BY <1>1, <2>7, JoinsIs
  <2> QED
    BY <2>8
<1> QED
  BY <1>2, <1>3

-----------------------------------------------------------------------------
(* What the m newest weigh, the places of what is too much, and of what    *)
(* goes from the start.                                                    *)
Heft == [m \in 0..N |-> Weight(First(m))]
Big == {k \in 1..N : TooMuch(Ent(k))}
Aged == {k \in 1..N : (cutoff = None /\ max = None) \/ Old(Ent(k))}

(* None of this changes when a size is filled in.                          *)
Unchanging == UNCHANGED <<load, cutoff, max>>

LEMMA SameOrder ==
  ASSUME LoadOK, Sorted, Unchanging, c' \in Seq(Cands), Len(c') = N,
         \A k \in 1..N : /\ c'[k].key = c[k].key /\ c'[k].date = c[k].date
                         /\ c'[k].entry = c[k].entry /\ c'[k].batchable = c[k].batchable
  PROVE  /\ LoadOK' /\ Sorted' /\ N' = N /\ \A k \in 1..N : Ent(k)' = Ent(k)
         /\ Heft' = Heft /\ Big' = Big /\ Aged' = Aged /\ Alike' = Alike /\ Mates' = Mates
<1>1. LoadOK' /\ N' = N /\ N \in Nat
  BY LoadIs DEF Unchanging, LoadOK, N
<1>2. \A k \in 1..N : Ent(k)' = Ent(k)
  BY DEF Unchanging, Ent
<1>3. Sorted'
  <2>1. Cands' = Cands
    BY <1>1 DEF Cands
  <2>2. \A k \in 1..N : /\ c'[k].key = Ent(k)'.key /\ c'[k].date = Ent(k)'.date
                        /\ c'[k].batchable <=> Ent(k)'.kind = "item"
    <3> HIDE DEF Ent
    <3> QED
      BY <1>2, ZenonT(40) DEF Sorted
  <2>3. \A j, k \in 1..N : j < k => Newer(Ent(j)', Ent(k)')
    <3> HIDE DEF Ent
    <3> QED
      BY <1>2 DEF Sorted
  <2>4. \A n \in 1..N : \E k \in 1..N : c'[k].entry = n
    BY ZenonT(40) DEF Sorted
  <2>5. \A j, k \in 1..N : j < k => Newer(Ent(j), Ent(k))'
    BY <2>3 DEF Newer
  <2> QED
    BY <1>1, <2>1, <2>2, <2>4, <2>5 DEF Sorted
<1>4. Heft' = Heft
  <2>1. ASSUME NEW m \in 0..N PROVE First(m)' = First(m)
    <3>1. \A k \in 1..m : k \in 1..N
      BY <1>1
    <3> HIDE DEF Ent
    <3> QED
      BY <1>2, <3>1 DEF First
  <2>2. ASSUME NEW m \in 0..N PROVE Weight(First(m))' = Weight(First(m))
    <3>1. First(m)' = First(m)
      BY <2>1
    <3>2. load' = load
      BY DEF Unchanging
    <3> HIDE DEF First
    <3> QED
      BY <3>1, <3>2 DEF Weight
  <2> QED
    BY <1>1, <2>2 DEF Heft
<1>5. Big' = Big
  <2>1. ASSUME NEW k \in 1..N PROVE TooMuch(Ent(k))' <=> TooMuch(Ent(k))
    <3>1. NoOlder(Ent(k))' = NoOlder(Ent(k))
      <4>1. Ent(k)' = Ent(k)
        BY <1>2
      <4> HIDE DEF Ent
      <4> QED
        BY <4>1 DEF Unchanging, NoOlder, SameBatch, All, Newer
    <3>2. Weight(NoOlder(Ent(k)))' = Weight(NoOlder(Ent(k)))
      BY <3>1 DEF Unchanging, Weight
    <3> QED
      BY <3>2 DEF Unchanging, TooMuch, Add
  <2> QED
    BY <1>1, <2>1 DEF Big
<1>6. Aged' = Aged
  <2>1. ASSUME NEW k \in 1..N PROVE Old(Ent(k))' <=> Old(Ent(k))
    <3>1. Ent(k)' = Ent(k)
      BY <1>2
    <3> HIDE DEF Ent
    <3> QED
      BY <3>1 DEF Old, Unchanging
  <2> QED
    BY <1>1, <2>1 DEF Aged, Unchanging
<1>7. Alike' = Alike
  <2>1. ASSUME NEW j \in 1..N, NEW k \in 1..N
        PROVE  /\ Ent(j)'.kind = Ent(j).kind /\ Ent(j)'.date = Ent(j).date
               /\ Ent(k)'.kind = Ent(k).kind /\ Ent(k)'.date = Ent(k).date
    BY <1>2
  <2> HIDE DEF Ent
  <2> QED
    BY <1>1, <2>1 DEF Alike
<1>8. Mates' = Mates
  <2>1. ASSUME NEW j \in 1..N, NEW k \in 1..N
        PROVE  SameBatch(Ent(j), Ent(k))' <=> SameBatch(Ent(j), Ent(k))
    <3>1. Ent(j)' = Ent(j) /\ Ent(k)' = Ent(k)
      BY <1>2
    <3> HIDE DEF Ent
    <3> QED
      BY <3>1 DEF Unchanging, SameBatch, All, Newer
  <2>2. \A x \in (1..N) \X (1..N) :
          SameBatch(Ent(x[1]), Ent(x[2]))' <=> SameBatch(Ent(x[1]), Ent(x[2]))
    BY <2>1
  <2> QED
    BY <1>1, <2>2 DEF Mates
<1> QED
  BY <1>1, <1>2, <1>3, <1>4, <1>5, <1>6, <1>7, <1>8

-----------------------------------------------------------------------------
(* When a batch ends, what is no older than one of it is what has been     *)
(* walked; and what has been walked is no older than any that is left.     *)
LEMMA NoOlderIs ==
  ASSUME LoadOK, Sorted, Batched, start \in 1..N, i > start, ~Joins(i)
  PROVE  /\ \A k \in start..(i - 1) : NoOlder(Ent(k)) = First(i - 1)
         /\ \A k \in i..N : First(i - 1) \subseteq NoOlder(Ent(k))
<1>1. N \in Nat /\ i \in 1..(N + 1) /\ start \in 1..N
  BY LoadIs DEF Batched
<1>2. \A k : k \in 1..(i - 1) => k \in 1..N
  BY <1>1
<1>3. ASSUME NEW k \in start..(i - 1) PROVE NoOlder(Ent(k)) = First(i - 1)
  <2>1. k \in 1..N /\ k < i
    BY <1>1
  <2>2. ASSUME NEW j \in 1..(i - 1) PROVE Ent(j) \in NoOlder(Ent(k))
    <3>1. j \in 1..N /\ Ent(j) \in All
      BY <1>2, EntIs
    <3>2. CASE j < k
      BY <2>1, <3>1, <3>2, EntIs DEF NoOlder
    <3>3. CASE ~(j < k)
      <4>1. j \in start..(i - 1)
        BY <1>1, <3>3
      <4>2. SameBatch(Ent(k), Ent(j))
        BY <4>1, BatchWithin
      <4> QED
        BY <3>1, <4>2 DEF NoOlder
    <3> QED
      BY <3>2, <3>3
  <2>3. ASSUME NEW b \in NoOlder(Ent(k)) PROVE b \in First(i - 1)
    <3>1. b \in All /\ (Newer(b, Ent(k)) \/ SameBatch(Ent(k), b))
      BY DEF NoOlder
    <3>2. PICK j \in 1..N : b = Ent(j)
      BY <3>1, EntIs
    <3>3. j <= i - 1
      <4> SUFFICES ASSUME ~(j <= i - 1) PROVE FALSE
        OBVIOUS
      <4>1. j \in i..N /\ k \in 1..(i - 1)
        BY <1>1, <2>1
      <4>2. ~SameBatch(Ent(k), Ent(j))
        BY <4>1, BatchEnds
      <4>3. ~Newer(Ent(j), Ent(k))
        <5>1. ~(j < k)
          BY <1>1, <2>1, <4>1
        <5> QED
          BY <2>1, <3>2, <5>1, EntIs
      <4> HIDE DEF Ent
      <4> QED
        BY <3>1, <3>2, <4>2, <4>3
    <3> QED
      BY <1>1, <3>2, <3>3 DEF First
  <2> QED
    BY <2>2, <2>3 DEF First
<1>4. ASSUME NEW k \in i..N PROVE First(i - 1) \subseteq NoOlder(Ent(k))
  <2>1. ASSUME NEW j \in 1..(i - 1) PROVE Ent(j) \in NoOlder(Ent(k))
    <3>1. j \in 1..N /\ k \in 1..N /\ j < k /\ Ent(j) \in All
      BY <1>1, <1>2, EntIs
    <3>2. Newer(Ent(j), Ent(k))
      BY <3>1, EntIs
    <3> QED
      BY <3>1, <3>2 DEF NoOlder
  <2> QED
    BY <2>1 DEF First
<1> QED
  BY <1>3, <1>4

(* What the m newest weigh, as the loop adds it up.                        *)
LEMMA HeftIs ==
  ASSUME LoadOK, Sorted
  PROVE  /\ Heft[0] = 0 /\ \A m \in 0..N : Heft[m] \in Nat
         /\ \A m \in 1..N : Heft[m] = Heft[m - 1] + Ent(m).bytes
<1>1. N \in Nat /\ \A m \in 0..N : Heft[m] = Weight(First(m))
  BY LoadIs DEF Heft
<1>2. 0 \in 0..N /\ \A m \in 1..N : m \in 0..N /\ m - 1 \in 0..N
  BY <1>1
<1> QED
  BY <1>1, <1>2, FirstIs

(* So the loop's total tells which are too much.                           *)
LEMMA Cut ==
  ASSUME LoadOK, Sorted, Batched, start \in 1..N, i > start, ~Joins(i), max # None
  PROVE  /\ \A k \in start..(i - 1) : k \in Big <=> Add(Heft[i - 1], 0) > max
         /\ Add(Heft[i - 1], 0) > max => i..N \subseteq Big
<1>1. /\ N \in Nat /\ i \in 1..(N + 1) /\ start \in 1..N /\ i - 1 \in 0..N
      /\ U64 \in Nat /\ max \in 0..U64
  BY LoadIs DEF Batched
<1>2. Heft[i - 1] = Weight(First(i - 1)) /\ Heft[i - 1] \in Nat
  BY <1>1, HeftIs DEF Heft
<1>3. ASSUME NEW k \in start..(i - 1) PROVE k \in Big <=> Add(Heft[i - 1], 0) > max
  <2>1. k \in 1..N
    BY <1>1
  <2>2. NoOlder(Ent(k)) = First(i - 1)
    BY NoOlderIs
  <2>3. TooMuch(Ent(k)) <=> Add(Heft[i - 1], 0) > max
    BY <1>2, <2>2 DEF TooMuch
  <2> QED
    BY <2>1, <2>3 DEF Big
<1>4. ASSUME Add(Heft[i - 1], 0) > max, NEW k \in i..N PROVE k \in Big
  <2>1. k \in 1..N
    BY <1>1
  <2>2. First(i - 1) \subseteq NoOlder(Ent(k))
    BY NoOlderIs
  <2> DEFINE w == Weight(NoOlder(Ent(k)))
  <2>3. w \in Nat /\ Heft[i - 1] <= w
    BY <1>2, <2>2, WeightGrows
  <2> HIDE DEF w
  <2>4. /\ Add(w, 0) = IF w + 0 <= U64 THEN w + 0 ELSE U64
        /\ Add(Heft[i - 1], 0) = IF Heft[i - 1] + 0 <= U64 THEN Heft[i - 1] + 0 ELSE U64
    BY <1>2, <2>3, AddIs
  <2>5. Add(w, 0) > max
    BY <1>1, <1>2, <1>4, <2>3, <2>4
  <2>6. TooMuch(Ent(k))
    BY <2>5 DEF TooMuch, w
  <2> QED
    BY <2>1, <2>6 DEF Big
<1> QED
  BY <1>3, <1>4

-----------------------------------------------------------------------------
(* What one trash directory is handed: the keys of its doomed candidates,  *)
(* from the last to the first.                                             *)
Due(t) == {k \in 1..N : k \in doomed /\ Ent(k).key[1] = t}
Keys == (1..Trash) \X Nat
Lists(q, p, t) ==
  /\ q \in Seq(Keys) /\ p \in [1..Len(q) -> Due(t)]
  /\ \A j \in 1..Len(q) : q[j] = Ent(p[j]).key
  /\ \A j, k \in 1..Len(q) : j < k => p[k] < p[j]

LEMMA Pushes ==
  ASSUME LoadOK, Sorted, NEW t
  PROVE  \E q \in [0..N -> Seq(Keys)] :
           /\ q[0] = <<>> /\ ByTrash(t) = q[N]
           /\ \A n \in 1..N : q[n] = IF N + 1 - n \in Due(t)
                                     THEN Append(q[n - 1], Ent(N + 1 - n).key)
                                     ELSE q[n - 1]
<1> DEFINE m == N
           S == Seq(Keys)
           place(n) == m + 1 - n
           add(n, s) == IF place(n) \in Due(t) THEN Append(s, Ent(place(n)).key) ELSE s
           step == [x \in (1..m) \X S |-> add(x[1], x[2])]
           F == CHOOSE f : f = [n \in 0..m |-> IF n = 0 THEN <<>> ELSE add(n, f[n - 1])]
           raw == [n \in 0..m |-> n]
<1>1. m \in Nat /\ Len(c) = m /\ \A n \in 1..m : place(n) \in 1..m
  <2>1. N \in Nat /\ Len(c) = N
    BY LoadIs DEF Sorted
  <2> QED
    BY <2>1
<1>2. \A k \in 1..m : Ent(k).key \in Keys
  BY EntIs DEF Ranked, Keys
<1>3. ByTrash(t) = F[m]
  <2> DEFINE push(n, s) == LET k == Len(c) + 1 - n IN
                IF k \in doomed /\ load.entries[c[k].entry].key[1] = t
                THEN Append(s, load.entries[c[k].entry].key) ELSE s
             A(f) == [n \in 0..m |-> IF n = 0 THEN <<>> ELSE push(n, f[n - 1])]
             B(f) == [n \in 0..m |-> IF n = 0 THEN <<>> ELSE add(n, f[n - 1])]
  <2>1. ByTrash(t) = (CHOOSE f : f = A(f))[m]
    BY <1>1 DEF ByTrash
  <2>2. \A n \in 1..m : \A s : push(n, s) = add(n, s)
    BY <1>1 DEF Due, Ent
  <2> HIDE DEF push, add
  <2>3. \A f : A(f) = B(f)
    <3>1. \A n \in 0..m : n = 0 \/ n \in 1..m
      BY <1>1
    <3> QED
      BY <2>2, <3>1
  <2> HIDE DEF A, B
  <2>4. (CHOOSE f : f = A(f)) = (CHOOSE f : f = B(f))
    BY <2>3
  <2> QED
    BY <2>1, <2>4 DEF B
<1> HIDE DEF m, S
<1>4. \A n \in 1..m, s \in S : add(n, s) \in S
  BY <1>1, <1>2 DEF S
<1>5. step \in [(1..m) \X S -> S] /\ \A n \in 1..m, s \in S : step[<<n, s>>] = add(n, s)
  <2> HIDE DEF add
  <2> QED
    BY <1>4
<1>6. <<>> \in S
  BY DEF S
<1> HIDE DEF step, add
<1>7. PICK f : Unfolds(f, m, S, <<>>, step)
  BY <1>1, <1>5, <1>6, Recursion
<1>8. f \in [0..m -> S] /\ f[0] = <<>> /\ \A n \in 1..m : f[n] = step[<<n, f[n - 1]>>]
  BY <1>7 DEF Unfolds
<1>9. \A n \in 1..m : n - 1 \in 0..m /\ n # 0
  BY <1>1
<1>10. \A n \in 1..m : f[n] = add(n, f[n - 1])
  BY <1>5, <1>8, <1>9
<1>11. f = [n \in 0..m |-> IF n = 0 THEN <<>> ELSE add(n, f[n - 1])]
  <2>1. \A n \in 0..m : n = 0 \/ n \in 1..m
    BY <1>1
  <2> QED
    BY <1>8, <1>10, <2>1
<1>12. F = [n \in 0..m |-> IF n = 0 THEN <<>> ELSE add(n, F[n - 1])]
  BY <1>11
<1> HIDE DEF F
<1>13. F[0] = <<>> /\ \A n \in 1..m : F[n] = add(n, F[n - 1])
  BY <1>1, <1>9, <1>12
<1> DEFINE G == {n \in 0..m : F[n] \in S}
<1>14. \A n \in 0..m : n \in G
  <2>1. 0 \in G
    BY <1>1, <1>6, <1>13
  <2>2. \A n \in 1..m : n - 1 \in G => n \in G
    BY <1>4, <1>9, <1>13
  <2> HIDE DEF G
  <2> QED
    BY <1>1, <2>1, <2>2, UpTo
<1>15. F \in [0..m -> S]
  BY <1>12, <1>14
<1> QED
  BY <1>3, <1>13, <1>15 DEF m, S, add

LEMMA ByTrashIs ==
  ASSUME LoadOK, Sorted, NEW t
  PROVE  \E p : /\ Lists(ByTrash(t), p, t)
                /\ \A k \in Due(t) : \E j \in 1..Len(ByTrash(t)) : p[j] = k
<1>1. PICK q \in [0..N -> Seq(Keys)] :
        /\ q[0] = <<>> /\ ByTrash(t) = q[N]
        /\ \A n \in 1..N : q[n] = IF N + 1 - n \in Due(t)
                                  THEN Append(q[n - 1], Ent(N + 1 - n).key)
                                  ELSE q[n - 1]
  BY Pushes
<1> DEFINE m == N
           Done(n, p) == /\ Lists(q[n], p, t)
                         /\ \A k \in Due(t) : k > m - n => \E j \in 1..Len(q[n]) : p[j] = k
                         /\ \A j \in 1..Len(q[n]) : p[j] > m - n
           G == {n \in 0..m : \E p : Done(n, p)}
<1>2. m \in Nat /\ Due(t) \subseteq 1..m /\ \A k \in 1..m : Ent(k).key \in Keys
  BY EntIs DEF Ranked, Keys, Due
<1>3. \A n : n \in G <=> n \in 0..m /\ \E p : Done(n, p)
  OBVIOUS
<1> HIDE DEF G
<1>4. 0 \in G
  <2>1. q[0] = <<>> /\ Len(q[0]) = 0 /\ 1..0 = {} /\ <<>> \in Seq(Keys)
    BY <1>1
  <2>2. <<>> \in [1..0 -> Due(t)]
    OBVIOUS
  <2>3. Lists(q[0], <<>>, t)
    BY <2>1, <2>2 DEF Lists
  <2>4. \A k \in Due(t) : ~(k > m - 0)
    BY <1>2
  <2>5. Done(0, <<>>)
    <3> HIDE DEF m, Lists
    <3> QED
      BY <2>1, <2>3, <2>4
  <2> HIDE DEF Done
  <2>6. \E p : Done(0, p)
    BY <2>5
  <2>7. 0 \in 0..m
    BY <1>2
  <2> HIDE DEF m
  <2> QED
    BY <1>3, <2>6, <2>7
<1>5. ASSUME NEW n \in 1..m, n - 1 \in G PROVE n \in G
  <2> DEFINE a == m + 1 - n
  <2>1. a \in 1..m /\ n - 1 \in 0..m /\ m - (n - 1) = a /\ m - n = a - 1 /\ n \in 0..m
    BY <1>2
  <2>2. PICK p : Done(n - 1, p)
    <3> HIDE DEF Done
    <3> QED
      BY <1>3, <1>5
  <2>3. PICK s \in Seq(Keys) : s = q[n - 1]
    BY <1>1, <2>1
  <2>4. /\ p \in [1..Len(s) -> Due(t)] /\ \A j \in 1..Len(s) : s[j] = Ent(p[j]).key
        /\ \A j, k \in 1..Len(s) : j < k => p[k] < p[j]
        /\ \A k \in Due(t) : k > a => \E j \in 1..Len(s) : p[j] = k
        /\ \A j \in 1..Len(s) : p[j] > a
    BY <2>1, <2>2, <2>3 DEF Lists
  <2>5. q[n] = IF a \in Due(t) THEN Append(s, Ent(a).key) ELSE s
    BY <1>1, <2>3
  <2> HIDE DEF a
  <2>6. \A j \in 1..Len(s) : p[j] \in Due(t) /\ p[j] \in 1..m
    BY <1>2, <2>4
  <2>7. CASE a \notin Due(t)
    <3>1. q[n] = s
      BY <2>5, <2>7
    <3>2. Lists(s, p, t)
      BY <2>4 DEF Lists
    <3>3. \A k \in Due(t) : k > a - 1 => k > a
      BY <1>2, <2>1, <2>7
    <3>4. \A j \in 1..Len(s) : p[j] > a - 1
      BY <2>1, <2>4, <2>6
    <3>5. Done(n, p)
      BY <2>1, <2>4, <3>1, <3>2, <3>3, <3>4
    <3> HIDE DEF Done
    <3> QED
      BY <1>3, <2>1, <3>5
  <2>8. CASE a \in Due(t)
    <3> DEFINE l == Len(s) + 1
               r == [j \in 1..l |-> IF j = l THEN a ELSE p[j]]
               u == Append(s, Ent(a).key)
    <3>1. /\ Len(s) \in Nat /\ l \in 1..l /\ \A j \in 1..l : j = l \/ j \in 1..Len(s)
          /\ \A j \in 1..Len(s) : j \in 1..l /\ j # l
      OBVIOUS
    <3>2. Ent(a).key \in Keys
      BY <1>2, <2>1
    <3>3. /\ u \in Seq(Keys) /\ Len(u) = l /\ u[l] = Ent(a).key
          /\ \A j \in 1..Len(s) : u[j] = s[j]
      BY <3>2
    <3>4. r[l] = a /\ \A j \in 1..Len(s) : r[j] = p[j]
      BY <3>1
    <3>5. r \in [1..l -> Due(t)]
      BY <2>4, <2>8
    <3> HIDE DEF l, r, u
    <3>6. \A j \in 1..l : u[j] = Ent(r[j]).key
      BY <2>4, <3>1, <3>3, <3>4
    <3>7. \A j, k \in 1..l : j < k => r[k] < r[j]
      <4> SUFFICES ASSUME NEW j \in 1..l, NEW k \in 1..l, j < k PROVE r[k] < r[j]
        OBVIOUS
      <4>1. j \in 1..Len(s)
        BY <3>1 DEF l
      <4>2. CASE k = l
        BY <2>1, <2>4, <2>6, <3>4, <4>1, <4>2
      <4>3. CASE k # l
        BY <2>4, <3>1, <3>4, <4>1, <4>3
      <4> QED
        BY <4>2, <4>3
    <3>8. Lists(u, r, t)
      BY <3>3, <3>5, <3>6, <3>7 DEF Lists
    <3>9. ASSUME NEW k \in Due(t), k > a - 1 PROVE \E j \in 1..l : r[j] = k
      <4>1. k = a \/ k > a
        BY <1>2, <2>1, <3>9
      <4> QED
        BY <2>4, <3>1, <3>4, <4>1
    <3>10. \A j \in 1..l : r[j] > a - 1
      BY <2>1, <2>4, <2>6, <3>1, <3>4
    <3>11. q[n] = u
      BY <2>5, <2>8 DEF u
    <3>12. Done(n, r)
      BY <2>1, <3>3, <3>8, <3>9, <3>10, <3>11
    <3> HIDE DEF Done
    <3> QED
      BY <1>3, <2>1, <3>12
  <2> QED
    BY <2>7, <2>8
<1>6. \A n \in 0..m : n \in G
  <2> HIDE DEF m
  <2> QED
    BY <1>2, <1>4, <1>5, UpTo
<1>7. PICK p : Done(m, p)
  <2> HIDE DEF Done
  <2> QED
    BY <1>2, <1>3, <1>6
<1>8. \A k \in Due(t) : k > m - m
  BY <1>2
<1> QED
  BY <1>1, <1>7, <1>8

-----------------------------------------------------------------------------
(* The inductive invariant: the candidates up to i have been walked, none  *)
(* before `start` is too much, and total and batch are what they weigh.    *)
Ended == ~(i <= N /\ <<start, i>> \in Alike)
Walked == \A k \in 1..N : c[k].size # None => max # None /\ k < i
Looping ==
  /\ max # None /\ start \in 1..N /\ doomed = Aged
  /\ Heft[start - 1] <= Heft[i - 1]
  /\ total = Add(Heft[start - 1], 0) /\ batch = Add(Heft[i - 1] - Heft[start - 1], 0)
  /\ pc = "size" => i <= N /\ InBatch(i)
  /\ pc = "weigh" => i > start /\ Ended
Given == [t \in 1..Trash |->
            [entries |-> ByTrash(t), dangling |-> {k \in load.dangling : k[1] = t}]]
Inv ==
  /\ LoadOK
  /\ pc \in {"sort", "size", "weigh", "group", "declined", "done", "error"}
  /\ pc = "sort" => c = <<>> /\ i = 1 /\ start = 1 /\ batch = 0 /\ total = 0
  /\ pc # "sort" => Sorted /\ Batched /\ Walked /\ \A k \in 1..(start - 1) : k \notin Big
  /\ pc \in {"size", "weigh"} => Looping
  /\ pc \in {"group", "declined", "done"} => doomed = Aged \cup Big /\ 1 \notin Big
  /\ pc = "error" => 1 \in Big
  /\ pc # "done" => handed = [t \in 1..Trash |-> None]
  /\ pc = "done" => handed = Given

LEMMA Unlimited == LoadOK /\ Sorted => Heft[0] = 0 /\ (max = None \/ c = <<>> => Big = {})
<1> SUFFICES ASSUME LoadOK, Sorted PROVE Heft[0] = 0 /\ (max = None \/ c = <<>> => Big = {})
  OBVIOUS
<1>1. Heft[0] = 0
  BY HeftIs
<1>2. max = None => Big = {}
  BY DEF Big, TooMuch
<1>3. c = <<>> => 1..N = {}
  BY DEF Sorted
<1>4. c = <<>> => Big = {}
  BY <1>3 DEF Big
<1> QED
  BY <1>1, <1>2, <1>4

LEMMA InitInv == Init => Inv
BY DEF Init, Inv, LoadOK

LEMMA SortInv == Inv /\ Sort => Inv'
<1> SUFFICES ASSUME Inv, Sort PROVE Inv'
  OBVIOUS
<1>1. LoadOK /\ i = 1 /\ start = 1 /\ batch = 0 /\ total = 0
      /\ handed = [t \in 1..Trash |-> None]
  BY DEF Inv, Sort
<1>2. /\ i' = 1 /\ start' = 1 /\ batch' = 0 /\ total' = 0 /\ UNCHANGED <<load, cutoff, max>>
      /\ handed' = handed /\ pc' = IF max = None \/ c' = <<>> THEN "group" ELSE "size"
      /\ doomed' = {k \in DOMAIN c' : \/ cutoff = None /\ max = None
                                      \/ cutoff # None /\ c'[k].date < cutoff}
  BY <1>1 DEF Sort
<1>3. LoadOK' /\ N' = N /\ N \in Nat
  BY <1>1, <1>2, LoadIs DEF LoadOK, N
<1>4. Sorted' /\ \A k \in 1..N : c'[k].size = None
  BY <1>1, SortIs
<1>5. Heft'[0] = 0 /\ (max' = None \/ c' = <<>> => Big' = {})
  <2>1. (LoadOK /\ Sorted => Heft[0] = 0 /\ (max = None \/ c = <<>> => Big = {}))'
    BY Unlimited, PTL
  <2> QED
    BY <1>3, <1>4, <2>1
<1>6. Len(c') = N /\ DOMAIN c' = 1..N /\ \A k \in 1..N : c'[k].date = Ent(k)'.date
  <2>1. c' \in Seq(Cands') /\ Len(c') = N
    BY <1>3, <1>4 DEF Sorted
  <2> QED
    BY <1>3, <1>4, <2>1 DEF Sorted
<1>7. doomed' = Aged'
  BY <1>2, <1>3, <1>6 DEF Aged, Old
<1>8. Batched' /\ Walked' /\ \A k \in 1..(start' - 1) : k \notin Big'
  <2>1. Batched'
    BY <1>2, <1>3 DEF Batched
  <2>2. Walked'
    BY <1>3, <1>4 DEF Walked
  <2> QED
    BY <1>2, <2>1, <2>2
<1>9. handed' = [t \in 1..Trash |-> None]
  BY <1>1, <1>2
<1>10. CASE max = None \/ c' = <<>>
  <2>1. pc' = "group" /\ Big' = {}
    BY <1>2, <1>5, <1>10
  <2> QED
    BY <1>3, <1>4, <1>7, <1>8, <1>9, <2>1 DEF Inv
<1>11. CASE max # None /\ c' # <<>>
  <2>1. pc' = "size" /\ N # 0
    <3>1. N = 0 => c' = <<>>
      <4>1. c' \in Seq(Cands')
        BY <1>4 DEF Sorted
      <4> QED
        BY <1>6, <4>1, EmptySeq
    <3> QED
      BY <1>2, <1>11, <3>1
  <2>2. Add(0, 0) = 0
    BY <1>1, LoadIs, AddIs
  <2>3. Looping'
    <3>1. InBatch(1)'
      BY <1>2 DEF InBatch
    <3>2. /\ max' # None /\ start' \in 1..N' /\ i' <= N'
          /\ start' - 1 = 0 /\ i' - 1 = 0 /\ InBatch(i)'
      BY <1>2, <1>3, <1>11, <2>1 DEF InBatch
    <3>3. /\ Heft'[start' - 1] <= Heft'[i' - 1]
          /\ total' = Add(Heft'[start' - 1], 0)
          /\ batch' = Add(Heft'[i' - 1] - Heft'[start' - 1], 0)
      BY <1>2, <1>5, <2>2, <3>2
    <3> QED
      BY <1>7, <2>1, <3>2, <3>3 DEF Looping, Add
  <2> QED
    BY <1>3, <1>4, <1>8, <1>9, <2>1, <2>3 DEF Inv
<1> QED
  BY <1>10, <1>11

(* Adding up sizes one after the other saturates as adding them at once.   *)
LEMMA AddAdds ==
  ASSUME NEW a \in Nat, NEW b \in Nat
  PROVE  /\ Add(Add(a, 0), b) = Add(a + b, 0) /\ Add(Add(a, 0), Add(b, 0)) = Add(a + b, 0)
         /\ Add(a, 0) \in Nat /\ Add(0, 0) = 0
<1>1. U64 \in Nat
  BY EmptyAssumption
<1>2. \A x, y \in Nat : Add(x, y) = IF x + y <= U64 THEN x + y ELSE U64
  BY AddIs
<1> DEFINE m == Add(a, 0)
           n == Add(b, 0)
<1>3. m = (IF a <= U64 THEN a ELSE U64) /\ n = (IF b <= U64 THEN b ELSE U64)
  <2>1. a + 0 = a /\ b + 0 = b
    OBVIOUS
  <2>2. Add(a, 0) = IF a + 0 <= U64 THEN a + 0 ELSE U64
    BY <1>2
  <2>3. Add(b, 0) = IF b + 0 <= U64 THEN b + 0 ELSE U64
    BY <1>2
  <2> QED
    BY <2>1, <2>2, <2>3
<1> HIDE DEF m, n
<1>4. m \in Nat /\ n \in Nat
  BY <1>1, <1>3
<1>5. /\ Add(m, b) = IF m + b <= U64 THEN m + b ELSE U64
      /\ Add(m, n) = IF m + n <= U64 THEN m + n ELSE U64
      /\ Add(a + b, 0) = IF a + b <= U64 THEN a + b ELSE U64
      /\ Add(0, 0) = 0
  BY <1>1, <1>2, <1>4
<1>6. Add(m, b) = Add(a + b, 0) /\ Add(m, n) = Add(a + b, 0)
  BY <1>1, <1>3, <1>4, <1>5
<1> QED
  BY <1>4, <1>5, <1>6 DEF m, n

LEMMA SizeInv == Inv /\ SizeNext => Inv'
<1> SUFFICES ASSUME Inv, SizeNext PROVE Inv'
  OBVIOUS
<1>1. /\ pc = "size" /\ LoadOK /\ Sorted /\ Batched /\ Walked /\ Looping
      /\ \A k \in 1..(start - 1) : k \notin Big
      /\ handed = [t \in 1..Trash |-> None]
  BY DEF Inv, SizeNext
<1>2. /\ max # None /\ start \in 1..N /\ doomed = Aged /\ i <= N /\ InBatch(i)
      /\ Heft[start - 1] <= Heft[i - 1] /\ total = Add(Heft[start - 1], 0)
      /\ batch = Add(Heft[i - 1] - Heft[start - 1], 0)
  BY <1>1 DEF Looping
<1>3. i \in 1..N /\ i \in start..N /\ N \in Nat /\ start - 1 \in 0..N /\ i - 1 \in 0..N
      /\ i + 1 \in 1..(N + 1)
  BY <1>1, <1>2, LoadIs DEF Batched
<1> DEFINE s == Ent(i).bytes
<1>4. c[i] \in Cands /\ s \in Nat /\ DOMAIN c = 1..N /\ c \in Seq(Cands) /\ Len(c) = N
  BY <1>1, <1>3, EntIs DEF Sorted
<1>5. /\ c' = [c EXCEPT ![i].size = s] /\ batch' = Add(batch, s) /\ i' = i + 1
      /\ pc' = IF Joins(i + 1) THEN "size" ELSE "weigh"
      /\ UNCHANGED <<load, cutoff, max, start, total, doomed, handed>>
  BY DEF SizeNext, Ent
<1> HIDE DEF s
<1>6. /\ c' \in Seq(Cands) /\ Len(c') = N
      /\ \A k \in 1..N : /\ c'[k].key = c[k].key /\ c'[k].date = c[k].date
                         /\ c'[k].entry = c[k].entry /\ c'[k].batchable = c[k].batchable
                         /\ k # i => c'[k] = c[k]
  <2>1. ASSUME NEW k \in 1..N, k # i PROVE c'[k] = c[k]
    BY <1>4, <1>5, <2>1
  <2>2. c'[i] = [c[i] EXCEPT !.size = s]
    BY <1>3, <1>4, <1>5
  <2>3. /\ c'[i] \in Cands /\ c'[i].key = c[i].key /\ c'[i].date = c[i].date
        /\ c'[i].entry = c[i].entry /\ c'[i].batchable = c[i].batchable
    BY <1>4, <2>2 DEF Cands
  <2>4. \A k \in 1..N : c[k] \in Cands
    BY <1>4
  <2>5. c' \in [1..N -> Cands]
    <3>1. DOMAIN c' = 1..N /\ c' = [k \in 1..N |-> c'[k]]
      BY <1>4, <1>5
    <3>2. \A k \in 1..N : c'[k] \in Cands
      BY <2>1, <2>3, <2>4
    <3> QED
      BY <3>1, <3>2
  <2> QED
    BY <1>3, <2>1, <2>3, <2>5
<1>7. /\ LoadOK' /\ Sorted' /\ N' = N /\ Heft' = Heft /\ Big' = Big /\ Aged' = Aged
      /\ Alike' = Alike /\ Mates' = Mates
  <2>1. Unchanging
    BY <1>5 DEF Unchanging
  <2> QED
    BY <1>1, <1>6, <2>1, SameOrder
<1>8. Batched'
  <2>1. ASSUME NEW k \in start..i PROVE k = start \/ <<start, k>> \in Alike
    <3>1. k = i \/ k \in start..(i - 1)
      BY <1>3
    <3> QED
      BY <1>1, <1>2, <3>1 DEF Batched, InBatch
  <2>2. \A k \in start'..(i' - 1) : k = start' \/ <<start', k>> \in Alike'
    BY <1>3, <1>5, <1>7, <2>1
  <2>3. start' \in 1..(N' + 1) /\ i' \in start'..(N' + 1)
    BY <1>2, <1>3, <1>5, <1>7
  <2>4. \A j \in 1..(start' - 1), k \in start'..N' : <<j, k>> \notin Mates'
    BY <1>1, <1>5, <1>7 DEF Batched
  <2> QED
    BY <2>2, <2>3, <2>4 DEF Batched, InBatch
<1>9. Walked'
  <2>1. ASSUME NEW k \in 1..N, c'[k].size # None PROVE max # None /\ k < i + 1
    BY <1>1, <1>2, <1>3, <1>6, <2>1 DEF Walked
  <2> QED
    BY <1>5, <1>7, <2>1 DEF Walked
<1>10. Looping'
  <2>1. Heft[i] = Heft[i - 1] + s /\ Heft[i - 1] \in Nat /\ Heft[start - 1] \in Nat
    BY <1>1, <1>3, HeftIs DEF s
  <2> DEFINE w == Heft[i - 1] - Heft[start - 1]
  <2>2. w \in Nat /\ w + s = Heft[i] - Heft[start - 1] /\ Heft[start - 1] <= Heft[i]
    BY <1>2, <1>4, <2>1
  <2>3. batch' = Add(w + s, 0)
    <3> HIDE DEF w
    <3> QED
      BY <1>2, <1>4, <1>5, <2>2, AddAdds DEF w
  <2>4. Joins(i + 1) <=> i + 1 <= N /\ <<start, i + 1>> \in Alike
    BY <1>1, <1>2, <1>3, JoinsIs
  <2>5. i' - 1 = i /\ start' = start /\ i' > start'
    <3>1. i \in Nat /\ start \in Nat /\ start <= i
      BY <1>2, <1>3
    <3> QED
      BY <1>5, <3>1
  <2>6. /\ Heft'[start' - 1] <= Heft'[i' - 1]
        /\ total' = Add(Heft'[start' - 1], 0)
        /\ batch' = Add(Heft'[i' - 1] - Heft'[start' - 1], 0)
    BY <1>2, <1>5, <1>7, <2>2, <2>3, <2>5
  <2>7. /\ pc' = "size" => i' <= N' /\ <<start', i'>> \in Alike'
        /\ pc' = "weigh" => ~(i' <= N' /\ <<start', i'>> \in Alike')
    BY <1>5, <1>7, <2>4
  <2>8. max' # None /\ start' \in 1..N' /\ doomed' = Aged'
    BY <1>2, <1>5, <1>7
  <2> QED
    BY <2>5, <2>6, <2>7, <2>8 DEF Looping, Ended, InBatch, Add
<1>11. pc' \in {"size", "weigh"} /\ handed' = [t \in 1..Trash |-> None]
       /\ \A k \in 1..(start' - 1) : k \notin Big'
  BY <1>1, <1>5, <1>7
<1> QED
  BY <1>7, <1>8, <1>9, <1>10, <1>11 DEF Inv

LEMMA WeighInv == Inv /\ Weigh => Inv'
<1> SUFFICES ASSUME Inv, Weigh PROVE Inv'
  OBVIOUS
<1>1. /\ pc = "weigh" /\ LoadOK /\ Sorted /\ Batched /\ Walked /\ Looping
      /\ \A k \in 1..(start - 1) : k \notin Big
      /\ handed = [t \in 1..Trash |-> None]
  BY DEF Inv, Weigh
<1>2. /\ max # None /\ start \in 1..N /\ doomed = Aged /\ i > start /\ Ended
      /\ Heft[start - 1] <= Heft[i - 1] /\ total = Add(Heft[start - 1], 0)
      /\ batch = Add(Heft[i - 1] - Heft[start - 1], 0)
  BY <1>1 DEF Looping
<1>3. /\ i \in 2..(N + 1) /\ N \in Nat /\ start - 1 \in 0..N /\ i - 1 \in 0..N
      /\ Len(c) = N /\ i \in 1..(N + 1) /\ c \in Seq(Cands)
  <2>1. N \in Nat /\ i \in start..(N + 1) /\ Len(c) = N /\ c \in Seq(Cands)
    BY <1>1, LoadIs DEF Batched, Sorted
  <2> QED
    BY <1>2, <2>1
<1>4. ~Joins(i)
  BY <1>1, <1>2, <1>3, JoinsIs DEF Ended
<1>5. UNCHANGED <<load, cutoff, max, c, i, handed>> /\ total' = Add(total, batch)
  BY DEF Weigh
<1>6. /\ LoadOK' /\ Sorted' /\ N' = N /\ Heft' = Heft /\ Big' = Big /\ Aged' = Aged
      /\ Alike' = Alike /\ Mates' = Mates
  <2>1. Unchanging
    BY <1>5 DEF Unchanging
  <2>2. c' \in Seq(Cands) /\ Len(c') = N
    BY <1>3, <1>5
  <2> QED
    BY <1>1, <1>5, <2>1, <2>2, SameOrder
<1>7. total' = Add(Heft[i - 1], 0) /\ Heft[i - 1] \in Nat
  <2>1. Heft[i - 1] \in Nat /\ Heft[start - 1] \in Nat
    BY <1>1, <1>3, HeftIs
  <2> DEFINE v == Heft[start - 1]
             w == Heft[i - 1] - v
  <2>2. w \in Nat /\ v \in Nat /\ v + w = Heft[i - 1]
    BY <1>2, <2>1
  <2> HIDE DEF v, w
  <2>3. Add(Add(v, 0), Add(w, 0)) = Add(v + w, 0)
    BY <2>2, AddAdds
  <2>4. total = Add(v, 0) /\ batch = Add(w, 0)
    BY <1>2 DEF v, w
  <2> QED
    BY <1>5, <2>1, <2>2, <2>3, <2>4
<1>8. /\ \A k \in start..(i - 1) : k \in Big <=> total' > max
      /\ total' > max => i..N \subseteq Big
  BY <1>1, <1>2, <1>4, <1>7, Cut
<1>9. Walked' /\ Big \subseteq 1..N
  BY <1>1, <1>5, <1>6 DEF Walked, Big
<1>10. handed' = [t \in 1..Trash |-> None]
  BY <1>1, <1>5
<1>11. total' \in Nat /\ max \in Nat
  <2>1. max \in 0..U64 /\ U64 \in Nat
    BY <1>1, <1>2, LoadIs
  <2>2. Add(Heft[i - 1], 0) \in Nat
    <3> HIDE DEF Heft
    <3> QED
      BY <1>7, AddAdds
  <2> QED
    BY <1>7, <2>1, <2>2
<1>12. CASE total' <= max
  <2>1. /\ start' = i /\ batch' = 0 /\ pc' = (IF i <= Len(c) THEN "size" ELSE "group")
        /\ doomed' = doomed
    BY <1>11, <1>12 DEF Weigh
  <2>2. \A k \in 1..(i - 1) : k \notin Big
    <3>1. \A k \in 1..(i - 1) : k \in 1..(start - 1) \/ k \in start..(i - 1)
      BY <1>2, <1>3
    <3> QED
      BY <1>1, <1>8, <1>11, <1>12, <3>1
  <2>3. Batched'
    <3>1. ASSUME NEW j \in 1..(i - 1), NEW k \in i..N PROVE <<j, k>> \notin Mates
      BY <1>1, <1>2, <1>4, BatchEnds DEF Mates
    <3>2. start' \in 1..(N' + 1) /\ i' \in start'..(N' + 1) /\ start'..(i' - 1) = {}
      BY <1>3, <1>5, <1>6, <2>1
    <3>3. \A j \in 1..(start' - 1), k \in start'..N' : <<j, k>> \notin Mates'
      BY <1>5, <1>6, <2>1, <3>1
    <3> QED
      BY <3>2, <3>3 DEF Batched
  <2>4. \A k \in 1..(start' - 1) : k \notin Big'
    BY <1>6, <2>1, <2>2
  <2>5. CASE i <= N
    <3>1. pc' = "size" /\ start' \in 1..N' /\ i' <= N' /\ i' = start'
      BY <1>3, <1>5, <1>6, <2>1, <2>5
    <3>2. Heft'[start' - 1] \in Nat /\ total' = Add(Heft'[start' - 1], 0)
      BY <1>1, <1>3, <1>6, <1>7, <2>1, HeftIs
    <3>3. Heft'[i' - 1] - Heft'[start' - 1] = 0 /\ Heft'[start' - 1] <= Heft'[i' - 1]
      BY <3>1, <3>2
    <3>4. batch' = Add(Heft'[i' - 1] - Heft'[start' - 1], 0)
      BY <2>1, <3>3, AddAdds
    <3>5. Looping'
      BY <1>2, <1>5, <1>6, <2>1, <3>1, <3>2, <3>3, <3>4 DEF Looping, InBatch, Add
    <3> QED
      BY <1>6, <1>9, <1>10, <2>3, <2>4, <3>1, <3>5 DEF Inv
  <2>6. CASE ~(i <= N)
    <3>1. Big = {}
      BY <1>3, <1>9, <2>2, <2>6
    <3>2. pc' = "group" /\ doomed' = Aged' \cup Big' /\ 1 \notin Big'
      BY <1>2, <1>3, <1>6, <2>1, <2>6, <3>1
    <3> QED
      BY <1>6, <1>9, <1>10, <2>3, <2>4, <3>2 DEF Inv
  <2> QED
    BY <2>5, <2>6
<1>13. CASE total' > max
  <2>1. /\ start' = start /\ batch' = batch
        /\ \/ start > 1 /\ doomed' = doomed \cup start..Len(c) /\ pc' = "group"
           \/ start = 1 /\ pc' = "error"
    BY <1>11, <1>13 DEF Weigh
  <2>2. Big = start..N
    <3>1. \A k \in start..N : k \in start..(i - 1) \/ k \in i..N
      BY <1>2, <1>3
    <3>2. \A k \in start..N : k \in Big
      BY <1>8, <1>13, <3>1
    <3>3. \A k \in 1..N : k \in start..N \/ k \in 1..(start - 1)
      BY <1>2
    <3> QED
      BY <1>1, <1>2, <1>9, <3>2, <3>3
  <2>3. Batched' /\ \A k \in 1..(start' - 1) : k \notin Big'
    <3>1. start' = start /\ i' = i
      BY <1>5, <2>1
    <3> QED
      BY <1>1, <1>6, <3>1 DEF Batched, InBatch
  <2>4. CASE start > 1
    <3>1. pc' = "group" /\ doomed' = Aged' \cup Big' /\ 1 \notin Big'
      BY <1>2, <1>3, <1>6, <2>1, <2>2, <2>4
    <3> QED
      BY <1>6, <1>9, <1>10, <2>3, <3>1 DEF Inv
  <2>5. CASE start = 1
    <3>1. pc' = "error" /\ 1 \in Big'
      BY <1>2, <1>3, <1>6, <2>1, <2>2, <2>5
    <3> QED
      BY <1>6, <1>9, <1>10, <2>3, <3>1 DEF Inv
  <2> QED
    BY <1>2, <2>4, <2>5
<1> QED
  BY <1>11, <1>12, <1>13

(* Where neither the entries nor the candidates change.                    *)
LEMMA Keeps ==
  ASSUME LoadOK, Sorted, Batched, Walked, UNCHANGED <<load, cutoff, max, c, i, start>>
  PROVE  /\ LoadOK' /\ Sorted' /\ Batched' /\ Walked' /\ N' = N
         /\ Heft' = Heft /\ Big' = Big /\ Aged' = Aged /\ Alike' = Alike
<1>1. Unchanging /\ c' \in Seq(Cands) /\ Len(c') = N
  BY DEF Unchanging, Sorted
<1>2. /\ LoadOK' /\ Sorted' /\ N' = N /\ Heft' = Heft /\ Big' = Big /\ Aged' = Aged
      /\ Alike' = Alike /\ Mates' = Mates
  BY <1>1, SameOrder
<1>3. Batched' /\ Walked'
  BY <1>2 DEF Batched, InBatch, Walked
<1> QED
  BY <1>2, <1>3

LEMMA DeclinedInv == Inv /\ Declined => Inv'
<1> SUFFICES ASSUME Inv, Declined PROVE Inv'
  OBVIOUS
<1>1. /\ pc = "group" /\ LoadOK /\ Sorted /\ Batched /\ Walked
      /\ \A k \in 1..(start - 1) : k \notin Big
      /\ handed = [t \in 1..Trash |-> None] /\ doomed = Aged \cup Big /\ 1 \notin Big
  BY DEF Inv, Declined
<1>2. pc' = "declined" /\ UNCHANGED <<load, cutoff, max, c, i, start, doomed, handed>>
  BY DEF Declined
<1>3. LoadOK' /\ Sorted' /\ Batched' /\ Walked' /\ Big' = Big /\ Aged' = Aged
  BY <1>1, <1>2, Keeps
<1> QED
  BY <1>1, <1>2, <1>3 DEF Inv

LEMMA DeleteInv == Inv /\ Delete => Inv'
<1> SUFFICES ASSUME Inv, Delete PROVE Inv'
  OBVIOUS
<1>1. /\ pc = "group" /\ LoadOK /\ Sorted /\ Batched /\ Walked
      /\ \A k \in 1..(start - 1) : k \notin Big
      /\ doomed = Aged \cup Big /\ 1 \notin Big
  BY DEF Inv, Delete
<1>2. /\ pc' = "done" /\ UNCHANGED <<load, cutoff, max, c, i, start, doomed>>
      /\ handed' = Given
  BY DEF Delete, Given
<1>3. LoadOK' /\ Sorted' /\ Batched' /\ Walked' /\ Big' = Big /\ Aged' = Aged
  BY <1>1, <1>2, Keeps
<1>4. handed' = Given'
  BY <1>2 DEF Given, ByTrash
<1> QED
  BY <1>1, <1>2, <1>3, <1>4 DEF Inv

LEMMA StutterInv == Inv /\ UNCHANGED vars => Inv'
<1> SUFFICES ASSUME Inv, UNCHANGED vars PROVE Inv'
  OBVIOUS
<1>1. UNCHANGED <<load, cutoff, max, c, i, start, batch, total, doomed, handed, pc>>
  BY DEF vars
<1>2. CASE pc = "sort"
  BY <1>1, <1>2 DEF Inv, LoadOK
<1>3. CASE pc # "sort"
  <2>1. /\ LoadOK /\ Sorted /\ Batched /\ Walked
        /\ \A k \in 1..(start - 1) : k \notin Big
    BY <1>3 DEF Inv
  <2>2. /\ LoadOK' /\ Sorted' /\ Batched' /\ Walked' /\ N' = N
        /\ Heft' = Heft /\ Big' = Big /\ Aged' = Aged /\ Alike' = Alike
    BY <1>1, <2>1, Keeps
  <2>3. Looping => Looping'
    BY <1>1, <2>2 DEF Looping, InBatch, Ended, Add
  <2>4. Given' = Given
    BY <1>1 DEF Given, ByTrash
  <2>5. \A k \in 1..(start' - 1) : k \notin Big'
    BY <1>1, <2>1, <2>2
  <2> QED
    BY <1>1, <1>3, <2>2, <2>3, <2>4, <2>5 DEF Inv
<1> QED
  BY <1>2, <1>3

(* The invariant holds of every step.                                      *)
THEOREM InvHolds == Spec => []Inv
<1>1. Inv /\ [Next]_vars => Inv'
  <2> SUFFICES ASSUME Inv, [Next]_vars PROVE Inv'
    OBVIOUS
  <2>1. Sort \/ SizeNext \/ Weigh \/ Declined \/ Delete \/ UNCHANGED vars
    BY DEF Next
  <2> QED
    BY <2>1, SortInv, SizeInv, WeighInv, DeclinedInv, DeleteInv, StutterInv
<1> QED
  BY <1>1, InitInv, PTL DEF Spec

-----------------------------------------------------------------------------
(* The filters name what the loop dooms.                                   *)
LEMMA Dooms ==
  ASSUME LoadOK, Sorted
  PROVE  /\ \A k \in 1..N : Goes(Ent(k)) <=> k \in Aged \cup Big
         /\ Refused <=> 1 \in Big
<1>1. ASSUME NEW k \in 1..N PROVE Goes(Ent(k)) <=> k \in Aged \cup Big
  <2> HIDE DEF Ent
  <2> QED
    BY DEF Goes, Aged, Big
<1>2. N \in Nat
  BY EntIs
<1>3. ASSUME Refused PROVE 1 \in Big
  <2>1. PICK a \in All : Newest(a) /\ TooMuch(a)
    BY <1>3 DEF Refused
  <2>2. PICK k \in 1..N : a = Ent(k)
    BY EntIs
  <2>3. 1 \in 1..N /\ Ent(1) \in All
    BY <1>2, EntIs
  <2>4. ~(1 < k)
    BY <2>1, <2>2, <2>3, EntIs DEF Newest
  <2>5. k = 1
    BY <2>4
  <2> QED
    BY <2>1, <2>2, <2>3, <2>5 DEF Big
<1>4. ASSUME 1 \in Big PROVE Refused
  <2>1. 1 \in 1..N /\ TooMuch(Ent(1)) /\ Ent(1) \in All
    BY <1>4, EntIs DEF Big
  <2>2. ASSUME NEW b \in All PROVE ~Newer(b, Ent(1))
    <3>1. PICK k \in 1..N : b = Ent(k)
      BY EntIs
    <3>2. ~(k < 1)
      OBVIOUS
    <3> QED
      BY <2>1, <3>1, <3>2, EntIs
  <2> QED
    BY <2>1, <2>2 DEF Refused, Newest
<1> QED
  BY <1>1, <1>3, <1>4

LEMMA InvHandsOver == Inv => HandsOver
<1> SUFFICES ASSUME Inv PROVE HandsOver
  OBVIOUS
<1>1. LoadOK /\ pc \in {"sort", "size", "weigh", "group", "declined", "done", "error"}
  BY DEF Inv
<1>2. pc \in {"group", "declined", "done"} => ~Refused
  BY Dooms DEF Inv
<1>3. pc = "error" => Refused
  BY Dooms DEF Inv
<1>4. pc # "done" => \A t \in 1..Trash : handed[t] = None
  BY DEF Inv
<1>5. ASSUME pc = "done", NEW t \in 1..Trash
      PROVE  LET q == handed[t].entries
                 date == [k \in {e.key : e \in All} |->
                            (CHOOSE e \in All : e.key = k).date] IN
             /\ Range(q) = {e.key : e \in {x \in All : x.key[1] = t /\ Goes(x)}}
             /\ \A j, k \in DOMAIN q : j < k => q[j] # q[k] /\ date[q[j]] <= date[q[k]]
             /\ handed[t].dangling = {k \in load.dangling : k[1] = t}
  <2> DEFINE q == handed[t].entries
             Named == {e.key : e \in All}
             date == [k \in Named |-> (CHOOSE e \in All : e.key = k).date]
  <2>1. Sorted /\ doomed = Aged \cup Big /\ handed = Given
    BY <1>5 DEF Inv
  <2>2. q = ByTrash(t) /\ handed[t].dangling = {k \in load.dangling : k[1] = t}
    BY <2>1 DEF Given
  <2>3. PICK p : Lists(q, p, t) /\ \A k \in Due(t) : \E j \in 1..Len(q) : p[j] = k
    BY <1>1, <2>1, <2>2, ByTrashIs
  <2> HIDE DEF q
  <2>4. /\ q \in Seq(Keys) /\ DOMAIN q = 1..Len(q) /\ p \in [1..Len(q) -> Due(t)]
        /\ \A j \in 1..Len(q) : q[j] = Ent(p[j]).key
        /\ \A j, k \in 1..Len(q) : j < k => p[k] < p[j]
    BY <2>3 DEF Lists
  <2>5. \A k \in Due(t) : k \in 1..N /\ Ent(k) \in All /\ Ent(k).key[1] = t /\ Goes(Ent(k))
    BY <1>1, <2>1, EntIs, Dooms DEF Due
  <2>6. \A k \in 1..N : Ent(k).key[1] = t /\ Goes(Ent(k)) => k \in Due(t)
    BY <1>1, <2>1, Dooms DEF Due
  <2>7. Range(q) = {e.key : e \in {x \in All : x.key[1] = t /\ Goes(x)}}
    <3>1. ASSUME NEW x \in Range(q)
          PROVE  \E e \in {a \in All : a.key[1] = t /\ Goes(a)} : x = e.key
      <4>1. PICK j \in 1..Len(q) : x = q[j]
        BY <2>4 DEF Range
      <4>2. p[j] \in Due(t) /\ x = Ent(p[j]).key
        BY <2>4, <4>1
      <4> HIDE DEF Ent
      <4> QED
        BY <2>5, <4>2
    <3>2. ASSUME NEW e \in All, e.key[1] = t, Goes(e) PROVE e.key \in Range(q)
      <4>1. PICK k \in 1..N : e = Ent(k)
        BY <1>1, <2>1, EntIs
      <4>2. k \in Due(t)
        BY <2>6, <3>2, <4>1
      <4>3. PICK j \in 1..Len(q) : p[j] = k
        BY <2>3, <4>2
      <4>4. q[j] = e.key
        BY <2>4, <4>1, <4>3
      <4> QED
        BY <2>4, <4>4 DEF Range
    <3> QED
      BY <3>1, <3>2
  <2>8. ASSUME NEW k \in 1..N PROVE date[Ent(k).key] = Ent(k).date
    <3>1. Ent(k) \in All
      BY <1>1, <2>1, EntIs
    <3>2. \A e \in All : e.key = Ent(k).key => e = Ent(k)
      BY <1>1, <2>1, EntIs
    <3> DEFINE e0 == Ent(k)
               ch == CHOOSE e \in All : e.key = e0.key
    <3>3. ch \in All /\ ch.key = e0.key
      BY <3>1
    <3>4. ch = e0
      BY <3>2, <3>3
    <3>5. e0.key \in Named
      BY <3>1
    <3> HIDE DEF ch, e0
    <3>6. date[e0.key] = ch.date
      BY <3>5 DEF ch
    <3> QED
      BY <3>4, <3>6 DEF e0
  <2> HIDE DEF date
  <2>9. ASSUME NEW j \in DOMAIN q, NEW k \in DOMAIN q, j < k
        PROVE  q[j] # q[k] /\ date[q[j]] <= date[q[k]]
    <3>1. /\ p[j] \in 1..N /\ p[k] \in 1..N /\ p[k] < p[j]
          /\ q[j] = Ent(p[j]).key /\ q[k] = Ent(p[k]).key
      BY <2>4, <2>5, <2>9
    <3>2. /\ Ent(p[k]).key = Ent(p[j]).key => p[k] = p[j]
          /\ Ent(p[k]).date >= Ent(p[j]).date
          /\ Ranked(Ent(p[k])) /\ Ranked(Ent(p[j]))
      BY <1>1, <2>1, <3>1, EntIs
    <3>3. q[j] # q[k]
      <4> HIDE DEF Ent
      <4> QED
        BY <3>1, <3>2
    <3>4. date[q[j]] = Ent(p[j]).date /\ date[q[k]] = Ent(p[k]).date
      BY <2>8, <3>1
    <3>5. Ent(p[j]).date \in Nat /\ Ent(p[k]).date \in Nat
      BY <3>2 DEF Ranked
    <3> HIDE DEF Ent
    <3> QED
      BY <3>2, <3>3, <3>4, <3>5
  <2> QED
    BY <2>2, <2>7, <2>9 DEF q, date
<1> QED
  BY <1>2, <1>3, <1>4, <1>5 DEF HandsOver

LEMMA InvLazily == Inv => Lazily
<1> SUFFICES ASSUME Inv, NEW k \in DOMAIN c, c[k].size # None
             PROVE  /\ max # None
                    /\ \A b \in All : TooMuch(b) /\ Newer(b, Ent(k)) => SameBatch(Ent(k), b)
  BY DEF Lazily, Ent
<1>1. pc # "sort"
  <2>1. c # <<>>
    OBVIOUS
  <2> QED
    BY <2>1 DEF Inv
<1>2. LoadOK /\ Sorted /\ Batched /\ Walked /\ \A j \in 1..(start - 1) : j \notin Big
  BY <1>1 DEF Inv
<1>3. k \in 1..N /\ max # None /\ k < i /\ N \in Nat /\ start \in 1..(N + 1) /\ i \in Nat
  <2>1. k \in 1..N /\ N \in Nat
    BY <1>2, EntIs
  <2> QED
    BY <1>2, <2>1 DEF Walked, Batched
<1>4. ASSUME NEW b \in All, TooMuch(b), Newer(b, Ent(k)) PROVE SameBatch(Ent(k), b)
  <2>1. PICK j \in 1..N : b = Ent(j)
    BY <1>2, EntIs
  <2>2. j < k /\ j \in Big
    BY <1>2, <1>3, <1>4, <2>1, EntIs DEF Big
  <2>3. j \in start..(i - 1) /\ k \in start..(i - 1)
    <3>1. ~(j < start)
      BY <1>2, <1>3, <2>2
    <3> QED
      BY <1>3, <2>2, <3>1
  <2> QED
    BY <1>2, <2>1, <2>3, BatchWithin
<1> QED
  BY <1>3, <1>4

(* `empty` hands over exactly what the filters name, oldest first, each to *)
(* its own trash directory (empty.rs `select_for_empty` and `run`).        *)
THEOREM HandsOverHolds == Spec => []HandsOver
BY InvHolds, InvHandsOver, PTL

(* Nothing is walked past the batch that passes the limit.                 *)
THEOREM LazilyHolds == Spec => []Lazily
BY InvHolds, InvLazily, PTL
=============================================================================
