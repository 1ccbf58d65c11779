------------------------------ MODULE SeqLemmas ------------------------------
(***************************************************************************)
(* What the containers of the code do, as facts about sequences and        *)
(* functions, and induction, for the proofs of all components.  Induction  *)
(* and recursion are stated with sets and functions where the library has  *)
(* operators as parameters, which no prover could instantiate.             *)
(***************************************************************************)
EXTENDS Misc, Integers, SequenceTheorems, FiniteSetTheorems, TLAPS

(* What pop_front() and front() do to a non-empty queue.                   *)
LEMMA PopSeq ==
  ASSUME NEW S, NEW q \in Seq(S), q # <<>>
  PROVE  /\ Head(q) \in S /\ Head(q) = q[1]
         /\ Tail(q) \in Seq(S) /\ Len(Tail(q)) = Len(q) - 1
         /\ Len(q) \in Nat \ {0}
         /\ \A i \in 1..Len(Tail(q)) : Tail(q)[i] = q[i + 1]
OBVIOUS

(* What push_back() does to a queue.                                       *)
LEMMA PushSeq ==
  ASSUME NEW S, NEW q \in Seq(S), NEW x \in S
  PROVE  /\ Append(q, x) \in Seq(S) /\ Len(Append(q, x)) = Len(q) + 1
         /\ Append(q, x) # <<>>
         /\ Len(q) \in Nat
         /\ \A i \in 1..Len(q) : Append(q, x)[i] = q[i]
         /\ Append(q, x)[Len(q) + 1] = x
OBVIOUS

(* An update within the range of a function keeps its type.                *)
LEMMA UpdateType ==
  ASSUME NEW D, NEW R, NEW f \in [D -> R], NEW x, NEW v \in R
  PROVE  [f EXCEPT ![x] = v] \in [D -> R]
OBVIOUS

(* A part of a sequence, and a sequence cut in two.                        *)
LEMMA PartSeq ==
  ASSUME NEW S, NEW s \in Seq(S), NEW m \in 1 .. Len(s) + 1, NEW n \in 0..Len(s)
  PROVE  /\ SubSeq(s, m, n) \in Seq(S)
         /\ Len(SubSeq(s, m, n)) = IF m <= n THEN n - m + 1 ELSE 0
         /\ \A i \in 1 .. n - m + 1 : SubSeq(s, m, n)[i] = s[m + i - 1]
<1>1. m \in Int /\ n \in Int /\ \A i \in m..n : s[i] \in S
  OBVIOUS
<1> QED
  BY ONLY <1>1, SubSeqProperties

LEMMA CutSeq ==
  ASSUME NEW S, NEW s \in Seq(S), NEW k \in 0..Len(s)
  PROVE  /\ SubSeq(s, 1, k) \in Seq(S)
         /\ SubSeq(s, k + 1, Len(s)) \in Seq(S)
         /\ s = SubSeq(s, 1, k) \o SubSeq(s, k + 1, Len(s))
<1> DEFINE a == SubSeq(s, 1, k)
           b == SubSeq(s, k + 1, Len(s))
<1>1. Len(s) \in Nat
  OBVIOUS
<1>2. a \in Seq(S) /\ Len(a) = k /\ \A i \in 1..k : a[i] = s[i]
  BY <1>1, PartSeq
<1>3. /\ b \in Seq(S) /\ Len(b) = Len(s) - k
      /\ \A i \in 1 .. Len(s) - k : b[i] = s[k + i]
  BY <1>1, PartSeq
<1> HIDE DEF a, b
<1>4. a \o b \in Seq(S) /\ Len(a \o b) = Len(s)
  BY <1>1, <1>2, <1>3
<1>5. ASSUME NEW i \in 1..Len(s) PROVE (a \o b)[i] = s[i]
  <2>1. (a \o b)[i] = IF i <= Len(a) THEN a[i] ELSE b[i - Len(a)]
    BY <1>1, <1>2, <1>3, ConcatProperties
  <2>2. CASE i <= k
    BY <2>1, <2>2, <1>1, <1>2
  <2>3. CASE ~(i <= k)
    <3>1. i - k \in 1 .. Len(s) - k /\ k + (i - k) = i
      BY <2>3, <1>1
    <3>2. ~(i <= Len(a)) /\ i - Len(a) = i - k
      BY <2>3, <1>1, <1>2
    <3>3. (a \o b)[i] = b[i - k]
      BY <2>1, <3>2
    <3>4. b[i - k] = s[i]
      BY <3>1, <1>3
    <3> QED
      BY <3>3, <3>4
  <2> QED
    BY <2>2, <2>3, <1>1
<1>6. s = a \o b
  BY <1>4, <1>5, SeqEqual
<1> QED
  BY <1>2, <1>3, <1>6 DEF a, b

(* What insert() and erase() do to a vector.                               *)
LEMMA InsertSeq ==
  ASSUME NEW S, NEW s \in Seq(S), NEW x \in S, NEW i \in 1 .. Len(s) + 1
  PROVE  /\ InsertAt(s, i, x) \in Seq(S)
         /\ Len(InsertAt(s, i, x)) = Len(s) + 1
         /\ \A j \in 1 .. i - 1 : InsertAt(s, i, x)[j] = s[j]
         /\ InsertAt(s, i, x)[i] = x
         /\ \A j \in i + 1 .. Len(s) + 1 : InsertAt(s, i, x)[j] = s[j - 1]
<1> DEFINE a == SubSeq(s, 1, i - 1)
           b == SubSeq(s, i, Len(s))
           ax == a \o <<x>>
<1>1. Len(s) \in Nat /\ i \in Nat
  OBVIOUS
<1>2. /\ a \in Seq(S) /\ Len(a) = i - 1
      /\ \A j \in 1 .. i - 1 : a[j] = s[j]
  BY <1>1, PartSeq
<1>3. /\ b \in Seq(S) /\ Len(b) = Len(s) - i + 1
      /\ \A j \in 1 .. Len(s) - i + 1 : b[j] = s[i + j - 1]
  BY <1>1, PartSeq
<1> HIDE DEF a, b
<1>4. /\ ax \in Seq(S) /\ Len(ax) = i
      /\ \A j \in 1 .. i - 1 : ax[j] = s[j]
      /\ ax[i] = x
  BY <1>1, <1>2
<1> HIDE DEF ax
<1>5. /\ ax \o b \in Seq(S) /\ Len(ax \o b) = Len(s) + 1
      /\ \A j \in 1..i : (ax \o b)[j] = ax[j]
      /\ \A j \in i + 1 .. Len(s) + 1 : (ax \o b)[j] = b[j - i]
  BY <1>1, <1>3, <1>4
<1>6. \A j \in i + 1 .. Len(s) + 1 : b[j - i] = s[j - 1]
  <2> TAKE j \in i + 1 .. Len(s) + 1
  <2>1. j - i \in 1 .. Len(s) - i + 1 /\ i + (j - i) - 1 = j - 1
    BY <1>1
  <2> QED
    BY <2>1, <1>3
<1>7. InsertAt(s, i, x) = ax \o b
  BY DEF InsertAt, ax, a, b
<1> QED
  BY <1>1, <1>4, <1>5, <1>6, <1>7

LEMMA EraseSeq ==
  ASSUME NEW S, NEW s \in Seq(S), NEW i \in 1..Len(s)
  PROVE  /\ RemoveAt(s, i) \in Seq(S)
         /\ Len(RemoveAt(s, i)) = Len(s) - 1
         /\ \A j \in 1 .. i - 1 : RemoveAt(s, i)[j] = s[j]
         /\ \A j \in i .. Len(s) - 1 : RemoveAt(s, i)[j] = s[j + 1]
<1> DEFINE a == SubSeq(s, 1, i - 1)
           b == SubSeq(s, i + 1, Len(s))
<1>1. Len(s) \in Nat /\ i \in Nat
  OBVIOUS
<1>2. /\ a \in Seq(S) /\ Len(a) = i - 1
      /\ \A j \in 1 .. i - 1 : a[j] = s[j]
  BY <1>1, PartSeq
<1>3. /\ b \in Seq(S) /\ Len(b) = Len(s) - i
      /\ \A j \in 1 .. Len(s) - i : b[j] = s[i + j]
  BY <1>1, PartSeq
<1> HIDE DEF a, b
<1>4. /\ a \o b \in Seq(S) /\ Len(a \o b) = Len(s) - 1
      /\ \A j \in 1 .. i - 1 : (a \o b)[j] = a[j]
      /\ \A j \in i .. Len(s) - 1 : (a \o b)[j] = b[j - (i - 1)]
  <2>1. /\ a \o b \in Seq(S) /\ Len(a \o b) = Len(a) + Len(b)
        /\ \A j \in 1 .. Len(a) + Len(b) :
             (a \o b)[j] = IF j <= Len(a) THEN a[j] ELSE b[j - Len(a)]
    BY <1>2, <1>3, ConcatProperties
  <2>2. Len(a) = i - 1 /\ Len(a) + Len(b) = Len(s) - 1
    BY <1>1, <1>2, <1>3
  <2> QED
    BY <1>1, <2>1, <2>2
<1>5. \A j \in i .. Len(s) - 1 : b[j - (i - 1)] = s[j + 1]
  <2> TAKE j \in i .. Len(s) - 1
  <2>1. j - (i - 1) \in 1 .. Len(s) - i /\ i + (j - (i - 1)) = j + 1
    BY <1>1
  <2> QED
    BY <2>1, <1>3
<1>6. RemoveAt(s, i) = a \o b
  BY DEF RemoveAt, a, b
<1> QED
  BY <1>1, <1>2, <1>4, <1>5, <1>6

(* An index that is in range does not wrap around.                         *)
LEMMA ModSmall ==
  ASSUME NEW k \in Nat, NEW n \in Int, 0 <= n, n < k
  PROVE  n % k = n
BY SMTT(30)

-----------------------------------------------------------------------------
(* Induction *)

LEMMA LeastNat ==
  ASSUME NEW T \in SUBSET Nat, T # {}
  PROVE  \E n \in T : \A m \in T : n <= m
<1>1. IsWellFoundedOn({ss \in Nat \X Nat : ss[1] < ss[2]}, Nat)
  BY NatLessThanWellFounded DEF OpToRel
<1>2. PICK n \in T :
        \A m \in T : <<m, n>> \notin {ss \in Nat \X Nat : ss[1] < ss[2]}
  BY <1>1, WFMin
<1>3. \A m \in T : ~(m < n)
  BY <1>2
<1> QED
  BY <1>3

LEMMA MinNat ==
  ASSUME NEW T \in SUBSET Nat, T # {}
  PROVE  Min(T) \in T /\ \A m \in T : Min(T) <= m
BY LeastNat DEF Min

LEMMA MaxNat ==
  ASSUME NEW N \in Nat, NEW T \in SUBSET (0..N), T # {}
  PROVE  Max(T) \in T /\ \A m \in T : m <= Max(T)
<1> DEFINE U == {N - m : m \in T}
<1>1. U \in SUBSET Nat /\ U # {}
  <2>1. \A m \in T : N - m \in Nat
    OBVIOUS
  <2> QED
    BY <2>1
<1>2. PICK u \in U : \A v \in U : u <= v
  BY <1>1, LeastNat
<1>3. PICK x \in T : u = N - x
  OBVIOUS
<1>4. \A m \in T : x >= m
  BY <1>2, <1>3
<1>5. Max(T) \in T /\ \A m \in T : Max(T) >= m
  BY <1>4 DEF Max
<1> QED
  BY <1>5

LEMMA SetInduction ==
  ASSUME NEW T, 0 \in T, \A n \in Nat : n \in T => n + 1 \in T
  PROVE  Nat \subseteq T
<1> SUFFICES ASSUME Nat \ T # {} PROVE FALSE
  OBVIOUS
<1>1. PICK n \in Nat \ T : \A m \in Nat \ T : n <= m
  BY LeastNat
<1>2. n # 0 /\ n - 1 \in Nat /\ n = (n - 1) + 1
  OBVIOUS
<1>3. n - 1 \in T
  BY <1>1, <1>2
<1> QED
  BY <1>2, <1>3

(* What G makes of d depends on the values of f at places of a lower rank  *)
(* only.                                                                   *)
IsRecursion(D, X, N, rank, G) ==
  /\ X # {} /\ N \in Nat
  /\ rank \in [D -> 0..N]
  /\ G \in [D \X [D -> X] -> X]
  /\ \A d \in D : \A f, g \in [D -> X] :
       (\A e \in D : rank[e] < rank[d] => f[e] = g[e])
         => G[<<d, f>>] = G[<<d, g>>]

(* A recursive function exists: some f is what G makes of it.              *)
LEMMA RankedRecursion ==
  ASSUME NEW D, NEW X, NEW N, NEW rank, NEW G, IsRecursion(D, X, N, rank, G)
  PROVE  \E f \in [D -> X] : \A d \in D : f[d] = G[<<d, f>>]
<1> USE DEF IsRecursion
<1> DEFINE Holds(n, f) == \A d \in D : rank[d] < n => f[d] = G[<<d, f>>]
           T == {n \in Nat : \E f \in [D -> X] : Holds(n, f)}
<1>1. 0 \in T
  <2>1. PICK x \in X : TRUE
    OBVIOUS
  <2>2. [d \in D |-> x] \in [D -> X] /\ Holds(0, [d \in D |-> x])
    OBVIOUS
  <2> QED
    BY <2>2
<1>2. ASSUME NEW n \in Nat, n \in T PROVE n + 1 \in T
  <2>1. PICK f \in [D -> X] : Holds(n, f)
    BY <1>2
  <2> DEFINE g == [d \in D |-> IF rank[d] <= n THEN G[<<d, f>>] ELSE f[d]]
  <2>2. g \in [D -> X]
    OBVIOUS
  <2>3. \A d \in D : rank[d] < n => g[d] = f[d]
    BY <2>1
  <2>4. ASSUME NEW d \in D, rank[d] < n + 1 PROVE g[d] = G[<<d, g>>]
    <3>1. rank[d] <= n
      BY <2>4
    <3>2. g[d] = G[<<d, f>>]
      BY <3>1
    <3>3. \A e \in D : rank[e] < rank[d] => f[e] = g[e]
      BY <3>1, <2>3
    <3>4. G[<<d, f>>] = G[<<d, g>>]
      BY <2>2, <3>3
    <3> QED
      BY <3>2, <3>4
  <2>5. Holds(n + 1, g)
    BY <2>4
  <2> HIDE DEF g
  <2> QED
    BY <2>2, <2>5
<1>3. N + 1 \in T
  <2> HIDE DEF T
  <2> QED BY <1>1, <1>2, SetInduction
<1>4. PICK f \in [D -> X] : Holds(N + 1, f)
  BY <1>3
<1>5. \A d \in D : f[d] = G[<<d, f>>]
  BY <1>4
<1> QED
  BY <1>5

-----------------------------------------------------------------------------
(* Sums *)

(* The sum of f over s, one element at a time.                             *)
SumFrom(f, s, sums) ==
  IF s = {} THEN 0
  ELSE f[CHOOSE x \in s : TRUE] + sums[s \ {CHOOSE x \in s : TRUE}]

SumTable(f, S) ==
  CHOOSE sums : sums = [s \in SUBSET S |-> SumFrom(f, s, sums)]

(* A part of a finite set, and what remains of it without one element.     *)
LEMMA PartSet ==
  ASSUME NEW S, IsFiniteSet(S), NEW s \in SUBSET S
  PROVE  /\ IsFiniteSet(s) /\ Cardinality(s) \in Nat
         /\ Cardinality(s) <= Cardinality(S)
         /\ Cardinality(s) = 0 <=> s = {}
         /\ \A x \in s : Cardinality(s \ {x}) = Cardinality(s) - 1
<1>1. IsFiniteSet(s) /\ Cardinality(s) <= Cardinality(S)
  BY FS_Subset
<1>2. Cardinality(s) = 0 <=> s = {}
  BY <1>1, FS_EmptySet
<1>3. ASSUME NEW x \in s PROVE Cardinality(s \ {x}) = Cardinality(s) - 1
  <2>1. Cardinality(s \ {x}) = IF x \in s THEN Cardinality(s) - 1 ELSE Cardinality(s)
    BY <1>1, FS_RemoveElement
  <2> QED
    BY <2>1
<1> QED
  BY <1>1, <1>2, <1>3, FS_CardinalityType

LEMMA SumDefined ==
  ASSUME NEW S, IsFiniteSet(S), NEW f \in [S -> Nat]
  PROVE  \A s \in SUBSET S : /\ SumTable(f, S)[s] \in Nat
                             /\ SumTable(f, S)[s] = SumFrom(f, s, SumTable(f, S))
<1> DEFINE D == SUBSET S
           N == Cardinality(S)
           rank == [s \in D |-> Cardinality(s)]
           G == [a \in D \X [D -> Nat] |-> SumFrom(f, a[1], a[2])]
<1>1. N \in Nat
  BY FS_CardinalityType
<1>2. rank \in [D -> 0..N]
  <2>1. ASSUME NEW s \in D PROVE Cardinality(s) \in 0..N
    BY PartSet
  <2> QED
    BY <2>1
<1>3. ASSUME NEW s \in D, s # {}
      PROVE  /\ (CHOOSE x \in s : TRUE) \in S
             /\ s \ {CHOOSE x \in s : TRUE} \in D
             /\ rank[s \ {CHOOSE x \in s : TRUE}] < rank[s]
  <2> DEFINE c == CHOOSE x \in s : TRUE
  <2>1. c \in s
    BY <1>3
  <2> HIDE DEF c
  <2>2. /\ IsFiniteSet(s) /\ Cardinality(s) \in Nat
        /\ Cardinality(s \ {c}) = Cardinality(s) - 1
    BY <2>1, PartSet
  <2>3. c \in S /\ s \ {c} \in D /\ rank[s \ {c}] < rank[s]
    BY <2>1, <2>2
  <2> QED
    BY <2>3 DEF c
<1> HIDE DEF rank, D
<1>4. ASSUME NEW s \in D, NEW g \in [D -> Nat]
      PROVE  SumFrom(f, s, g) \in Nat
  BY <1>3 DEF SumFrom
<1>5. G \in [D \X [D -> Nat] -> Nat]
  BY <1>4
<1>6. ASSUME NEW s \in D, NEW g \in [D -> Nat], NEW h \in [D -> Nat],
             \A e \in D : rank[e] < rank[s] => g[e] = h[e]
      PROVE  G[<<s, g>>] = G[<<s, h>>]
  <2>1. SumFrom(f, s, g) = SumFrom(f, s, h)
    BY <1>3, <1>6 DEF SumFrom
  <2> QED
    BY <2>1
<1> HIDE DEF N
<1>7. PICK g \in [D -> Nat] : \A s \in D : g[s] = G[<<s, g>>]
  <2> HIDE DEF G
  <2>1. \A s \in D : \A u, v \in [D -> Nat] :
          (\A e \in D : rank[e] < rank[s] => u[e] = v[e])
            => G[<<s, u>>] = G[<<s, v>>]
    BY <1>6
  <2>2. IsRecursion(D, Nat, N, rank, G)
    BY <1>1, <1>2, <1>5, <2>1 DEF IsRecursion
  <2> QED
    BY ONLY <2>2, RankedRecursion
<1> DEFINE E(r) == r = [s \in D |-> SumFrom(f, s, r)]
<1>8. E(g)
  <2>1. \A s \in D : G[<<s, g>>] = SumFrom(f, s, g)
    OBVIOUS
  <2> QED
    BY <2>1, <1>7
<1>9. SumTable(f, S) = CHOOSE t : E(t)
  BY DEF SumTable, D
<1> HIDE DEF E
<1>10. E(SumTable(f, S))
  BY <1>8, <1>9
<1>11. ASSUME NEW s \in SUBSET S
       PROVE  SumTable(f, S)[s] = SumFrom(f, s, SumTable(f, S))
  BY <1>10 DEF E, D
<1> DEFINE T == {n \in Nat : \A s \in SUBSET S :
                   Cardinality(s) = n => SumTable(f, S)[s] \in Nat}
<1>12. Nat \subseteq T
  <2>1. 0 \in T
    <3>1. ASSUME NEW s \in SUBSET S, Cardinality(s) = 0
          PROVE  SumTable(f, S)[s] \in Nat
      BY <3>1, <1>11, PartSet DEF SumFrom
    <3> QED
      BY <3>1
  <2>2. ASSUME NEW n \in Nat, n \in T PROVE n + 1 \in T
    <3>1. ASSUME NEW s \in SUBSET S, Cardinality(s) = n + 1
          PROVE  SumTable(f, S)[s] \in Nat
      <4> DEFINE c == CHOOSE x \in s : TRUE
      <4>1. s # {}
        BY <3>1, PartSet
      <4>2. c \in s
        BY <4>1
      <4>3. SumTable(f, S)[s] = f[c] + SumTable(f, S)[s \ {c}]
        BY <4>1, <1>11 DEF SumFrom
      <4> HIDE DEF c
      <4>4. Cardinality(s \ {c}) = n
        BY <3>1, <4>2, PartSet
      <4>5. SumTable(f, S)[s \ {c}] \in Nat
        BY <2>2, <4>4
      <4> QED
        BY <4>2, <4>3, <4>5
    <3> QED
      BY <3>1
  <2> HIDE DEF T
  <2> QED
    BY <2>1, <2>2, SetInduction
<1>13. ASSUME NEW s \in SUBSET S PROVE SumTable(f, S)[s] \in Nat
  BY <1>12, PartSet
<1> QED
  BY <1>11, <1>13

(* Induction over the parts of a finite set.                               *)
LEMMA SubsetInduction ==
  ASSUME NEW S, IsFiniteSet(S), NEW T, {} \in T,
         \A s \in SUBSET S :
           s # {} => ((\A x \in s : s \ {x} \in T) => s \in T)
  PROVE  S \in T
<1> DEFINE U == {n \in Nat : \A s \in SUBSET S : Cardinality(s) = n => s \in T}
<1>1. 0 \in U
  <2>1. ASSUME NEW s \in SUBSET S, Cardinality(s) = 0 PROVE s \in T
    BY <2>1, PartSet
  <2> QED
    BY <2>1
<1>2. ASSUME NEW n \in Nat, n \in U PROVE n + 1 \in U
  <2>1. ASSUME NEW s \in SUBSET S, Cardinality(s) = n + 1 PROVE s \in T
    <3>1. s # {}
      BY <2>1, PartSet
    <3>2. \A x \in s : Cardinality(s \ {x}) = n
      BY <2>1, PartSet
    <3>3. \A x \in s : s \ {x} \in T
      BY <1>2, <3>2
    <3> QED
      BY <3>1, <3>3
  <2> QED
    BY <2>1
<1>3. Nat \subseteq U
  <2> HIDE DEF U
  <2> QED BY <1>1, <1>2, SetInduction
<1> QED
  BY <1>3, FS_CardinalityType

(* The sum of two functions, and of the one that is 1 in one place.        *)
LEMMA SumPlus ==
  ASSUME NEW S, IsFiniteSet(S),
         NEW f \in [S -> Nat], NEW g \in [S -> Nat], NEW h \in [S -> Nat],
         \A x \in S : h[x] = f[x] + g[x]
  PROVE  SumTable(h, S)[S] = SumTable(f, S)[S] + SumTable(g, S)[S]
<1> DEFINE F == SumTable(f, S)
           G == SumTable(g, S)
           H == SumTable(h, S)
           T == {s \in SUBSET S : H[s] = F[s] + G[s]}
<1>1. \A s \in SUBSET S : /\ F[s] \in Nat /\ F[s] = SumFrom(f, s, F)
                          /\ G[s] \in Nat /\ G[s] = SumFrom(g, s, G)
                          /\ H[s] \in Nat /\ H[s] = SumFrom(h, s, H)
  BY SumDefined
<1> HIDE DEF F, G, H
<1>2. {} \in T
  <2>1. F[{}] = 0 /\ G[{}] = 0 /\ H[{}] = 0
    BY <1>1 DEF SumFrom
  <2> QED
    BY <2>1
<1>3. ASSUME NEW s \in SUBSET S, NEW y \in s, \A x \in s : s \ {x} \in T
      PROVE  s \in T
  <2> DEFINE c == CHOOSE x \in s : TRUE
  <2>1. c \in s
    OBVIOUS
  <2>2. /\ F[s] = f[c] + F[s \ {c}] /\ G[s] = g[c] + G[s \ {c}]
        /\ H[s] = h[c] + H[s \ {c}]
    BY <1>1 DEF SumFrom
  <2> HIDE DEF c
  <2>3. s \ {c} \in SUBSET S /\ H[s \ {c}] = F[s \ {c}] + G[s \ {c}]
    BY <1>3, <2>1
  <2>4. /\ h[c] = f[c] + g[c] /\ f[c] \in Nat /\ g[c] \in Nat
        /\ F[s \ {c}] \in Nat /\ G[s \ {c}] \in Nat
    BY <2>1, <2>3, <1>1
  <2> QED
    BY <2>2, <2>3, <2>4
<1>4. S \in T
  <2> HIDE DEF T
  <2>1. \A s \in SUBSET S : s # {} => ((\A x \in s : s \ {x} \in T) => s \in T)
    BY <1>3
  <2> QED
    BY <1>2, <2>1, SubsetInduction
<1> QED
  BY <1>4 DEF F, G, H

LEMMA SumSingle ==
  ASSUME NEW S, IsFiniteSet(S), NEW y \in S, NEW k \in Nat,
         NEW f \in [S -> Nat],
         \A x \in S : f[x] = IF x = y THEN k ELSE 0
  PROVE  SumTable(f, S)[S] = k
<1> DEFINE F == SumTable(f, S)
           T == {s \in SUBSET S : F[s] = IF y \in s THEN k ELSE 0}
<1>1. \A s \in SUBSET S : F[s] \in Nat /\ F[s] = SumFrom(f, s, F)
  BY SumDefined
<1> HIDE DEF F
<1>2. {} \in T
  BY <1>1 DEF SumFrom
<1>3. ASSUME NEW s \in SUBSET S, NEW z \in s, \A x \in s : s \ {x} \in T
      PROVE  s \in T
  <2> DEFINE c == CHOOSE x \in s : TRUE
  <2>1. c \in s
    OBVIOUS
  <2>2. F[s] = f[c] + F[s \ {c}]
    BY <1>1 DEF SumFrom
  <2> HIDE DEF c
  <2>3. F[s \ {c}] = IF y \in s \ {c} THEN k ELSE 0
    BY <1>3, <2>1
  <2>4. f[c] = IF c = y THEN k ELSE 0
    BY <2>1
  <2> QED
    BY <2>1, <2>2, <2>3, <2>4
<1>4. S \in T
  <2> HIDE DEF T
  <2>1. \A s \in SUBSET S : s # {} => ((\A x \in s : s \ {x} \in T) => s \in T)
    BY <1>3
  <2> QED
    BY <1>2, <2>1, SubsetInduction
<1> QED
  BY <1>4 DEF F

LEMMA SumOne ==
  ASSUME NEW S, IsFiniteSet(S), NEW y \in S, NEW f \in [S -> Nat],
         \A x \in S : f[x] = IF x = y THEN 1 ELSE 0
  PROVE  SumTable(f, S)[S] = 1
BY SumSingle

LEMMA SumZero ==
  ASSUME NEW S, IsFiniteSet(S), NEW f \in [S -> Nat], \A x \in S : f[x] = 0
  PROVE  SumTable(f, S)[S] = 0
<1> DEFINE n == SumTable(f, S)[S]
<1>1. n = n + n
  BY SumPlus
<1>2. n \in Nat
  BY SumDefined
<1> HIDE DEF n
<1>3. n = 0
  BY <1>1, <1>2
<1> QED
  BY <1>3 DEF n

-----------------------------------------------------------------------------
(* Split *)

SplitStep(acc, c, d) ==
  IF c = d THEN <<Append(acc[1], acc[2]), <<>>>>
  ELSE <<acc[1], Append(acc[2], c)>>

(* The fold of Split over the places s of the text.                        *)
SplitFrom(text, d, s, read) ==
  IF s = {} THEN <<<<>>, <<>>>>
  ELSE SplitStep(read[s \ {Max(s)}], text[Max(s)], d)

SplitTable(text, d) ==
  CHOOSE read : read = [s \in SUBSET DOMAIN text |-> SplitFrom(text, d, s, read)]

SplitEnd(acc) == IF acc[2] = <<>> THEN acc[1] ELSE Append(acc[1], acc[2])

(* An equation in a goal is taken apart by the provers: as an operator it  *)
(* is a fact that can be found.                                            *)
AppendMoves(a, x, y) == Append(a \o x, y) = a \o Append(x, y)

LEMMA ConcatAppend ==
  ASSUME NEW S, NEW a \in Seq(S), NEW x \in Seq(S), NEW y \in S
  PROVE  AppendMoves(a, x, y)
<1>1. a \o x \in Seq(S) /\ <<y>> \in Seq(S)
  BY ConcatProperties
<1>2. Append(a \o x, y) = (a \o x) \o <<y>> /\ Append(x, y) = x \o <<y>>
  BY ONLY <1>1, y \in S, x \in Seq(S), AppendIsConcat
<1>3. (a \o x) \o <<y>> = a \o (x \o <<y>>)
  BY <1>1, ConcatAssociative
<1> QED
  BY <1>2, <1>3 DEF AppendMoves

LEMMA PairParts ==
  ASSUME NEW A, NEW B, NEW x \in A \X B
  PROVE  x[1] \in A /\ x[2] \in B /\ x = <<x[1], x[2]>>
OBVIOUS

LEMMA SplitStepType ==
  ASSUME NEW S, NEW acc \in Seq(Seq(S)) \X Seq(S), NEW c \in S, NEW d
  PROVE  SplitStep(acc, c, d) \in Seq(Seq(S)) \X Seq(S)
<1>1. acc[1] \in Seq(Seq(S)) /\ acc[2] \in Seq(S) /\ <<>> \in Seq(S)
  BY PairParts
<1>2. Append(acc[1], acc[2]) \in Seq(Seq(S)) /\ Append(acc[2], c) \in Seq(S)
  BY <1>1, PushSeq
<1>3. /\ <<Append(acc[1], acc[2]), <<>>>> \in Seq(Seq(S)) \X Seq(S)
      /\ <<acc[1], Append(acc[2], c)>> \in Seq(Seq(S)) \X Seq(S)
  BY <1>1, <1>2
<1> QED
  BY <1>3 DEF SplitStep

LEMMA SplitStartType ==
  ASSUME NEW S PROVE <<<<>>, <<>>>> \in Seq(Seq(S)) \X Seq(S)
<1>1. \A A : <<>> \in Seq(A)
  OBVIOUS
<1> QED
  BY <1>1

LEMMA SplitDefined ==
  ASSUME NEW S, NEW text \in Seq(S), NEW d
  PROVE  /\ Split(text, d) = SplitEnd(SplitTable(text, d)[1..Len(text)])
         /\ \A s \in SUBSET (1..Len(text)) :
              SplitTable(text, d)[s] = SplitFrom(text, d, s, SplitTable(text, d))
<1> DEFINE P == 1..Len(text)
           D == SUBSET P
           X == Seq(Seq(S)) \X Seq(S)
           N == Cardinality(P)
           rank == [s \in D |-> Cardinality(s)]
           G == [a \in D \X [D -> X] |-> SplitFrom(text, d, a[1], a[2])]
<1>1. DOMAIN text = P /\ Len(text) \in Nat /\ IsFiniteSet(P)
  BY FS_Interval
<1>2. N \in Nat /\ X # {}
  <2>1. <<<<>>, <<>>>> \in X
    BY SplitStartType
  <2> QED
    BY <1>1, <2>1, FS_CardinalityType
<1>3. rank \in [D -> 0..N]
  BY <1>1, PartSet, FS_CardinalityType
<1>4. ASSUME NEW s \in D, s # {}
      PROVE  /\ Max(s) \in P /\ s \ {Max(s)} \in D
             /\ rank[s \ {Max(s)}] < rank[s]
  <2> DEFINE m == Max(s)
  <2>1. s \in SUBSET (0..Len(text))
    BY <1>1
  <2>2. m \in s
    BY <1>1, <1>4, <2>1, MaxNat
  <2> HIDE DEF m
  <2>3. Cardinality(s \ {m}) = Cardinality(s) - 1 /\ Cardinality(s) \in Nat
    BY <1>1, <2>2, PartSet
  <2>4. m \in P /\ s \ {m} \in D /\ rank[s \ {m}] < rank[s]
    BY <2>2, <2>3
  <2> QED
    BY <2>4 DEF m
<1> HIDE DEF rank
<1>5. \A i \in P : text[i] \in S
  OBVIOUS
<1> HIDE DEF D, P
<1>6. ASSUME NEW s \in D, NEW f \in [D -> X]
      PROVE  SplitFrom(text, d, s, f) \in X
  <2>1. CASE s = {}
    BY <2>1, SplitStartType DEF SplitFrom
  <2>2. CASE s # {}
    <3>1. f[s \ {Max(s)}] \in X /\ text[Max(s)] \in S
      BY <1>4, <1>5, <2>2
    <3>2. SplitStep(f[s \ {Max(s)}], text[Max(s)], d) \in X
      BY <3>1, SplitStepType
    <3> QED
      BY <2>2, <3>2 DEF SplitFrom
  <2> QED
    BY <2>1, <2>2
<1> HIDE DEF X, N
<1>7. G \in [D \X [D -> X] -> X]
  BY <1>6
<1>8. ASSUME NEW s \in D, NEW f \in [D -> X], NEW g \in [D -> X],
             \A e \in D : rank[e] < rank[s] => f[e] = g[e]
      PROVE  G[<<s, f>>] = G[<<s, g>>]
  <2>1. SplitFrom(text, d, s, f) = SplitFrom(text, d, s, g)
    BY <1>4, <1>8 DEF SplitFrom
  <2> QED
    BY <2>1
<1>9. PICK f \in [D -> X] : \A s \in D : f[s] = G[<<s, f>>]
  <2> HIDE DEF G
  <2>1. \A s \in D : \A f, g \in [D -> X] :
          (\A e \in D : rank[e] < rank[s] => f[e] = g[e])
            => G[<<s, f>>] = G[<<s, g>>]
    BY <1>8
  <2>2. IsRecursion(D, X, N, rank, G)
    BY <1>2, <1>3, <1>7, <2>1 DEF IsRecursion
  <2> QED
    BY ONLY <2>2, RankedRecursion
<1> DEFINE E(r) == r = [s \in D |-> SplitFrom(text, d, s, r)]
<1>10. E(f)
  <2>1. \A s \in D : G[<<s, f>>] = SplitFrom(text, d, s, f)
    OBVIOUS
  <2> QED
    BY <2>1, <1>9
<1>11. SplitTable(text, d) = CHOOSE r : E(r)
  BY <1>1 DEF SplitTable, D
<1> HIDE DEF E
<1>12. E(SplitTable(text, d))
  BY <1>10, <1>11
<1>13. \A s \in SUBSET (1..Len(text)) :
         SplitTable(text, d)[s] = SplitFrom(text, d, s, SplitTable(text, d))
  BY <1>12 DEF E, D, P
<1>14. Split(text, d) = SplitEnd(SplitTable(text, d)[DOMAIN text])
  BY DEF Split, FoldLeft, MapThenFoldSet, SplitTable, SplitFrom, SplitStep, SplitEnd
<1> QED
  BY <1>1, <1>13, <1>14 DEF P

LEMMA FirstPlaces ==
  ASSUME NEW n \in Nat \ {0}
  PROVE  Max(1..n) = n /\ (1..n) \ {n} = 1 .. n - 1 /\ 1..n # {}
<1>1. 1..n \in SUBSET (0..n) /\ 1..n # {} /\ n \in 1..n
  OBVIOUS
<1>2. Max(1..n) \in 1..n /\ n <= Max(1..n)
  BY <1>1, MaxNat
<1>3. Max(1..n) = n
  BY <1>2
<1> QED
  BY <1>1, <1>3

(* Reading the text from its beginning: h[i] is what the first i           *)
(* characters give.                                                        *)
Reads(h, text, d) ==
  /\ h[0] = <<<<>>, <<>>>>
  /\ \A i \in 1..Len(text) : h[i] = SplitStep(h[i - 1], text[i], d)

LEMMA SplitRead ==
  ASSUME NEW S, NEW text \in Seq(S), NEW d, NEW h, Reads(h, text, d)
  PROVE  Split(text, d) = SplitEnd(h[Len(text)])
<1> DEFINE R == SplitTable(text, d)
           T == {n \in Nat : n <= Len(text) => R[1..n] = h[n]}
<1>1. Len(text) \in Nat
  OBVIOUS
<1>2. \A s \in SUBSET (1..Len(text)) : R[s] = SplitFrom(text, d, s, R)
  BY SplitDefined
<1> HIDE DEF R
<1>3. 0 \in T
  <2>1. 1..0 = {} /\ {} \in SUBSET (1..Len(text))
    OBVIOUS
  <2>2. R[1..0] = <<<<>>, <<>>>>
    BY <2>1, <1>2 DEF SplitFrom
  <2> QED
    BY <2>2 DEF Reads
<1>4. ASSUME NEW n \in Nat, n \in T PROVE n + 1 \in T
  <2> SUFFICES ASSUME n + 1 <= Len(text) PROVE R[1 .. n + 1] = h[n + 1]
    OBVIOUS
  <2>1. /\ n + 1 \in Nat \ {0} /\ n + 1 \in 1..Len(text) /\ (n + 1) - 1 = n
        /\ 1 .. n + 1 \in SUBSET (1..Len(text))
    BY <1>1
  <2>2. R[1 .. n + 1] = SplitFrom(text, d, 1 .. n + 1, R)
    BY <1>2, <2>1
  <2>3. /\ 1 .. n + 1 # {} /\ Max(1 .. n + 1) = n + 1
        /\ (1 .. n + 1) \ {n + 1} = 1 .. (n + 1) - 1
    BY ONLY <2>1, FirstPlaces
  <2>4. R[1 .. n + 1] = SplitStep(R[1..n], text[n + 1], d)
    BY <2>1, <2>2, <2>3 DEF SplitFrom
  <2>5. R[1..n] = h[n]
    BY <1>1, <1>4, <2>1
  <2>6. h[n + 1] = SplitStep(h[n], text[n + 1], d)
    BY <2>1 DEF Reads
  <2> QED
    BY <2>4, <2>5, <2>6
<1>5. Nat \subseteq T
  <2> HIDE DEF T
  <2> QED BY <1>3, <1>4, SetInduction
<1>6. R[1..Len(text)] = h[Len(text)]
  BY <1>1, <1>5
<1> QED
  BY <1>6, SplitDefined DEF R

(* Lines that were read before do not matter to a step.                    *)
Shifted(a, acc) == <<a \o acc[1], acc[2]>>

LEMMA SplitShift ==
  ASSUME NEW S, NEW a \in Seq(Seq(S)), NEW acc \in Seq(Seq(S)) \X Seq(S),
         NEW c, NEW d
  PROVE  /\ SplitStep(Shifted(a, acc), c, d) = Shifted(a, SplitStep(acc, c, d))
         /\ SplitEnd(Shifted(a, acc)) = a \o SplitEnd(acc)
<1> DEFINE Q == Seq(S)
           x == acc[1]
           y == acc[2]
<1>1. a \in Seq(Q) /\ x \in Seq(Q) /\ y \in Q
  BY PairParts
<1>2. Shifted(a, acc) = <<a \o x, y>>
  BY DEF Shifted
<1> HIDE DEF x, y
<1>3. AppendMoves(a, x, y)
  <2> HIDE DEF Q
  <2> QED
    BY <1>1, ConcatAppend
<1>4. Append(a \o x, y) = a \o Append(x, y)
  BY <1>3, Zenon DEF AppendMoves
<1>5. SplitStep(<<a \o x, y>>, c, d) = Shifted(a, SplitStep(acc, c, d))
  <2>1. CASE c = d
    <3>1. SplitStep(<<a \o x, y>>, c, d) = <<Append(a \o x, y), <<>>>>
      BY <2>1 DEF SplitStep
    <3>2. /\ SplitStep(acc, c, d)[1] = Append(x, y)
          /\ SplitStep(acc, c, d)[2] = <<>>
      BY <2>1 DEF SplitStep, x, y
    <3> QED
      BY <1>4, <3>1, <3>2, Zenon DEF Shifted
  <2>2. CASE c # d
    <3>1. SplitStep(<<a \o x, y>>, c, d) = <<a \o x, Append(y, c)>>
      BY <2>2 DEF SplitStep
    <3>2. /\ SplitStep(acc, c, d)[1] = x
          /\ SplitStep(acc, c, d)[2] = Append(y, c)
      BY <2>2 DEF SplitStep, x, y
    <3> QED
      BY <3>1, <3>2, Zenon DEF Shifted
  <2> QED
    BY <2>1, <2>2
<1>6. SplitEnd(<<a \o x, y>>) = a \o SplitEnd(acc)
  <2>1. SplitEnd(<<a \o x, y>>) = IF y = <<>> THEN a \o x ELSE Append(a \o x, y)
    BY DEF SplitEnd
  <2>2. SplitEnd(acc) = IF y = <<>> THEN x ELSE Append(x, y)
    BY DEF SplitEnd, x, y
  <2> QED
    BY <1>4, <2>1, <2>2, Zenon
<1> QED
  BY <1>2, <1>5, <1>6

LEMMA SplitReads ==
  ASSUME NEW S, NEW text \in Seq(S), NEW d
  PROVE  \E h : /\ Reads(h, text, d)
                /\ \A i \in 0..Len(text) : h[i] \in Seq(Seq(S)) \X Seq(S)
<1> DEFINE R == SplitTable(text, d)
           h == [i \in 0..Len(text) |-> R[1..i]]
           X == Seq(Seq(S)) \X Seq(S)
           T == {n \in Nat : n <= Len(text) => h[n] \in X}
<1>1. Len(text) \in Nat
  OBVIOUS
<1>2. \A s \in SUBSET (1..Len(text)) : R[s] = SplitFrom(text, d, s, R)
  BY SplitDefined
<1> HIDE DEF R
<1>3. h[0] = <<<<>>, <<>>>>
  <2>1. 1..0 = {} /\ {} \in SUBSET (1..Len(text)) /\ 0 \in 0..Len(text)
    BY <1>1
  <2>2. R[1..0] = <<<<>>, <<>>>>
    BY <2>1, <1>2 DEF SplitFrom
  <2> QED
    BY <2>1, <2>2
<1>4. ASSUME NEW i \in 1..Len(text) PROVE h[i] = SplitStep(h[i - 1], text[i], d)
  <2>1. /\ i \in Nat \ {0} /\ 1..i \in SUBSET (1..Len(text))
        /\ i \in 0..Len(text) /\ i - 1 \in 0..Len(text)
    BY <1>1
  <2>2. 1..i # {} /\ Max(1..i) = i /\ (1..i) \ {i} = 1 .. i - 1
    BY ONLY <2>1, FirstPlaces
  <2>3. R[1..i] = SplitStep(R[1 .. i - 1], text[i], d)
    BY <1>2, <2>1, <2>2 DEF SplitFrom
  <2> QED
    BY <2>1, <2>3
<1> HIDE DEF h
<1>5. 0 \in T
  BY <1>3, SplitStartType
<1>6. ASSUME NEW n \in Nat, n \in T PROVE n + 1 \in T
  <2> SUFFICES ASSUME n + 1 <= Len(text) PROVE h[n + 1] \in X
    OBVIOUS
  <2>1. h[n] \in X /\ text[n + 1] \in S /\ n + 1 \in 1..Len(text) /\ (n + 1) - 1 = n
    BY <1>1, <1>6
  <2>2. h[n + 1] = SplitStep(h[n], text[n + 1], d)
    BY <1>4, <2>1
  <2> QED
    BY <2>1, <2>2, SplitStepType
<1>7. Nat \subseteq T
  <2> HIDE DEF T
  <2> QED BY <1>5, <1>6, SetInduction
<1>8. \A i \in 0..Len(text) : h[i] \in X
  BY <1>1, <1>7
<1> QED
  BY <1>3, <1>4, <1>8 DEF Reads

(* The lines of a text are those of its parts, if one of them ends where   *)
(* the other begins.                                                       *)
LEMMA SplitConcat ==
  ASSUME NEW S, NEW a \in Seq(S), NEW d \in S, NEW b \in Seq(S)
  PROVE  Split(Append(a, d) \o b, d) = Split(Append(a, d), d) \o Split(b, d)
<1> DEFINE ad == Append(a, d)
           n  == Len(ad)
           m  == Len(b)
           t  == ad \o b
<1>1. /\ ad \in Seq(S) /\ n \in Nat \ {0} /\ m \in Nat /\ ad[n] = d
      /\ t \in Seq(S) /\ Len(t) = n + m
      /\ \A i \in 1..n : t[i] = ad[i]
      /\ \A i \in 1..m : t[n + i] = b[i]
  <2>1. ad \in Seq(S) /\ n = Len(a) + 1 /\ Len(a) \in Nat /\ ad[n] = d
    BY PushSeq
  <2> HIDE DEF ad
  <2> QED
    BY <2>1
<1>2. PICK f : /\ Reads(f, ad, d)
               /\ \A i \in 0..n : f[i] \in Seq(Seq(S)) \X Seq(S)
  BY <1>1, SplitReads
<1>3. PICK g : /\ Reads(g, b, d)
               /\ \A i \in 0..m : g[i] \in Seq(Seq(S)) \X Seq(S)
  BY SplitReads
<1> DEFINE A == f[n][1]
           h == [i \in 0 .. n + m |-> IF i <= n THEN f[i]
                                      ELSE Shifted(A, g[i - n])]
<1> HIDE DEF ad, n, m, t
<1>p. /\ \A i \in 0..n : /\ f[i][1] \in Seq(Seq(S)) /\ f[i][2] \in Seq(S)
                          /\ f[i] = <<f[i][1], f[i][2]>>
      /\ \A i \in 0..m : /\ g[i][1] \in Seq(Seq(S)) /\ g[i][2] \in Seq(S)
                          /\ g[i] = <<g[i][1], g[i][2]>>
  BY <1>2, <1>3, PairParts
<1>4. A \in Seq(Seq(S)) /\ f[n] = <<A, <<>>>>
  <2>1. n \in 1..n /\ n \in 0..n /\ n - 1 \in 0..n /\ Len(ad) = n
    BY <1>1 DEF n
  <2>2. f[n] = SplitStep(f[n - 1], d, d)
    BY <1>1, <1>2, <2>1 DEF Reads
  <2> QED
    BY <1>p, <2>1, <2>2, SMTT(40) DEF SplitStep
<1> HIDE DEF A
<1>5. \A i \in 0..m : h[n + i] = Shifted(A, g[i])
  <2> TAKE i \in 0..m
  <2>1. n + i \in 0 .. n + m /\ (n + i) - n = i
    BY <1>1
  <2>2. CASE i = 0
    <3>1. g[i] = <<<<>>, <<>>>> /\ n + i = n
      BY <1>1, <1>3, <2>2 DEF Reads
    <3>2. h[n + i] = f[n]
      BY <2>1, <3>1, <1>1
    <3>3. A \o <<>> = A
      BY <1>4
    <3>4. g[i][1] = <<>> /\ g[i][2] = <<>>
      BY <3>1
    <3> QED
      BY <1>4, <3>2, <3>3, <3>4, Zenon DEF Shifted
  <2>3. CASE i # 0
    <3> DEFINE k == n + i
    <3>1. ~(k <= n) /\ k \in 0 .. n + m /\ k - n = i
      BY <1>1, <2>1, <2>3
    <3> HIDE DEF k
    <3>2. h[k] = Shifted(A, g[k - n])
      BY <3>1
    <3>3. h[k] = Shifted(A, g[i])
      BY <3>1, <3>2
    <3> QED
      BY <3>3 DEF k
  <2> QED
    BY <2>2, <2>3
<1>6. \A i \in 0..n : h[i] = f[i]
  BY <1>1
<1> HIDE DEF h
<1>7. Reads(h, t, d)
  <2>1. h[0] = <<<<>>, <<>>>>
    BY <1>1, <1>2, <1>6 DEF Reads
  <2>2. ASSUME NEW i \in 1 .. n + m PROVE h[i] = SplitStep(h[i - 1], t[i], d)
    <3>1. CASE i <= n
      <4>1. i \in 0..n /\ i - 1 \in 0..n /\ i \in 1..Len(ad) /\ i \in 1..n
        BY <1>1, <3>1 DEF n
      <4>2. f[i] = SplitStep(f[i - 1], ad[i], d)
        BY <1>2, <4>1 DEF Reads
      <4> QED
        BY <1>1, <1>6, <4>1, <4>2
    <3>2. CASE ~(i <= n)
      <4> DEFINE j == i - n
                 acc == g[j - 1]
      <4>1. /\ j \in 1..m /\ j \in 0..m /\ j - 1 \in 0..m /\ j \in 1..Len(b)
            /\ n + j = i /\ n + (j - 1) = i - 1
        BY <1>1, <3>2 DEF m
      <4>2. /\ h[i] = Shifted(A, g[j])
            /\ h[i - 1] = Shifted(A, acc)
            /\ t[i] = b[j]
        BY <1>1, <1>5, <4>1
      <4>3. g[j] = SplitStep(acc, b[j], d)
        BY <1>3, <4>1 DEF Reads
      <4>4. acc \in Seq(Seq(S)) \X Seq(S)
        BY <1>3, <4>1
      <4> HIDE DEF acc, j
      <4>5. SplitStep(Shifted(A, acc), b[j], d) = Shifted(A, SplitStep(acc, b[j], d))
        BY <1>4, <4>4, SplitShift
      <4> QED
        BY <4>2, <4>3, <4>5, Zenon
    <3> QED
      BY <3>1, <3>2
  <2> QED
    BY <1>1, <2>1, <2>2 DEF Reads
<1>8. Split(t, d) = SplitEnd(h[n + m])
  BY <1>1, <1>7, SplitRead
<1>9. Split(ad, d) = A
  <2>1. Split(ad, d) = SplitEnd(f[n])
    BY <1>1, <1>2, SplitRead DEF n
  <2> QED
    BY <1>4, <2>1 DEF SplitEnd
<1>10. Split(b, d) = SplitEnd(g[m])
  BY <1>3, SplitRead DEF m
<1>11. SplitEnd(h[n + m]) = A \o SplitEnd(g[m])
  <2>1. m \in 0..m
    BY <1>1
  <2>2. g[m] \in Seq(Seq(S)) \X Seq(S) /\ h[n + m] = Shifted(A, g[m])
    BY <1>3, <1>5, <2>1
  <2>3. SplitEnd(Shifted(A, g[m])) = A \o SplitEnd(g[m])
    BY <1>4, <2>2, SplitShift
  <2> QED
    BY <2>2, <2>3, Zenon
<1> QED
  BY <1>8, <1>9, <1>10, <1>11 DEF t, ad

(* A text without delimiters is one line, or none.                         *)
LEMMA SplitPlain ==
  ASSUME NEW S, NEW a \in Seq(S), NEW d \in S, \A i \in 1..Len(a) : a[i] # d
  PROVE  /\ Split(a, d) = IF a = <<>> THEN <<>> ELSE <<a>>
         /\ Split(Append(a, d), d) = <<a>>
<1> DEFINE n == Len(a)
           h == [i \in 0 .. n + 1 |-> IF i <= n THEN <<<<>>, SubSeq(a, 1, i)>>
                                      ELSE <<<<a>>, <<>>>>]
<1>1. /\ n \in Nat /\ Append(a, d) \in Seq(S) /\ Len(Append(a, d)) = n + 1
      /\ \A i \in 1..n : Append(a, d)[i] = a[i]
      /\ Append(a, d)[n + 1] = d
  BY PushSeq
<1>2. SubSeq(a, 1, 0) = <<>> /\ SubSeq(a, 1, n) = a
  BY SubSeqEmpty, SubSeqFull
<1>3. \A i \in 1..n : Append(SubSeq(a, 1, i - 1), a[i]) = SubSeq(a, 1, i)
  <2> TAKE i \in 1..n
  <2>1. 1 \in 1..Len(a) /\ i \in 1..Len(a)
    OBVIOUS
  <2>2. SubSeq(a, 1, i) = SubSeq(a, 1, i - 1) \o <<a[i]>>
    BY <2>1, SubSeqRecursiveSecond
  <2>3. SubSeq(a, 1, i - 1) \in Seq(S)
    BY <2>1, PartSeq
  <2> QED
    BY <2>1, <2>2, <2>3, AppendIsConcat
<1>4. /\ h[0] = <<<<>>, <<>>>> /\ h[n] = <<<<>>, a>> /\ h[n + 1] = <<<<a>>, <<>>>>
      /\ \A i \in 0..n : h[i] = <<<<>>, SubSeq(a, 1, i)>>
  BY <1>1, <1>2, SMTT(40)
<1> HIDE DEF h
<1>5. \A i \in 1..n : h[i] = SplitStep(h[i - 1], a[i], d)
  <2> TAKE i \in 1..n
  <2> DEFINE v == SubSeq(a, 1, i - 1)
  <2>1. i \in 0..n /\ i - 1 \in 0..n /\ a[i] # d
    OBVIOUS
  <2>2. h[i - 1] = <<<<>>, v>> /\ h[i] = <<<<>>, Append(v, a[i])>>
    BY <1>3, <1>4, <2>1
  <2> HIDE DEF v
  <2>3. SplitStep(<<<<>>, v>>, a[i], d) = <<<<>>, Append(v, a[i])>>
    BY <2>1 DEF SplitStep
  <2> QED
    BY <2>2, <2>3
<1>6. h[n + 1] = SplitStep(h[n], d, d)
  BY <1>4 DEF SplitStep
<1>7. Reads(h, a, d)
  BY <1>4, <1>5 DEF Reads
<1>8. Reads(h, Append(a, d), d)
  <2>1. ASSUME NEW i \in 1 .. n + 1
        PROVE  h[i] = SplitStep(h[i - 1], Append(a, d)[i], d)
    <3>1. i \in 1..n \/ (i = n + 1 /\ i - 1 = n)
      BY <1>1
    <3> QED
      BY <1>1, <1>5, <1>6, <3>1
  <2> QED
    BY <1>1, <1>4, <2>1 DEF Reads
<1>9. Split(a, d) = SplitEnd(h[n]) /\ Split(Append(a, d), d) = SplitEnd(h[n + 1])
  BY <1>1, <1>7, <1>8, SplitRead
<1>10. SplitEnd(<<<<>>, a>>) = IF a = <<>> THEN <<>> ELSE <<a>>
  BY DEF SplitEnd
<1> QED
  BY <1>4, <1>9, <1>10 DEF SplitEnd

LEMMA SplitType ==
  ASSUME NEW S, NEW text \in Seq(S), NEW d
  PROVE  Split(text, d) \in Seq(Seq(S))
<1>1. PICK h : /\ Reads(h, text, d)
               /\ \A i \in 0..Len(text) : h[i][1] \in Seq(Seq(S)) /\ h[i][2] \in Seq(S)
  BY SplitReads
<1>2. Len(text) \in 0..Len(text)
  OBVIOUS
<1>3. Split(text, d) = SplitEnd(h[Len(text)])
  BY <1>1, SplitRead
<1> QED
  BY <1>1, <1>2, <1>3, PairParts, PushSeq DEF SplitEnd

-----------------------------------------------------------------------------
(* Texts put one after the other *)

(* The first i of n texts in a row.                                        *)
FlattenFrom(seqs, i, f) == IF i = 1 THEN seqs[i] ELSE f[i - 1] \o seqs[i]

IsFlat(seqs, n, f) == \A i \in 1..n : f[i] = FlattenFrom(seqs, i, f)

LEMMA FlattenDefined ==
  ASSUME NEW S, NEW n \in Nat, n # 0, NEW seqs \in [1..n -> Seq(S)]
  PROVE  \E f \in [1..n -> Seq(S)] : IsFlat(seqs, n, f) /\ FlattenSeq(seqs) = f[n]
<1> DEFINE D == 1..n
           X == Seq(S)
           rank == [i \in D |-> i]
           G == [a \in D \X [D -> X] |-> FlattenFrom(seqs, a[1], a[2])]
<1>1. <<>> \in X /\ rank \in [D -> 0..n]
  OBVIOUS
<1>2. ASSUME NEW i \in D, i # 1 PROVE i - 1 \in D /\ rank[i - 1] < rank[i]
  BY <1>2
<1>3. \A i \in D : seqs[i] \in X
  OBVIOUS
<1> HIDE DEF D, rank
<1>4. ASSUME NEW i \in D, NEW f \in [D -> X] PROVE FlattenFrom(seqs, i, f) \in X
  <2>1. CASE i = 1
    BY <1>3, <2>1 DEF FlattenFrom
  <2>2. CASE i # 1
    <3>1. f[i - 1] \in X /\ seqs[i] \in X
      BY <1>2, <1>3, <2>2
    <3>2. f[i - 1] \o seqs[i] \in X
      BY <3>1, ConcatProperties
    <3> QED
      BY <2>2, <3>2 DEF FlattenFrom
  <2> QED
    BY <2>1, <2>2
<1> HIDE DEF X
<1>5. G \in [D \X [D -> X] -> X]
  BY <1>4
<1>6. ASSUME NEW i \in D, NEW f \in [D -> X], NEW g \in [D -> X],
             \A e \in D : rank[e] < rank[i] => f[e] = g[e]
      PROVE  G[<<i, f>>] = G[<<i, g>>]
  <2>1. FlattenFrom(seqs, i, f) = FlattenFrom(seqs, i, g)
    BY <1>2, <1>6 DEF FlattenFrom
  <2> QED
    BY <2>1
<1>7. PICK f \in [D -> X] : \A i \in D : f[i] = G[<<i, f>>]
  <2> HIDE DEF G
  <2>1. \A i \in D : \A f, g \in [D -> X] :
          (\A e \in D : rank[e] < rank[i] => f[e] = g[e])
            => G[<<i, f>>] = G[<<i, g>>]
    BY <1>6
  <2>2. IsRecursion(D, X, n, rank, G)
    BY <1>1, <1>5, <2>1 DEF IsRecursion
  <2> QED
    BY ONLY <2>2, RankedRecursion
<1> DEFINE E(r) == r = [i \in D |-> FlattenFrom(seqs, i, r)]
           table == CHOOSE r : E(r)
<1>8. E(f)
  <2>1. \A i \in D : G[<<i, f>>] = FlattenFrom(seqs, i, f)
    OBVIOUS
  <2> QED
    BY <2>1, <1>7
<1> HIDE DEF E
<1>9. E(table)
  BY <1>8
<1> HIDE DEF table
<1>10. \A i \in D : table[i] = FlattenFrom(seqs, i, table)
  BY <1>9 DEF E
<1>11. table \in [D -> X]
  <2>1. \A i \in D : f[i] = FlattenFrom(seqs, i, f) /\ f[i] \in X
    BY <1>7
  <2> DEFINE T == {i \in Nat : i \in D => table[i] \in X}
  <2>2. 0 \in T
    BY DEF D
  <2>3. ASSUME NEW i \in Nat, i \in T PROVE i + 1 \in T
    <3> SUFFICES ASSUME i + 1 \in D PROVE table[i + 1] \in X
      OBVIOUS
    <3>1. (i + 1) - 1 = i
      OBVIOUS
    <3>2. CASE i = 0
      BY <1>3, <1>10, <3>2 DEF FlattenFrom
    <3>3. CASE i # 0
      <4>1. table[i] \in X /\ seqs[i + 1] \in X
        BY <1>3, <2>3, <3>3 DEF D
      <4>2. table[i] \o seqs[i + 1] \in X
        BY <4>1, ConcatProperties DEF X
      <4>3. table[i + 1] = FlattenFrom(seqs, i + 1, table)
        BY <1>10
      <4>4. FlattenFrom(seqs, i + 1, table) = table[i] \o seqs[i + 1]
        <5>1. i + 1 # 1
          BY <3>3
        <5> QED
          BY <3>1, <5>1, Zenon DEF FlattenFrom
      <4> QED
        BY <4>2, <4>3, <4>4
    <3> QED
      BY <3>2, <3>3
  <2>4. Nat \subseteq T
    <3> HIDE DEF T
    <3> QED BY <2>2, <2>3, SetInduction
  <2>5. \A i \in D : table[i] \in X
    BY <2>4 DEF D
  <2> QED
    BY <1>9, <2>5 DEF E
<1>12. FlattenSeq(seqs) = table[n]
  <2>1. Len(seqs) = n
    OBVIOUS
  <2>2. FlattenSeq(seqs) = (CHOOSE r : r = [i \in 1..Len(seqs) |->
                                              FlattenFrom(seqs, i, r)])[Len(seqs)]
    BY <2>1, Zenon DEF FlattenSeq, FlattenFrom
  <2> QED
    BY <2>1, <2>2 DEF table, E, D
<1>13. IsFlat(seqs, n, table)
  BY <1>10 DEF IsFlat, D
<1> QED
  BY <1>11, <1>12, <1>13 DEF D, X

(* The lines that are read are the ones that were written.                 *)
IsLine(line, body, d) == line = Append(body, d)

(* The first i of the bodies.                                              *)
SplitsInto(text, d, bodies, i) ==
  LET read == Split(text, d)
  IN  Len(read) = i /\ \A j \in 1..i : read[j] = bodies[j]

LEMMA SplitOneMore ==
  ASSUME NEW S, NEW d \in S, NEW a \in Seq(S), NEW body \in Seq(S),
         \A j \in 1..Len(body) : body[j] # d,
         NEW bodies, NEW i \in Nat, bodies[i + 1] = body,
         SplitsInto(Append(a, d), d, bodies, i)
  PROVE  /\ SplitsInto(Append(a, d) \o Append(body, d), d, bodies, i + 1)
         /\ \E b \in Seq(S) : IsLine(Append(a, d) \o Append(body, d), b, d)
<1> DEFINE ad == Append(a, d)
           bd == Append(body, d)
           t  == ad \o bd
           s  == Split(ad, d)
<1>1. ad \in Seq(S) /\ bd \in Seq(S) /\ ad \o body \in Seq(S)
  <2>1. ad \in Seq(S) /\ bd \in Seq(S)
    BY PushSeq
  <2> HIDE DEF ad, bd
  <2> QED
    BY <2>1, ConcatProperties
<1>2. Split(t, d) = s \o Split(bd, d)
  BY <1>1, SplitConcat, ZenonT(60)
<1>3. Split(bd, d) = <<body>>
  BY SplitPlain
<1>4. s \in Seq(Seq(S))
  BY <1>1, SplitType
<1>5. Len(s) = i /\ \A j \in 1..i : s[j] = bodies[j]
  BY DEF SplitsInto
<1>6. AppendMoves(ad, body, d)
  BY <1>1, ConcatAppend
<1>7. IsLine(t, ad \o body, d)
  BY <1>6, Zenon DEF AppendMoves, IsLine
<1> DEFINE r == s \o <<body>>
<1> HIDE DEF s
<1>8. Len(r) = i + 1 /\ \A j \in 1 .. i + 1 : r[j] = bodies[j]
  <2>1. <<body>> \in Seq(Seq(S)) /\ Len(<<body>>) = 1 /\ <<body>>[1] = body
    OBVIOUS
  <2>2. Len(r) = i + 1 /\ \A j \in 1 .. i + 1 : r[j] = IF j <= i THEN s[j] ELSE body
    <3> DEFINE one == <<body>>
    <3> HIDE DEF one
    <3>1. one \in Seq(Seq(S)) /\ Len(one) = 1 /\ one[1] = body
      BY <2>1 DEF one
    <3>2. /\ Len(s \o one) = Len(s) + Len(one)
          /\ \A j \in 1 .. Len(s) + Len(one) :
               (s \o one)[j] = IF j <= Len(s) THEN s[j] ELSE one[j - Len(s)]
      BY <1>4, <3>1, ConcatProperties, Zenon
    <3>3. r = s \o one
      BY DEF one
    <3> HIDE DEF r
    <3> QED
      BY <1>5, <3>1, <3>2, <3>3
  <2> HIDE DEF r
  <2>3. \A j \in 1 .. i + 1 : j \in 1..i \/ j = i + 1
    OBVIOUS
  <2> QED
    BY <1>5, <2>2, <2>3
<1>9. Split(t, d) = r
  BY <1>2, <1>3
<1> HIDE DEF r, t
<1>10. SplitsInto(t, d, bodies, i + 1)
  BY <1>8, <1>9 DEF SplitsInto
<1> QED
  BY <1>1, <1>7, <1>10 DEF t, ad, bd

LEMMA SplitLines ==
  ASSUME NEW S, NEW d \in S, NEW n \in Nat, n # 0,
         NEW bodies \in [1..n -> Seq(S)], NEW lines \in [1..n -> Seq(S)],
         \A i \in 1..n : /\ IsLine(lines[i], bodies[i], d)
                         /\ \A j \in 1..Len(bodies[i]) : bodies[i][j] # d
  PROVE  /\ Split(FlattenSeq(lines), d) = bodies
         /\ FlattenSeq(lines) \in Seq(S)
         /\ \E a \in Seq(S) : IsLine(FlattenSeq(lines), a, d)
<1>1. PICK f \in [1..n -> Seq(S)] : IsFlat(lines, n, f) /\ FlattenSeq(lines) = f[n]
  BY FlattenDefined
<1> DEFINE Done(i) == /\ SplitsInto(f[i], d, bodies, i)
                      /\ \E a \in Seq(S) : IsLine(f[i], a, d)
           T == {i \in Nat : i \in 1..n => Done(i)}
<1>2. 0 \in T
  OBVIOUS
<1>3. ASSUME NEW i \in Nat, i \in T PROVE i + 1 \in T
  <2> SUFFICES ASSUME i + 1 \in 1..n PROVE Done(i + 1)
    OBVIOUS
  <2> DEFINE k == i + 1
             body == bodies[k]
  <2>1. k - 1 = i /\ k \in 1..n
    OBVIOUS
  <2>2. /\ body \in Seq(S) /\ IsLine(lines[k], body, d)
        /\ \A j \in 1..Len(body) : body[j] # d
    OBVIOUS
  <2>3. f[k] = FlattenFrom(lines, k, f)
    BY <1>1, <2>1 DEF IsFlat
  <2>4. CASE i = 0
    <3>1. f[k] = lines[k] /\ k = 1
      BY <2>3, <2>4 DEF FlattenFrom
    <3> HIDE DEF k, body
    <3>2. Split(f[k], d) = <<body>>
      <4>1. Split(Append(body, d), d) = <<body>>
        BY <2>2, SplitPlain
      <4> QED
        BY <2>2, <3>1, <4>1, Zenon DEF IsLine
    <3>3. SplitsInto(f[k], d, bodies, 1)
      BY <3>1, <3>2 DEF SplitsInto, body
    <3>4. \E a \in Seq(S) : IsLine(f[k], a, d)
      BY <2>2, <3>1
    <3> QED
      BY <3>1, <3>3, <3>4, <2>4 DEF k
  <2>5. CASE i # 0
    <3>1. i \in 1..n /\ k # 1
      BY <2>1, <2>5
    <3>2. Done(i)
      BY <1>3, <3>1
    <3>3. PICK a \in Seq(S) : IsLine(f[i], a, d)
      BY <3>2
    <3>4. f[k] = f[i] \o lines[k]
      BY <2>1, <2>3, <3>1, Zenon DEF FlattenFrom
    <3> HIDE DEF k, body
    <3>5. bodies[i + 1] = body /\ k = i + 1
      BY DEF k, body
    <3>6. SplitsInto(Append(a, d), d, bodies, i)
      BY <3>2, <3>3, Zenon DEF IsLine
    <3>7. /\ SplitsInto(Append(a, d) \o Append(body, d), d, bodies, i + 1)
          /\ \E b \in Seq(S) : IsLine(Append(a, d) \o Append(body, d), b, d)
      BY <2>2, <3>5, <3>6, SplitOneMore
    <3>8. SplitsInto(f[k], d, bodies, i + 1)
      BY <2>2, <3>3, <3>4, <3>7, Zenon DEF IsLine
    <3>9. \E b \in Seq(S) : IsLine(f[k], b, d)
      <4>1. PICK b \in Seq(S) : IsLine(Append(a, d) \o Append(body, d), b, d)
        BY <3>7
      <4>2. IsLine(f[k], b, d)
        BY <2>2, <3>3, <3>4, <4>1, Zenon DEF IsLine
      <4> QED
        BY <4>2
    <3> QED
      BY <3>5, <3>8, <3>9
  <2> QED
    BY <2>4, <2>5
<1>4. Done(n)
  <2>1. Nat \subseteq T
    <3> HIDE DEF T
    <3> QED BY <1>2, <1>3, SetInduction
  <2> QED
    BY <2>1
<1>5. SplitsInto(f[n], d, bodies, n) /\ f[n] \in Seq(S)
  BY <1>4
<1> DEFINE r == Split(f[n], d)
<1>6. r \in Seq(Seq(S))
  BY <1>5, SplitType
<1>7. Len(r) = n /\ \A j \in 1..n : r[j] = bodies[j]
  BY <1>5 DEF SplitsInto
<1> HIDE DEF r
<1>8. bodies \in Seq(Seq(S)) /\ Len(bodies) = n
  OBVIOUS
<1>9. r = bodies
  BY <1>6, <1>7, <1>8, SeqEqual
<1>10. \E a \in Seq(S) : IsLine(f[n], a, d)
  BY <1>4
<1> QED
  BY <1>1, <1>5, <1>9, <1>10 DEF r

-----------------------------------------------------------------------------
(* The length of a text and of its lines *)

(* total[k] is the sum of the first k of n numbers.                        *)
IsTotal(total, n, number) ==
  /\ total \in [0..n -> Nat] /\ total[0] = 0
  /\ \A k \in 1..n : total[k] = total[k - 1] + number[k]

Numbers(U) == [U -> Nat]

(* g is f with n more for y.                                               *)
Adds(U, f, g, y, n) == \A u \in U : g[u] = IF u = y THEN f[u] + n ELSE f[u]

LEMMA SumAdds ==
  ASSUME NEW U, IsFiniteSet(U), NEW f \in Numbers(U), NEW g \in Numbers(U),
         NEW y \in U, NEW n \in Nat, Adds(U, f, g, y, n)
  PROVE  SumTable(g, U)[U] = SumTable(f, U)[U] + n
<1> DEFINE h == [u \in U |-> IF u = y THEN n ELSE 0]
<1>0. f \in [U -> Nat] /\ g \in [U -> Nat]
  BY DEF Numbers
<1>1. h \in [U -> Nat] /\ \A u \in U : h[u] = IF u = y THEN n ELSE 0
  OBVIOUS
<1> HIDE DEF h
<1>2. \A u \in U : g[u] = f[u] + h[u]
  BY <1>0, <1>1 DEF Adds
<1>3. SumTable(h, U)[U] = n
  BY <1>1, SumSingle
<1>4. SumTable(g, U)[U] = SumTable(f, U)[U] + SumTable(h, U)[U]
  BY <1>0, <1>1, <1>2, SumPlus
<1> QED
  BY <1>3, <1>4

(* The weights of the first k names.                                       *)
Weights(U, names, w, k) ==
  [u \in U |-> IF \E i \in 1..k : names[i] = u THEN w[u] ELSE 0]

LEMMA NamesStep ==
  ASSUME NEW U, NEW n \in Nat, NEW names \in [1..n -> U],
         \A i, j \in 1..n : names[i] = names[j] => i = j,
         NEW w \in [U -> Nat], NEW k \in 1..n
  PROVE  Adds(U, Weights(U, names, w, k - 1), Weights(U, names, w, k),
              names[k], w[names[k]])
<1> DEFINE Among(u, l) == \E i \in 1..l : names[i] = u
<1>1. Among(names[k], k) /\ ~Among(names[k], k - 1)
  OBVIOUS
<1>2. \A u \in U : u # names[k] => (Among(u, k) <=> Among(u, k - 1))
  <2>1. /\ \A i \in 1..k : i \in 1 .. k - 1 \/ i = k
        /\ \A i \in 1 .. k - 1 : i \in 1..k
    OBVIOUS
  <2> QED
    BY <2>1
<1>3. \A u \in U : w[u] \in Nat /\ w[u] = 0 + w[u]
  OBVIOUS
<1>4. \A l : Weights(U, names, w, l) = [u \in U |-> IF Among(u, l) THEN w[u] ELSE 0]
  BY DEF Weights
<1> HIDE DEF Among
<1> QED
  BY <1>1, <1>2, <1>3, <1>4 DEF Adds

(* n different names.                                                      *)
Different(names, n, U) ==
  /\ names \in [1..n -> U]
  /\ \A i, j \in 1..n : names[i] = names[j] => i = j

LEMMA TotalStep ==
  ASSUME NEW U, IsFiniteSet(U), NEW n \in Nat, NEW names, Different(names, n, U),
         NEW w, w \in Numbers(U), NEW k \in 1..n
  PROVE  SumTable(Weights(U, names, w, k), U)[U]
           = SumTable(Weights(U, names, w, k - 1), U)[U] + w[names[k]]
<1>1. names[k] \in U
  BY DEF Different
<1>2. w[names[k]] \in Nat
  BY <1>1 DEF Numbers
<1>3. /\ Weights(U, names, w, k - 1) \in Numbers(U)
      /\ Weights(U, names, w, k) \in Numbers(U)
  BY DEF Numbers, Weights
<1>4. Adds(U, Weights(U, names, w, k - 1), Weights(U, names, w, k),
           names[k], w[names[k]])
  BY NamesStep DEF Different, Numbers
<1> QED
  BY ONLY <1>1, <1>2, <1>3, <1>4, IsFiniteSet(U), SumAdds, Zenon

(* w is 0 for everybody else, and the numbers are the weights in order.    *)
WeighsNames(U, n, names, w, number) ==
  /\ w \in Numbers(U)
  /\ \A u \in U : (\A i \in 1..n : names[i] # u) => w[u] = 0
  /\ \A i \in 1..n : number[i] = w[names[i]]

(* A sum over a set, name after name, where only n names count.            *)
LEMMA NamesTotal ==
  ASSUME NEW U, IsFiniteSet(U), NEW n \in Nat, NEW names, Different(names, n, U),
         NEW w, NEW number, WeighsNames(U, n, names, w, number)
  PROVE  \E total : IsTotal(total, n, number) /\ total[n] = SumTable(w, U)[U]
<1> USE DEF WeighsNames
<1> DEFINE total == [k \in 0..n |-> SumTable(Weights(U, names, w, k), U)[U]]
<1>1. \A k \in 0..n : Weights(U, names, w, k) \in [U -> Nat]
  BY DEF Weights, Numbers
<1>2. total \in [0..n -> Nat]
  <2>1. \A k \in 0..n : SumTable(Weights(U, names, w, k), U)[U] \in Nat
    <3> QED BY <1>1, SumDefined
  <2> QED
    BY <2>1
<1>3. total[0] = 0
  <2>1. 0 \in 0..n /\ \A u \in U : Weights(U, names, w, 0)[u] = 0
    BY DEF Weights
  <2>2. SumTable(Weights(U, names, w, 0), U)[U] = 0
    BY <1>1, <2>1, SumZero
  <2> QED
    BY <2>1, <2>2
<1>4. ASSUME NEW k \in 1..n PROVE total[k] = total[k - 1] + number[k]
  <2>1. k \in 0..n /\ k - 1 \in 0..n
    OBVIOUS
  <2>2. SumTable(Weights(U, names, w, k), U)[U]
          = SumTable(Weights(U, names, w, k - 1), U)[U] + w[names[k]]
    BY TotalStep
  <2> QED
    BY <2>1, <2>2
<1>5. total[n] = SumTable(w, U)[U]
  <2>1. n \in 0..n
    OBVIOUS
  <2>2. Weights(U, names, w, n) = w
    BY DEF Weights, Numbers
  <2> QED
    BY <2>1, <2>2
<1> HIDE DEF total
<1> QED
  BY <1>2, <1>3, <1>4, <1>5 DEF IsTotal

(* A text is read line after line, and what was read stays.                *)
IsStart(part, all) ==
  Len(part) <= Len(all) /\ \A j \in 1..Len(part) : all[j] = part[j]

LEMMA StartAppend ==
  ASSUME NEW S, NEW part \in Seq(S), NEW x \in S, NEW all,
         IsStart(Append(part, x), all)
  PROVE  /\ IsStart(part, all) /\ Len(part) + 1 <= Len(all)
         /\ all[Len(part) + 1] = x
<1> DEFINE more == Append(part, x)
<1>1. /\ Len(more) = Len(part) + 1 /\ Len(part) \in Nat
      /\ \A j \in 1..Len(part) : more[j] = part[j]
      /\ more[Len(part) + 1] = x
  BY PushSeq
<1> HIDE DEF more
<1>2. Len(more) <= Len(all) /\ \A j \in 1..Len(more) : all[j] = more[j]
  BY DEF IsStart, more
<1>3. Len(part) <= Len(all)
  <2> DEFINE l == Len(all)
  <2>1. Len(part) + 1 <= l
    BY <1>1, <1>2
  <2>2. l \in Int \/ l \notin Int
    OBVIOUS
  <2> QED
    BY <1>1, <2>1
<1> QED
  BY <1>1, <1>2, <1>3 DEF IsStart

(* What one step of the loop does.                                         *)
LEMMA SplitStepParts ==
  ASSUME NEW S, NEW acc \in Seq(Seq(S)) \X Seq(S), NEW c, NEW d
  PROVE  /\ c = d => /\ SplitStep(acc, c, d)[1] = Append(acc[1], acc[2])
                     /\ SplitStep(acc, c, d)[2] = <<>>
         /\ c # d => /\ SplitStep(acc, c, d)[1] = acc[1]
                     /\ SplitStep(acc, c, d)[2] = Append(acc[2], c)
BY DEF SplitStep

LEMMA LinesStay ==
  ASSUME NEW S, NEW text \in Seq(S), NEW d, NEW h, Reads(h, text, d),
         \A i \in 0..Len(text) : h[i] \in Seq(Seq(S)) \X Seq(S)
  PROVE  \A i \in 0..Len(text) : IsStart(h[i][1], Split(text, d))
<1> DEFINE n == Len(text)
           Q == Seq(S)
           all == Split(text, d)
           T == {k \in Nat : k \in 0..n => IsStart(h[n - k][1], all)}
<1>1. n \in Nat /\ \A i \in 0..n : h[i][1] \in Seq(Q) /\ h[i][2] \in Q
  BY PairParts
<1>2. all = SplitEnd(h[n]) /\ all \in Seq(Q)
  BY SplitRead, SplitType
<1> HIDE DEF all, Q
<1>3. 0 \in T
  <2> DEFINE ls == h[n][1]
             cur == h[n][2]
  <2>1. n - 0 = n /\ n \in 0..n /\ ls \in Seq(Q) /\ cur \in Q
    BY <1>1
  <2>2. all = ls \/ all = Append(ls, cur)
    BY <1>2 DEF SplitEnd
  <2> HIDE DEF ls, cur
  <2>3. IsStart(ls, all)
    <3>1. Len(ls) \in Nat
      BY <2>1
    <3>2. CASE all = ls
      BY <3>1, <3>2 DEF IsStart
    <3>3. CASE all = Append(ls, cur)
      <4>1. /\ Len(all) = Len(ls) + 1
            /\ \A j \in 1..Len(ls) : all[j] = ls[j]
        BY <2>1, <3>3, PushSeq
      <4> QED
        BY <3>1, <4>1 DEF IsStart
    <3> QED
      BY <2>2, <3>2, <3>3
  <2> QED
    BY <2>1, <2>3 DEF ls
<1>4. ASSUME NEW k \in Nat, k \in T PROVE k + 1 \in T
  <2> SUFFICES ASSUME k + 1 \in 0..n PROVE IsStart(h[n - (k + 1)][1], all)
    OBVIOUS
  <2> DEFINE i == n - (k + 1)
             ls == h[i][1]
             cur == h[i][2]
  <2>1. i \in 0..n /\ n - k \in 1..n /\ n - k \in 0..n /\ (n - k) - 1 = i
    BY <1>1
  <2>2. IsStart(h[n - k][1], all)
    BY <1>1, <1>4, <2>1
  <2>3. h[n - k] = SplitStep(h[i], text[n - k], d)
    BY <2>1 DEF Reads
  <2>4. ls \in Seq(Q) /\ cur \in Q /\ h[i] \in Seq(Seq(S)) \X Seq(S)
    BY <1>1, <2>1
  <2>5. h[n - k][1] = ls \/ h[n - k][1] = Append(ls, cur)
    <3> DEFINE acc == h[i]
               c == text[n - k]
    <3>1. h[n - k] = SplitStep(acc, c, d) /\ acc \in Seq(Seq(S)) \X Seq(S)
      BY <2>3, <2>4
    <3> HIDE DEF acc, c
    <3>2. /\ c = d => SplitStep(acc, c, d)[1] = Append(acc[1], acc[2])
          /\ c # d => SplitStep(acc, c, d)[1] = acc[1]
      BY <3>1, SplitStepParts
    <3>3. h[n - k][1] = acc[1] \/ h[n - k][1] = Append(acc[1], acc[2])
      BY <3>1, <3>2, Zenon
    <3> QED
      BY <3>3 DEF acc
  <2> HIDE DEF ls, cur
  <2>6. IsStart(ls, all)
    BY <2>2, <2>4, <2>5, StartAppend
  <2> QED
    BY <2>6 DEF ls
<1>5. Nat \subseteq T
  <2> HIDE DEF T
  <2> QED BY <1>3, <1>4, SetInduction
<1>6. ASSUME NEW i \in 0..n PROVE IsStart(h[i][1], all)
  <2>1. n - i \in Nat /\ n - i \in 0..n /\ n - (n - i) = i
    BY <1>1
  <2>2. n - i \in T
    BY <1>5, <2>1
  <2> QED
    BY <2>1, <2>2
<1> QED
  BY <1>6 DEF all

(* Every line counts with its delimiter, which the last one may lack.      *)
LEMMA TextLength ==
  ASSUME NEW S, NEW text \in Seq(S), NEW d, NEW total, NEW number,
         IsTotal(total, Len(Split(text, d)), number),
         \A k \in 1..Len(Split(text, d)) : number[k] = Len(Split(text, d)[k]) + 1
  PROVE  /\ Len(text) <= total[Len(Split(text, d))]
         /\ text = <<>> \/ text[Len(text)] = d
              => Len(text) = total[Len(Split(text, d))]
<1> DEFINE n == Len(text)
           Q == Seq(S)
           all == Split(text, d)
           N == Len(all)
<1>1. PICK h : /\ Reads(h, text, d)
               /\ \A i \in 0..n : h[i] \in Seq(Seq(S)) \X Seq(S)
  BY SplitReads
<1>2. n \in Nat /\ \A i \in 0..n : h[i][1] \in Seq(Q) /\ h[i][2] \in Q
  BY <1>1, PairParts
<1>3. all = SplitEnd(h[n]) /\ all \in Seq(Q)
  BY <1>1, SplitRead, SplitType
<1>4. \A i \in 0..n : IsStart(h[i][1], all)
  BY <1>1, LinesStay
<1>5. N \in Nat
  BY <1>3
<1>6. /\ total \in [0..N -> Nat] /\ total[0] = 0
      /\ \A k \in 1..N : total[k] = total[k - 1] + Len(all[k]) + 1
  <2>1. \A k \in 1..N : Len(all[k]) \in Nat /\ total[k - 1] \in Nat
    <3> TAKE k \in 1..N
    <3>1. all[k] \in Q
      BY <1>3
    <3>2. k - 1 \in 0..N
      BY <1>5
    <3>3. Len(all[k]) \in Nat
      BY <3>1
    <3>4. total \in [0..N -> Nat]
      BY DEF IsTotal
    <3> QED
      BY <3>2, <3>3, <3>4
  <2>2. /\ total \in [0..N -> Nat] /\ total[0] = 0
        /\ \A k \in 1..N : total[k] = total[k - 1] + number[k]
    BY DEF IsTotal
  <2>3. \A k \in 1..N : number[k] = Len(all[k]) + 1
    OBVIOUS
  <2> HIDE DEF all, N
  <2> QED
    BY <2>1, <2>2, <2>3
<1> DEFINE Counted(i) == i = total[Len(h[i][1])] + Len(h[i][2])
           T == {i \in Nat : i \in 0..n => Counted(i)}
<1> HIDE DEF Q, all, N
<1>7. 0 \in T
  <2>1. h[0] = <<<<>>, <<>>>>
    BY <1>1 DEF Reads
  <2>2. Len(h[0][1]) = 0 /\ Len(h[0][2]) = 0
    BY <2>1
  <2> QED
    BY <1>6, <2>2
<1>8. ASSUME NEW i \in Nat, i \in T PROVE i + 1 \in T
  <2> SUFFICES ASSUME i + 1 \in 0..n PROVE Counted(i + 1)
    OBVIOUS
  <2> DEFINE k == i + 1
             ls == h[i][1]
             cur == h[i][2]
             c == text[k]
             m == Len(ls)
  <2>1. i \in 0..n /\ k \in 1..n /\ k \in 0..n /\ k - 1 = i
    BY <1>2
  <2>2. i = total[m] + Len(cur)
    BY <1>8, <2>1
  <2>3. h[k] = SplitStep(h[i], c, d)
    BY <1>1, <2>1 DEF Reads
  <2>4. ls \in Seq(Q) /\ cur \in Q /\ h[i] \in Seq(Seq(S)) \X Seq(S) /\ c \in S
    BY <1>1, <1>2, <2>1
  <2>5. m \in Nat /\ Len(cur) \in Nat
    BY <2>4 DEF Q
  <2> HIDE DEF c, k
  <2>6. CASE c = d
    <3>1. h[k][1] = Append(ls, cur) /\ h[k][2] = <<>>
      BY <2>3, <2>4, <2>6, SplitStepParts, SMTT(40)
    <3>2. IsStart(Append(ls, cur), all)
      <4>1. IsStart(h[k][1], all)
        BY <1>4, <2>1
      <4> QED
        BY <3>1, <4>1, Zenon
    <3> HIDE DEF ls, cur, m
    <3>3. m + 1 <= N /\ all[m + 1] = cur
      BY <2>4, <3>2, StartAppend DEF N, m
    <3>4. m + 1 \in 1..N /\ (m + 1) - 1 = m /\ m \in 0..N
      BY <1>5, <2>5, <3>3
    <3>5. total[m + 1] = total[m] + Len(cur) + 1 /\ total[m] \in Nat
      BY <1>6, <3>3, <3>4
    <3>6. Len(h[k][1]) = m + 1 /\ Len(h[k][2]) = 0
      <4>1. Len(Append(ls, cur)) = Len(ls) + 1
        BY <2>4, PushSeq
      <4> QED
        BY <3>1, <4>1 DEF m
    <3>7. k = total[m + 1] + 0
      BY <2>2, <2>5, <3>5 DEF k
    <3> QED
      BY <3>6, <3>7 DEF k
  <2>7. CASE c # d
    <3>1. h[k][1] = ls /\ h[k][2] = Append(cur, c)
      BY <2>3, <2>4, <2>7, SplitStepParts
    <3> HIDE DEF ls, cur
    <3>2. Len(Append(cur, c)) = Len(cur) + 1
      BY <2>4, PushSeq DEF Q
    <3>3. Len(h[k][1]) = m /\ Len(h[k][2]) = Len(cur) + 1
      BY <3>1, <3>2
    <3>4. m \in 0..N
      <4>1. IsStart(ls, all)
        BY <1>4, <2>1 DEF ls
      <4> QED
        BY <1>5, <2>5, <4>1 DEF IsStart, N
    <3>5. total[m] \in Nat
      BY <1>6, <3>4
    <3> HIDE DEF m
    <3>6. k = total[m] + (Len(cur) + 1)
      BY <2>2, <2>5, <3>5 DEF k
    <3> QED
      BY <3>3, <3>6 DEF k
  <2> QED
    BY <2>6, <2>7
<1>9. Counted(n)
  <2>1. Nat \subseteq T
    <3> HIDE DEF T
    <3> QED BY <1>7, <1>8, SetInduction
  <2> QED
    BY <1>2, <2>1
<1> DEFINE ls == h[n][1]
           cur == h[n][2]
           m == Len(ls)
<1>10. /\ n = total[m] + Len(cur) /\ ls \in Seq(Q) /\ cur \in Q
       /\ all = IF cur = <<>> THEN ls ELSE Append(ls, cur)
  BY <1>2, <1>3, <1>9 DEF SplitEnd
<1>11. text # <<>> /\ text[n] = d => cur = <<>>
  <2> SUFFICES ASSUME text # <<>>, text[n] = d PROVE cur = <<>>
    OBVIOUS
  <2>1. n \in 1..n /\ n - 1 \in 0..n
    OBVIOUS
  <2>2. h[n] = SplitStep(h[n - 1], text[n], d) /\ h[n - 1] \in Seq(Seq(S)) \X Seq(S)
    BY <1>1, <2>1 DEF Reads
  <2> QED
    BY <2>2, SplitStepParts
<1>12. text = <<>> => n = 0
  OBVIOUS
<1> HIDE DEF ls, cur, n
<1>13. m \in Nat /\ Len(cur) \in Nat
  BY <1>10 DEF Q
<1>14. CASE cur = <<>>
  <2>1. N = m /\ Len(cur) = 0
    BY <1>10, <1>14 DEF N
  <2>2. total[N] \in Nat
    BY <1>5, <1>6
  <2>3. n = total[N]
    BY <1>10, <2>1, <2>2
  <2> QED
    BY <2>2, <2>3 DEF n, N, all
<1>15. CASE cur # <<>>
  <2>1. /\ all = Append(ls, cur) /\ Len(cur) # 0
    BY <1>10, <1>15 DEF Q
  <2>2. Len(all) = m + 1 /\ all[m + 1] = cur
    BY <1>10, <2>1, PushSeq
  <2>3. N = m + 1 /\ N \in 1..N /\ N - 1 = m /\ m \in 0..N
    BY <1>13, <2>2 DEF N
  <2>4. total[N] = total[m] + Len(cur) + 1 /\ total[m] \in Nat
    BY <1>6, <2>2, <2>3
  <2>5. n + 1 = total[N] /\ n # 0
    BY <1>10, <1>13, <2>1, <2>4
  <2>6. n <= total[N]
    BY <1>2, <2>5
  <2>7. text # <<>> /\ text[n] # d
    BY <1>11, <1>12, <1>15, <2>5
  <2> QED
    BY <2>6, <2>7 DEF n, N, all
<1> QED
  BY <1>14, <1>15

-----------------------------------------------------------------------------
(* Finding and cutting *)

LEMMA FindFirst ==
  ASSUME NEW S, NEW text \in Seq(S), NEW c, NEW k \in 1..Len(text),
         text[k] = c, \A i \in 1 .. k - 1 : text[i] # c
  PROVE  Find(text, c) = k
<1> DEFINE I == {i \in 1..Len(text) : text[i] = c}
<1>1. Find(text, c) = IF I # {} THEN Min(I) ELSE 0
  BY DEF Find, SelectInSeq
<1>2. k \in I /\ I \in SUBSET Nat
  OBVIOUS
<1>3. Min(I) \in I /\ \A i \in I : Min(I) <= i
  <2> HIDE DEF I
  <2> QED
    BY <1>2, MinNat
<1> DEFINE m == Min(I)
<1>4. m \in I /\ m <= k
  BY <1>2, <1>3
<1> HIDE DEF m
<1>5. m = k
  BY <1>4
<1>6. Find(text, c) = m
  BY <1>1, <1>2 DEF m
<1> QED
  BY <1>5, <1>6

LEMMA FindPlace ==
  ASSUME NEW S, NEW text \in Seq(S), NEW c
  PROVE  \/ Find(text, c) = 0 /\ \A i \in 1..Len(text) : text[i] # c
         \/ Find(text, c) \in 1..Len(text) /\ text[Find(text, c)] = c
<1> DEFINE I == {i \in 1..Len(text) : text[i] = c}
<1>1. Find(text, c) = IF I # {} THEN Min(I) ELSE 0
  BY DEF Find, SelectInSeq
<1>2. CASE I = {}
  <2>1. \A i \in 1..Len(text) : text[i] # c
    BY <1>2
  <2> HIDE DEF I
  <2> QED
    BY <1>1, <1>2, <2>1
<1>3. CASE I # {}
  <2>1. I \in SUBSET Nat
    OBVIOUS
  <2>2. Min(I) \in I
    <3> HIDE DEF I
    <3> QED BY <1>3, <2>1, MinNat
  <2> DEFINE m == Min(I)
  <2>3. m \in 1..Len(text) /\ text[m] = c
    BY <2>2
  <2>4. Find(text, c) = m
    <3> HIDE DEF I
    <3> QED BY <1>1, <1>3
  <2> HIDE DEF m
  <2> QED
    BY <2>3, <2>4
<1> QED
  BY <1>2, <1>3

LEMMA FrontSeq ==
  ASSUME NEW S, NEW s \in Seq(S), NEW x \in S
  PROVE  Front(Append(s, x)) = s
<1>1. /\ Append(s, x) \in Seq(S) /\ Len(Append(s, x)) = Len(s) + 1
      /\ Len(s) \in Nat /\ \A i \in 1..Len(s) : Append(s, x)[i] = s[i]
  BY PushSeq
<1> DEFINE t == Append(s, x)
           f == SubSeq(t, 1, Len(s))
<1>2. Front(t) = f
  BY <1>1 DEF Front
<1> HIDE DEF t
<1>3. f \in Seq(S) /\ Len(f) = Len(s) /\ \A i \in 1..Len(s) : f[i] = t[i]
  BY <1>1, PartSeq DEF t
<1> HIDE DEF f
<1>4. f = s
  BY <1>1, <1>3, SeqEqual DEF t
<1> QED
  BY <1>2, <1>4 DEF t

(* A text is cut at the last place of a character.                         *)
IsLastCut(t, d, a, c) ==
  /\ t = Append(a, d) \o c
  /\ \A i \in 1..Len(c) : c[i] # d /\ \E j \in 1..Len(t) : c[i] = t[j]

LEMMA LastPlace ==
  ASSUME NEW S, NEW t \in Seq(S), NEW d \in S, NEW k \in 1..Len(t), t[k] = d
  PROVE  \E a, c \in Seq(S) : IsLastCut(t, d, a, c)
<1> DEFINE I == {i \in 1..Len(t) : t[i] = d}
           m == Max(I)
           a == SubSeq(t, 1, m - 1)
           c == SubSeq(t, m + 1, Len(t))
<1>1. Len(t) \in Nat /\ k \in I /\ I \in SUBSET (0..Len(t))
  OBVIOUS
<1>2. m \in I /\ \A i \in I : i <= m
  <2> HIDE DEF I
  <2> QED
    BY <1>1, MaxNat
<1>3. m \in 1..Len(t) /\ t[m] = d /\ \A i \in m + 1 .. Len(t) : t[i] # d
  <2> HIDE DEF m
  <2> QED
    BY <1>1, <1>2
<1> HIDE DEF m, I
<1>4. /\ SubSeq(t, 1, m) \in Seq(S) /\ c \in Seq(S)
      /\ t = SubSeq(t, 1, m) \o c
  BY <1>1, <1>3, CutSeq
<1>5. a \in Seq(S) /\ SubSeq(t, 1, m) = Append(a, d)
  <2>1. 1 \in 1..Len(t) /\ m \in 1..Len(t) /\ m - 1 \in 0..Len(t)
    BY <1>1, <1>3
  <2>2. SubSeq(t, 1, m) = a \o <<t[m]>>
    BY <2>1, SubSeqRecursiveSecond
  <2>3. a \in Seq(S)
    BY <1>1, <2>1, PartSeq
  <2> QED
    BY <1>3, <2>2, <2>3, AppendIsConcat
<1>6. /\ Len(c) = Len(t) - m
      /\ \A i \in 1 .. Len(t) - m : c[i] = t[m + i]
  <2>1. m + 1 \in 1 .. Len(t) + 1 /\ Len(t) \in 0..Len(t)
    BY <1>1, <1>3
  <2>2. /\ Len(c) = IF m + 1 <= Len(t) THEN Len(t) - (m + 1) + 1 ELSE 0
        /\ \A i \in 1 .. Len(t) - (m + 1) + 1 : c[i] = t[(m + 1) + i - 1]
    BY <2>1, PartSeq
  <2> HIDE DEF c
  <2> QED
    BY <1>1, <1>3, <2>2
<1> HIDE DEF c, a
<1>7. ASSUME NEW i \in 1..Len(c)
      PROVE  c[i] # d /\ \E j \in 1..Len(t) : c[i] = t[j]
  <2>1. m + i \in m + 1 .. Len(t) /\ m + i \in 1..Len(t) /\ c[i] = t[m + i]
    BY <1>1, <1>3, <1>6
  <2> QED
    BY <1>3, <2>1
<1> QED
  BY <1>4, <1>5, <1>7, ZenonT(60) DEF IsLastCut

=============================================================================
