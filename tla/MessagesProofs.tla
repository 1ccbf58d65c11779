--------------------------- MODULE MessagesProofs ---------------------------
(***************************************************************************)
(* Theorems about MessagePack and Conversation.                            *)
(***************************************************************************)
EXTENDS MessagePack, Conversation, SeqLemmas

-----------------------------------------------------------------------------
(* How often a message stands in a sequence *)

LEMMA CountType ==
  ASSUME NEW S, NEW s \in Seq(S), NEW m
  PROVE  /\ IsFiniteSet({i \in DOMAIN s : s[i] = m})
         /\ Count(s, m) \in Nat
<1>1. IsFiniteSet(1..Len(s))
  BY FS_Interval
<1>2. IsFiniteSet({i \in DOMAIN s : s[i] = m})
  BY <1>1, FS_Subset, {i \in DOMAIN s : s[i] = m} \in SUBSET (1..Len(s))
<1> QED
  BY <1>2, FS_CardinalityType DEF Count

LEMMA CountConcat ==
  ASSUME NEW S, NEW s \in Seq(S), NEW t \in Seq(S), NEW m
  PROVE  Count(s \o t, m) = Count(s, m) + Count(t, m)
<1> DEFINE A == {i \in DOMAIN s : s[i] = m}
           B == {i \in DOMAIN t : t[i] = m}
           C == {i \in (Len(s) + 1) .. (Len(s) + Len(t)) : t[i - Len(s)] = m}
           shift == [i \in B |-> i + Len(s)]
<1>1. Len(s) \in Nat /\ Len(t) \in Nat
  OBVIOUS
<1>2. {i \in DOMAIN (s \o t) : (s \o t)[i] = m} = A \cup C
  BY <1>1
<1>3. A \cap C = {}
  BY <1>1
<1>4. shift \in Bijection(B, C)
  <2>1. shift \in [B -> C]
    BY <1>1
  <2>2. \A i, j \in B : i # j => shift[i] # shift[j]
    BY <1>1
  <2>3. \A c \in C : c - Len(s) \in B /\ shift[c - Len(s)] = c
    BY <1>1
  <2> HIDE DEF shift, B, C
  <2> QED
    BY <2>1, <2>2, <2>3 DEF Bijection, Injection, Surjection, IsInjective
<1>5. IsFiniteSet(A) /\ IsFiniteSet(B)
  BY CountType
<1> HIDE DEF A, B, C, shift
<1>6. IsFiniteSet(C) /\ Cardinality(C) = Cardinality(B)
  BY <1>4, <1>5, FS_Bijection DEF ExistsBijection
<1>7. Cardinality(A \cup C) = Cardinality(A) + Cardinality(C) - Cardinality({})
  BY <1>3, <1>5, <1>6, FS_Union
<1>8. /\ Count(s \o t, m) = Cardinality(A \cup C)
      /\ Count(s, m) = Cardinality(A) /\ Count(t, m) = Cardinality(B)
  BY <1>2 DEF Count, A, B
<1> QED
  BY <1>5, <1>6, <1>7, <1>8, FS_EmptySet, FS_CardinalityType

LEMMA CountEmpty ==
  ASSUME NEW m PROVE Count(<<>>, m) = 0
<1>1. {i \in DOMAIN <<>> : <<>>[i] = m} = {}
  OBVIOUS
<1> QED
  BY <1>1, FS_EmptySet DEF Count

LEMMA CountOne ==
  ASSUME NEW x, NEW m PROVE Count(<<x>>, m) = IF x = m THEN 1 ELSE 0
<1>1. {i \in DOMAIN <<x>> : <<x>>[i] = m} = IF x = m THEN {1} ELSE {}
  OBVIOUS
<1> QED
  BY <1>1, FS_EmptySet, FS_Singleton DEF Count

(* A sequence with one message inserted or removed.                        *)
LEMMA CountInsert ==
  ASSUME NEW S, NEW s \in Seq(S), NEW x \in S, NEW i \in 1 .. Len(s) + 1, NEW m
  PROVE  Count(InsertAt(s, i, x), m) = Count(s, m) + Count(<<x>>, m)
<1> DEFINE a == SubSeq(s, 1, i - 1)
           b == SubSeq(s, i, Len(s))
<1>1. a \in Seq(S) /\ b \in Seq(S) /\ s = a \o b /\ <<x>> \in Seq(S)
  <2>1. i - 1 \in 0..Len(s) /\ (i - 1) + 1 = i
    OBVIOUS
  <2>2. <<x>> \in Seq(S)
    OBVIOUS
  <2> QED
    BY <2>1, <2>2, CutSeq
<1> HIDE DEF a, b
<1>2. Count(s, m) = Count(a, m) + Count(b, m)
  BY <1>1, CountConcat
<1>3. Count(a \o <<x>>, m) = Count(a, m) + Count(<<x>>, m)
  BY <1>1, CountConcat
<1>4. Count(a \o <<x>> \o b, m) = Count(a \o <<x>>, m) + Count(b, m)
  BY <1>1, CountConcat, a \o <<x>> \in Seq(S)
<1>5. InsertAt(s, i, x) = a \o <<x>> \o b
  BY DEF InsertAt, a, b
<1>6. /\ Count(a, m) \in Nat /\ Count(b, m) \in Nat
      /\ Count(<<x>>, m) \in Nat
  BY <1>1, CountType
<1> QED
  BY <1>2, <1>3, <1>4, <1>5, <1>6

LEMMA CountRemove ==
  ASSUME NEW S, NEW s \in Seq(S), NEW i \in 1 .. Len(s), NEW m
  PROVE  Count(s, m) = Count(RemoveAt(s, i), m) + Count(<<s[i]>>, m)
<1> DEFINE a == SubSeq(s, 1, i - 1)
           b == SubSeq(s, i + 1, Len(s))
<1>1. /\ a \in Seq(S) /\ b \in Seq(S) /\ <<s[i]>> \in Seq(S)
      /\ s = a \o (<<s[i]>> \o b)
  <2>1. i - 1 \in 0..Len(s) /\ (i - 1) + 1 = i /\ i \in 0..Len(s)
    OBVIOUS
  <2>2. /\ a \in Seq(S) /\ SubSeq(s, i, Len(s)) \in Seq(S)
        /\ s = a \o SubSeq(s, i, Len(s)) /\ b \in Seq(S)
    BY <2>1, CutSeq
  <2>3. Len(s) \in 1..Len(s) /\ i \in 1..Len(s) /\ Len(s) \in i..Len(s)
    OBVIOUS
  <2>4. SubSeq(s, i, Len(s)) = <<s[i]>> \o b
    BY <2>3, SubSeqRecursiveFirst
  <2>5. <<s[i]>> \in Seq(S)
    OBVIOUS
  <2> QED
    BY <2>2, <2>4, <2>5
<1> HIDE DEF a, b
<1>2. Count(s, m) = Count(a, m) + Count(<<s[i]>> \o b, m)
  <2> DEFINE c == <<s[i]>> \o b
  <2>1. c \in Seq(S) /\ s = a \o c
    BY <1>1, ConcatProperties
  <2> HIDE DEF c
  <2>2. Count(s, m) = Count(a, m) + Count(c, m)
    BY <1>1, <2>1, CountConcat
  <2> QED
    BY <2>2 DEF c
<1>3. Count(<<s[i]>> \o b, m) = Count(<<s[i]>>, m) + Count(b, m)
  BY <1>1, CountConcat, ZenonT(60)
<1>4. Count(a \o b, m) = Count(a, m) + Count(b, m)
  BY <1>1, CountConcat
<1>5. RemoveAt(s, i) = a \o b
  BY DEF RemoveAt, a, b
<1>6. /\ Count(a, m) \in Nat /\ Count(b, m) \in Nat
      /\ Count(<<s[i]>>, m) \in Nat
  BY <1>1, CountType
<1> QED
  BY <1>2, <1>3, <1>4, <1>5, <1>6

-----------------------------------------------------------------------------
(* std::merge *)

(* The table that Merge fills.                                             *)
MergeFrom(p, q, d, merged) ==
  IF d[1] = 0 THEN SubSeq(q, 1, d[2])
  ELSE IF d[2] = 0 THEN SubSeq(p, 1, d[1])
  ELSE IF Later(p[d[1]], q[d[2]])
       THEN Append(merged[<<d[1] - 1, d[2]>>], p[d[1]])
  ELSE Append(merged[<<d[1], d[2] - 1>>], q[d[2]])

Places(p, q) == (0..Len(p)) \X (0..Len(q))

MergeTable(p, q) ==
  CHOOSE merged : merged = [d \in Places(p, q) |-> MergeFrom(p, q, d, merged)]

LEMMA MergeDefined ==
  ASSUME NEW p \in Seq(Messages), NEW q \in Seq(Messages)
  PROVE  /\ Merge(p, q) = MergeTable(p, q)[<<Len(p), Len(q)>>]
         /\ \A d \in Places(p, q) :
              MergeTable(p, q)[d] = MergeFrom(p, q, d, MergeTable(p, q))
<1> DEFINE D == Places(p, q)
           X == Seq(Messages)
           N == Len(p) + Len(q)
           rank == [d \in D |-> d[1] + d[2]]
           G == [a \in D \X [D -> X] |-> MergeFrom(p, q, a[1], a[2])]
<1>1. N \in Nat /\ X # {}
  OBVIOUS
<1>2. rank \in [D -> 0..N]
  BY DEF Places
<1>3. ASSUME NEW d \in D
      PROVE  /\ d[1] \in 0..Len(p) /\ d[2] \in 0..Len(q)
             /\ d[1] # 0 => /\ <<d[1] - 1, d[2]>> \in D
                            /\ rank[<<d[1] - 1, d[2]>>] < rank[d]
             /\ d[2] # 0 => /\ <<d[1], d[2] - 1>> \in D
                            /\ rank[<<d[1], d[2] - 1>>] < rank[d]
  BY SMTT(40) DEF Places
<1> HIDE DEF rank
<1> HIDE DEF D
<1>4. ASSUME NEW d \in D, NEW f \in [D -> X]
      PROVE  MergeFrom(p, q, d, f) \in X
  <2>1. d[1] \in 0..Len(p) /\ d[2] \in 0..Len(q)
    BY <1>3
  <2>2. CASE d[1] = 0
    <3>1. SubSeq(q, 1, d[2]) \in X
      BY <2>1, PartSeq
    <3> QED
      BY <3>1, <2>2 DEF MergeFrom
  <2>3. CASE d[1] # 0 /\ d[2] = 0
    <3>1. SubSeq(p, 1, d[1]) \in X
      BY <2>1, PartSeq
    <3> QED
      BY <3>1, <2>3 DEF MergeFrom
  <2>4. CASE d[1] # 0 /\ d[2] # 0
    <3>1. f[<<d[1] - 1, d[2]>>] \in X /\ f[<<d[1], d[2] - 1>>] \in X
      BY <1>3, <2>4
    <3>2. d[1] \in 1..Len(p) /\ d[2] \in 1..Len(q)
      BY <2>1, <2>4
    <3>3. p[d[1]] \in Messages /\ q[d[2]] \in Messages
      BY <3>2, ElementOfSeq
    <3> QED
      BY <3>1, <3>3, <2>4 DEF MergeFrom
  <2> QED
    BY <2>2, <2>3, <2>4
<1>5. G \in [D \X [D -> X] -> X]
  BY <1>4
<1>6. ASSUME NEW d \in D, NEW f \in [D -> X], NEW g \in [D -> X],
             \A e \in D : rank[e] < rank[d] => f[e] = g[e]
      PROVE  G[<<d, f>>] = G[<<d, g>>]
  <2>1. d[1] # 0 => f[<<d[1] - 1, d[2]>>] = g[<<d[1] - 1, d[2]>>]
    BY <1>3, <1>6
  <2>2. d[2] # 0 => f[<<d[1], d[2] - 1>>] = g[<<d[1], d[2] - 1>>]
    BY <1>3, <1>6
  <2>3. MergeFrom(p, q, d, f) = MergeFrom(p, q, d, g)
    BY <2>1, <2>2 DEF MergeFrom
  <2> QED
    BY <2>3
<1> HIDE DEF X, N
<1>7. PICK f \in [D -> X] : \A d \in D : f[d] = G[<<d, f>>]
  <2> HIDE DEF G
  <2>1. \A d \in D : \A f, g \in [D -> X] :
          (\A e \in D : rank[e] < rank[d] => f[e] = g[e])
            => G[<<d, f>>] = G[<<d, g>>]
    BY <1>6
  <2>2. IsRecursion(D, X, N, rank, G)
    BY <1>1, <1>2, <1>5, <2>1 DEF IsRecursion
  <2> QED
    BY ONLY <2>2, RankedRecursion
<1>8. f = [d \in D |-> MergeFrom(p, q, d, f)]
  <2>1. \A d \in D : G[<<d, f>>] = MergeFrom(p, q, d, f)
    OBVIOUS
  <2> QED
    BY <2>1, <1>7
<1>9. MergeTable(p, q) = [d \in D |-> MergeFrom(p, q, d, MergeTable(p, q))]
  <2> DEFINE E(m) == m = [d \in D |-> MergeFrom(p, q, d, m)]
  <2>1. E(f)
    BY <1>8
  <2>2. MergeTable(p, q) = CHOOSE m : E(m)
    BY DEF MergeTable, D
  <2> HIDE DEF E
  <2>3. E(MergeTable(p, q))
    BY <2>1, <2>2
  <2> QED
    BY <2>3 DEF E
<1>10. Merge(p, q) = MergeTable(p, q)[<<Len(p), Len(q)>>]
  BY DEF Merge, MergeTable, MergeFrom, Places
<1> QED
  BY <1>9, <1>10 DEF D

LEMMA CountAppend ==
  ASSUME NEW S, NEW s \in Seq(S), NEW x \in S, NEW m
  PROVE  Count(Append(s, x), m) = Count(s, m) + Count(<<x>>, m)
<1>1. <<x>> \in Seq(S) /\ Append(s, x) = s \o <<x>>
  BY AppendIsConcat
<1>2. Count(s \o <<x>>, m) = Count(s, m) + Count(<<x>>, m)
  BY <1>1, CountConcat
<1> QED
  BY <1>1, <1>2

LEMMA CountPart ==
  ASSUME NEW S, NEW s \in Seq(S), NEW i \in 1..Len(s), NEW m
  PROVE  Count(SubSeq(s, 1, i), m)
           = Count(SubSeq(s, 1, i - 1), m) + Count(<<s[i]>>, m)
<1> DEFINE a == SubSeq(s, 1, i - 1)
<1>1. 1 \in 1..Len(s) /\ i \in 1..Len(s) /\ i - 1 \in 0..Len(s) /\ s[i] \in S
  OBVIOUS
<1>2. SubSeq(s, 1, i) = a \o <<s[i]>>
  BY <1>1, SubSeqRecursiveSecond
<1>3. a \in Seq(S) /\ <<s[i]>> \in Seq(S)
  BY <1>1, PartSeq
<1> HIDE DEF a
<1>4. Count(a \o <<s[i]>>, m) = Count(a, m) + Count(<<s[i]>>, m)
  BY <1>3, CountConcat
<1> QED
  BY <1>2, <1>4 DEF a

LEMMA OrderAppend ==
  ASSUME NEW s \in Seq(Messages), InOrder(s), NEW x \in Messages,
         \A k \in 1..Len(s) : ~Later(s[k], x)
  PROVE  InOrder(Append(s, x))
BY DEF InOrder

(* What has been merged at the place d: only messages of the two parts,    *)
(* all of them, in order.                                                  *)
Merged(p, q, d, t) ==
  /\ t \in Seq(Messages) /\ Len(t) = d[1] + d[2]
  /\ InOrder(t)
  /\ \A k \in 1..Len(t) : \/ \E a \in 1..d[1] : t[k] = p[a]
                          \/ \E b \in 1..d[2] : t[k] = q[b]
  /\ \A m : Count(t, m) = Count(SubSeq(p, 1, d[1]), m)
                            + Count(SubSeq(q, 1, d[2]), m)

(* Of three messages, none later than the next.                            *)
LEMMA LaterChain ==
  ASSUME NEW x \in Messages, NEW y \in Messages, NEW z \in Messages,
         ~Later(x, y), ~Later(y, z)
  PROVE  ~Later(x, z)
<1>1. x.time \in Nat /\ y.time \in Nat /\ z.time \in Nat
  BY ONLY PackAssumption, x \in Messages, y \in Messages, z \in Messages
    DEF PackAssumption
<1> QED
  BY ONLY <1>1, ~Later(x, y), ~Later(y, z) DEF Later

(* The next message is one of p ... *)
LEMMA MergeStepLeft ==
  ASSUME NEW p \in Seq(Messages), NEW q \in Seq(Messages),
         InOrder(p), InOrder(q),
         NEW i \in 1..Len(p), NEW j \in 1..Len(q), Later(p[i], q[j]),
         NEW t, Merged(p, q, <<i - 1, j>>, t)
  PROVE  Merged(p, q, <<i, j>>, Append(t, p[i]))
<1> USE PackAssumption
<1>1. t \in Seq(Messages) /\ InOrder(t) /\ p[i] \in Messages
  BY DEF Merged
<1>2. ASSUME NEW k \in 1..Len(t) PROVE ~Later(t[k], p[i])
  <2>1. CASE \E a \in 1 .. i - 1 : t[k] = p[a]
    BY <2>1 DEF InOrder
  <2>2. CASE \E b \in 1..j : t[k] = q[b]
    <3>1. PICK b \in 1..j : t[k] = q[b]
      BY <2>2
    <3>2. b \in 1..Len(q) /\ q[b] \in Messages /\ q[j] \in Messages
      OBVIOUS
    <3>3. b = j \/ ~Later(q[b], q[j])
      BY <3>2 DEF InOrder
    <3>4. ~Later(q[j], p[i])
      <4>1. q[j].time \in Nat /\ p[i].time \in Nat
        BY ONLY <1>1, <3>2, PackAssumption DEF PackAssumption
      <4> QED
        BY ONLY <4>1, Later(p[i], q[j]) DEF Later
    <3>5. ~Later(q[b], p[i])
      BY ONLY <1>1, <3>2, <3>3, <3>4, LaterChain, Zenon
    <3> QED
      BY ONLY <3>1, <3>5, Zenon
  <2> QED
    BY <2>1, <2>2 DEF Merged
<1>3. /\ Append(t, p[i]) \in Seq(Messages) /\ InOrder(Append(t, p[i]))
      /\ Len(Append(t, p[i])) = i + j
  <2>1. Len(t) = (i - 1) + j
    BY DEF Merged
  <2>2. Append(t, p[i]) \in Seq(Messages) /\ Len(Append(t, p[i])) = Len(t) + 1
    BY <1>1, PushSeq
  <2>3. InOrder(Append(t, p[i]))
    BY <1>1, <1>2, OrderAppend, Zenon
  <2> QED
    BY <2>1, <2>2, <2>3
<1>4. ASSUME NEW k \in 1..Len(Append(t, p[i]))
      PROVE  \/ \E a \in 1..i : Append(t, p[i])[k] = p[a]
             \/ \E b \in 1..j : Append(t, p[i])[k] = q[b]
  <2>1. k \in 1..Len(t) \/ Append(t, p[i])[k] = p[i]
    BY <1>1, PushSeq
  <2>2. CASE k \in 1..Len(t)
    <3>1. Append(t, p[i])[k] = t[k]
      BY <1>1, <2>2, PushSeq
    <3>2. \/ \E a \in 1 .. i - 1 : t[k] = p[a]
          \/ \E b \in 1 .. j : t[k] = q[b]
      BY <2>2 DEF Merged
    <3>3. 1 .. i - 1 \subseteq 1..i
      OBVIOUS
    <3> QED
      BY <3>1, <3>2, <3>3
  <2>3. CASE Append(t, p[i])[k] = p[i]
    <3>1. i \in 1..i
      OBVIOUS
    <3> QED
      BY <2>3, <3>1
  <2> QED
    BY <2>1, <2>2, <2>3
<1>5. ASSUME NEW m
      PROVE  Count(Append(t, p[i]), m)
               = Count(SubSeq(p, 1, i), m) + Count(SubSeq(q, 1, j), m)
  <2>1. Count(Append(t, p[i]), m) = Count(t, m) + Count(<<p[i]>>, m)
    BY <1>1, CountAppend
  <2>2. Count(SubSeq(p, 1, i), m)
          = Count(SubSeq(p, 1, i - 1), m) + Count(<<p[i]>>, m)
    BY CountPart
  <2>3. Count(t, m) = Count(SubSeq(p, 1, i - 1), m) + Count(SubSeq(q, 1, j), m)
    BY DEF Merged
  <2>4. /\ Count(SubSeq(p, 1, i - 1), m) \in Nat /\ Count(SubSeq(q, 1, j), m) \in Nat
        /\ Count(<<p[i]>>, m) \in Nat
    <3>1. /\ SubSeq(p, 1, i - 1) \in Seq(Messages)
          /\ SubSeq(q, 1, j) \in Seq(Messages)
          /\ <<p[i]>> \in Seq(Messages)
      BY <1>1, PartSeq
    <3> QED
      BY <3>1, CountType
  <2> QED
    BY <2>1, <2>2, <2>3, <2>4
<1> QED
  BY <1>3, <1>4, <1>5 DEF Merged

(* ... or one of q. *)
LEMMA MergeStepRight ==
  ASSUME NEW p \in Seq(Messages), NEW q \in Seq(Messages),
         InOrder(p), InOrder(q),
         NEW i \in 1..Len(p), NEW j \in 1..Len(q), ~Later(p[i], q[j]),
         NEW t, Merged(p, q, <<i, j - 1>>, t)
  PROVE  Merged(p, q, <<i, j>>, Append(t, q[j]))
<1> USE PackAssumption
<1>1. t \in Seq(Messages) /\ InOrder(t) /\ q[j] \in Messages
  BY DEF Merged
<1>2. ASSUME NEW k \in 1..Len(t) PROVE ~Later(t[k], q[j])
  <2>1. CASE \E b \in 1 .. j - 1 : t[k] = q[b]
    BY <2>1 DEF InOrder
  <2>2. CASE \E a \in 1..i : t[k] = p[a]
    <3>1. PICK a \in 1..i : t[k] = p[a]
      BY <2>2
    <3>2. a \in 1..Len(p) /\ p[a] \in Messages /\ p[i] \in Messages
      OBVIOUS
    <3>3. a = i \/ ~Later(p[a], p[i])
      BY <3>2, SMTT(40) DEF InOrder
    <3>4. ~Later(p[a], q[j])
      BY ONLY <1>1, <3>2, <3>3, ~Later(p[i], q[j]), LaterChain, Zenon
    <3> QED
      BY ONLY <3>1, <3>4, Zenon
  <2> QED
    BY <2>1, <2>2 DEF Merged
<1>3. /\ Append(t, q[j]) \in Seq(Messages) /\ InOrder(Append(t, q[j]))
      /\ Len(Append(t, q[j])) = i + j
  <2>1. Len(t) = i + (j - 1)
    BY DEF Merged
  <2>2. Append(t, q[j]) \in Seq(Messages) /\ Len(Append(t, q[j])) = Len(t) + 1
    BY <1>1, PushSeq
  <2>3. InOrder(Append(t, q[j]))
    BY <1>1, <1>2, OrderAppend, Zenon
  <2> QED
    BY <2>1, <2>2, <2>3
<1>4. ASSUME NEW k \in 1..Len(Append(t, q[j]))
      PROVE  \/ \E a \in 1..i : Append(t, q[j])[k] = p[a]
             \/ \E b \in 1..j : Append(t, q[j])[k] = q[b]
  <2>1. k \in 1..Len(t) \/ Append(t, q[j])[k] = q[j]
    BY <1>1, PushSeq
  <2>2. CASE k \in 1..Len(t)
    <3>1. Append(t, q[j])[k] = t[k]
      BY <1>1, <2>2, PushSeq
    <3>2. \/ \E a \in 1 .. i : t[k] = p[a]
          \/ \E b \in 1 .. j - 1 : t[k] = q[b]
      BY <2>2 DEF Merged
    <3>3. 1 .. j - 1 \subseteq 1..j
      OBVIOUS
    <3> QED
      BY <3>1, <3>2, <3>3
  <2>3. CASE Append(t, q[j])[k] = q[j]
    <3>1. j \in 1..j
      OBVIOUS
    <3> QED
      BY <2>3, <3>1
  <2> QED
    BY <2>1, <2>2, <2>3
<1>5. ASSUME NEW m
      PROVE  Count(Append(t, q[j]), m)
               = Count(SubSeq(p, 1, i), m) + Count(SubSeq(q, 1, j), m)
  <2>1. Count(Append(t, q[j]), m) = Count(t, m) + Count(<<q[j]>>, m)
    BY <1>1, CountAppend
  <2>2. Count(SubSeq(q, 1, j), m)
          = Count(SubSeq(q, 1, j - 1), m) + Count(<<q[j]>>, m)
    BY CountPart
  <2>3. Count(t, m) = Count(SubSeq(p, 1, i), m) + Count(SubSeq(q, 1, j - 1), m)
    BY DEF Merged
  <2>4. /\ Count(SubSeq(p, 1, i), m) \in Nat /\ Count(SubSeq(q, 1, j - 1), m) \in Nat
        /\ Count(<<q[j]>>, m) \in Nat
    <3>1. /\ SubSeq(p, 1, i) \in Seq(Messages)
          /\ SubSeq(q, 1, j - 1) \in Seq(Messages)
          /\ <<q[j]>> \in Seq(Messages)
      BY <1>1, PartSeq
    <3> QED
      BY <3>1, CountType
  <2> QED
    BY <2>1, <2>2, <2>3, <2>4
<1> QED
  BY <1>3, <1>4, <1>5 DEF Merged

(* A part of a pack is merged by itself. *)
LEMMA PartOrder ==
  ASSUME NEW p \in Seq(Messages), InOrder(p), NEW i \in 0..Len(p)
  PROVE  /\ SubSeq(p, 1, i) \in Seq(Messages) /\ InOrder(SubSeq(p, 1, i))
         /\ Len(SubSeq(p, 1, i)) = i
         /\ \A k \in 1..Len(SubSeq(p, 1, i)) :
              \E a \in 1..i : SubSeq(p, 1, i)[k] = p[a]
         /\ \A m : Count(SubSeq(p, 1, 0), m) = 0
<1>1. /\ SubSeq(p, 1, i) \in Seq(Messages) /\ Len(SubSeq(p, 1, i)) = i
      /\ \A k \in 1..i : SubSeq(p, 1, i)[k] = p[k]
  BY PartSeq
<1>2. InOrder(SubSeq(p, 1, i))
  BY <1>1 DEF InOrder
<1>3. SubSeq(p, 1, 0) = <<>>
  BY SubSeqEmpty
<1> QED
  BY <1>1, <1>2, <1>3, CountEmpty

LEMMA TableMerged ==
  ASSUME NEW p \in Seq(Messages), NEW q \in Seq(Messages), InOrder(p), InOrder(q)
  PROVE  \A d \in Places(p, q) : Merged(p, q, d, MergeTable(p, q)[d])
<1> DEFINE M == MergeTable(p, q)
           Good(n) == \A i \in 0..Len(p), j \in 0..Len(q) :
                        i + j <= n => Merged(p, q, <<i, j>>, M[<<i, j>>])
           T == {n \in Nat : Good(n)}
<1>1. ASSUME NEW i \in 0..Len(p), NEW j \in 0..Len(q)
      PROVE  M[<<i, j>>] = MergeFrom(p, q, <<i, j>>, M)
  BY MergeDefined DEF Places
<1> HIDE DEF M
<1>2. ASSUME NEW i \in 0..Len(p), NEW j \in 0..Len(q), i = 0 \/ j = 0
      PROVE  Merged(p, q, <<i, j>>, M[<<i, j>>])
  <2>1. /\ \A m : Count(SubSeq(p, 1, 0), m) = 0 /\ Count(SubSeq(q, 1, 0), m) = 0
        /\ \A m : /\ Count(SubSeq(p, 1, i), m) \in Nat
                 /\ Count(SubSeq(q, 1, j), m) \in Nat
    BY PartOrder, CountType
  <2>2. CASE i = 0
    <3>1. M[<<i, j>>] = SubSeq(q, 1, j)
      BY <1>1, <2>2 DEF MergeFrom
    <3> QED
      BY <2>1, <2>2, <3>1, PartOrder, SMTT(40) DEF Merged
  <2>3. CASE i # 0 /\ j = 0
    <3>1. M[<<i, j>>] = SubSeq(p, 1, i)
      BY <1>1, <2>3 DEF MergeFrom
    <3> QED
      BY <2>1, <2>3, <3>1, PartOrder, SMTT(40) DEF Merged
  <2> QED
    BY <1>2, <2>2, <2>3
<1>3. 0 \in T
  BY <1>2
<1>4. ASSUME NEW n \in Nat, n \in T PROVE n + 1 \in T
  <2> SUFFICES ASSUME NEW i \in 0..Len(p), NEW j \in 0..Len(q), i + j <= n + 1
               PROVE  Merged(p, q, <<i, j>>, M[<<i, j>>])
    OBVIOUS
  <2>1. CASE i = 0 \/ j = 0
    BY <2>1, <1>2
  <2>2. CASE i # 0 /\ j # 0 /\ Later(p[i], q[j])
    <3>1. M[<<i, j>>] = Append(M[<<i - 1, j>>], p[i])
      BY <1>1, <2>2 DEF MergeFrom
    <3>2. i - 1 \in 0..Len(p) /\ (i - 1) + j <= n
      BY <2>2
    <3>3. Merged(p, q, <<i - 1, j>>, M[<<i - 1, j>>])
      BY <1>4, <3>2
    <3>4. i \in 1..Len(p) /\ j \in 1..Len(q)
      BY <2>2
    <3> QED
      BY <2>2, <3>1, <3>3, <3>4, MergeStepLeft
  <2>3. CASE i # 0 /\ j # 0 /\ ~Later(p[i], q[j])
    <3>1. M[<<i, j>>] = Append(M[<<i, j - 1>>], q[j])
      BY <1>1, <2>3 DEF MergeFrom
    <3>2. j - 1 \in 0..Len(q) /\ i + (j - 1) <= n
      BY <2>3
    <3>3. Merged(p, q, <<i, j - 1>>, M[<<i, j - 1>>])
      BY <1>4, <3>2
    <3>4. i \in 1..Len(p) /\ j \in 1..Len(q)
      BY <2>3
    <3> QED
      BY <2>3, <3>1, <3>3, <3>4, MergeStepRight
  <2> QED
    BY <2>1, <2>2, <2>3
<1>5. Len(p) + Len(q) \in Nat /\ Len(p) \in Nat /\ Len(q) \in Nat
  OBVIOUS
<1>6. Good(Len(p) + Len(q))
  <2> HIDE DEF Good
  <2>1. Nat \subseteq T
    <3> HIDE DEF T
    <3> QED BY <1>3, <1>4, SetInduction
  <2> QED
    BY <1>5, <2>1
<1>7. ASSUME NEW d \in Places(p, q) PROVE Merged(p, q, d, M[d])
  <2>1. d[1] \in 0..Len(p) /\ d[2] \in 0..Len(q) /\ d = <<d[1], d[2]>>
    BY DEF Places
  <2>2. d[1] + d[2] <= Len(p) + Len(q)
    BY <1>5, <2>1
  <2> QED
    BY <1>6, <2>1, <2>2
<1> QED
  BY <1>7 DEF M

(* Two packs in order make one pack in order, with the messages of both.   *)
LEMMA MergeGood ==
  ASSUME NEW p \in Seq(Messages), NEW q \in Seq(Messages), InOrder(p), InOrder(q)
  PROVE  /\ Merge(p, q) \in Seq(Messages)
         /\ Len(Merge(p, q)) = Len(p) + Len(q)
         /\ InOrder(Merge(p, q))
         /\ \A m : Count(Merge(p, q), m) = Count(p, m) + Count(q, m)
<1>1. <<Len(p), Len(q)>> \in Places(p, q)
  BY DEF Places
<1>2. Merged(p, q, <<Len(p), Len(q)>>, Merge(p, q))
  BY <1>1, TableMerged, MergeDefined
<1>3. SubSeq(p, 1, Len(p)) = p /\ SubSeq(q, 1, Len(q)) = q
  BY SubSeqFull
<1> QED
  BY <1>2, <1>3 DEF Merged

-----------------------------------------------------------------------------
(* The number of messages in a bag *)

LEMMA TotalType ==
  ASSUME NEW bag \in [Messages -> Nat]
  PROVE  /\ Total(bag) = SumTable(bag, Messages)[Messages]
         /\ Total(bag) \in Nat
<1>1. Total(bag) = SumTable(bag, Messages)[Messages]
  <2>1. DOMAIN bag = Messages
    OBVIOUS
  <2> QED
    BY <2>1 DEF Total, FoldFunction, FoldFunctionOnSet, MapThenFoldSet,
                SumTable, SumFrom
<1> QED
  BY <1>1, SumDefined, PackAssumption

LEMMA TotalPlus ==
  ASSUME NEW f \in [Messages -> Nat], NEW g \in [Messages -> Nat],
         NEW h \in [Messages -> Nat], \A m \in Messages : h[m] = f[m] + g[m]
  PROVE  Total(h) = Total(f) + Total(g)
<1>1. IsFiniteSet(Messages)
  BY PackAssumption
<1>2. SumTable(h, Messages)[Messages]
        = SumTable(f, Messages)[Messages] + SumTable(g, Messages)[Messages]
  BY <1>1, SumPlus
<1> QED
  BY <1>2, TotalType

(* Every message of a sequence is counted once.                            *)
LEMMA TotalCount ==
  ASSUME NEW p \in Seq(Messages)
  PROVE  /\ [m \in Messages |-> Count(p, m)] \in [Messages -> Nat]
         /\ Total([m \in Messages |-> Count(p, m)]) = Len(p)
<1> DEFINE B(s) == [m \in Messages |-> Count(s, m)]
           T == {n \in Nat : \A s \in Seq(Messages) : Len(s) = n => Total(B(s)) = n}
<1>1. ASSUME NEW s \in Seq(Messages) PROVE B(s) \in [Messages -> Nat]
  BY CountType
<1>2. 0 \in T
  <2>1. ASSUME NEW s \in Seq(Messages), Len(s) = 0 PROVE Total(B(s)) = 0
    <3>1. s = <<>>
      BY <2>1
    <3>2. \A m \in Messages : B(s)[m] = 0
      BY <3>1, CountEmpty
    <3> HIDE DEF B
    <3> QED
      BY <3>2, <1>1, TotalType, SumZero, PackAssumption
  <2> QED
    BY <2>1
<1>3. ASSUME NEW n \in Nat, n \in T PROVE n + 1 \in T
  <2>1. ASSUME NEW s \in Seq(Messages), Len(s) = n + 1 PROVE Total(B(s)) = n + 1
    <3> DEFINE f == SubSeq(s, 1, n)
               x == s[n + 1]
    <3>1. /\ n + 1 \in 1..Len(s) /\ n \in 0..Len(s) /\ x \in Messages
          /\ SubSeq(s, 1, n + 1) = s
      BY <2>1, SubSeqFull
    <3>2. f \in Seq(Messages) /\ Len(f) = n /\ <<x>> \in Seq(Messages)
      BY <3>1, PartSeq
    <3>3. ASSUME NEW m \in Messages PROVE B(s)[m] = B(f)[m] + B(<<x>>)[m]
      <4>1. Count(SubSeq(s, 1, n + 1), m)
              = Count(SubSeq(s, 1, n + 1 - 1), m) + Count(<<s[n + 1]>>, m)
        BY <3>1, CountPart
      <4>2. n + 1 - 1 = n
        OBVIOUS
      <4>3. Count(s, m) = Count(f, m) + Count(<<x>>, m)
        BY <4>1, <4>2, <3>1
      <4> QED
        BY <4>3
    <3>4. \A m \in Messages : B(<<x>>)[m] = IF m = x THEN 1 ELSE 0
      BY CountOne
    <3>5. Total(B(f)) = n
      BY <1>3, <3>2
    <3> HIDE DEF B, f, x
    <3>6. Total(B(<<x>>)) = 1
      BY <1>1, <3>1, <3>2, <3>4, TotalType, SumOne, PackAssumption
    <3>7. Total(B(s)) = Total(B(f)) + Total(B(<<x>>))
      BY <1>1, <3>2, <3>3, TotalPlus
    <3> QED
      BY <3>5, <3>6, <3>7
  <2> QED
    BY <2>1
<1>4. Nat \subseteq T
  <2> HIDE DEF T
  <2> QED BY <1>2, <1>3, SetInduction
<1>5. Len(p) \in Nat
  OBVIOUS
<1> QED
  BY <1>1, <1>4, <1>5

LEMMA TotalCountUp ==
  ASSUME NEW bag \in [Messages -> Nat], NEW p \in Seq(Messages)
  PROVE  /\ CountUp(bag, p) \in [Messages -> Nat]
         /\ Total(CountUp(bag, p)) = Total(bag) + Len(p)
<1> DEFINE c == [m \in Messages |-> Count(p, m)]
           u == CountUp(bag, p)
<1>1. c \in [Messages -> Nat] /\ Total(c) = Len(p)
  BY TotalCount
<1>2. u \in [Messages -> Nat] /\ \A m \in Messages : u[m] = bag[m] + c[m]
  BY <1>1 DEF CountUp
<1> HIDE DEF c, u
<1>3. Total(u) = Total(bag) + Total(c)
  BY <1>1, <1>2, TotalPlus
<1> QED
  BY <1>1, <1>2, <1>3 DEF u

-----------------------------------------------------------------------------
(* find_if *)

(* Where a message goes: behind all that are not later, before all that    *)
(* are.                                                                    *)
LEMMA FindAfterGood ==
  ASSUME NEW p \in Seq(Messages), InOrder(p), NEW m \in Messages
  PROVE  /\ FindAfter(p, m) \in 1 .. Len(p) + 1
         /\ \A k \in 1 .. FindAfter(p, m) - 1 : ~Later(p[k], m)
         /\ \A k \in FindAfter(p, m) .. Len(p) : Later(p[k], m)
<1> DEFINE I == {i \in 1..Len(p) : Later(p[i], m)}
<1>1. SelectInSeq(p, LAMBDA n : Later(n, m)) = IF I # {} THEN Min(I) ELSE 0
  BY DEF SelectInSeq
<1>2. CASE I = {}
  <2>1. FindAfter(p, m) = Len(p) + 1
    BY <1>1, <1>2 DEF FindAfter
  <2>2. \A k \in 1..Len(p) : ~Later(p[k], m)
    BY <1>2
  <2>3. Len(p) \in Nat
    OBVIOUS
  <2> HIDE DEF I
  <2> QED
    BY <2>1, <2>2, <2>3
<1>3. CASE I # {}
  <2> DEFINE a == Min(I)
  <2>1. a \in I /\ \A k \in I : a <= k
    BY <1>3, MinNat, I \in SUBSET Nat
  <2>2. FindAfter(p, m) = a
    BY <1>1, <1>3, <2>1 DEF FindAfter
  <2> HIDE DEF a
  <2>3. a \in 1..Len(p) /\ Later(p[a], m)
    BY <2>1
  <2>4. ASSUME NEW k \in 1 .. a - 1 PROVE ~Later(p[k], m)
    BY <2>1, <2>3
  <2>5. ASSUME NEW k \in a..Len(p) PROVE Later(p[k], m)
    <3>1. a = k \/ ~Later(p[a], p[k])
      BY <2>3 DEF InOrder
    <3>2. p[a] \in Messages /\ p[k] \in Messages
      BY <2>3
    <3> QED
      BY <2>3, <3>1, <3>2, PackAssumption DEF Later
  <2> QED
    BY <2>2, <2>3, <2>4, <2>5
<1> QED
  BY <1>2, <1>3

LEMMA InsertOrder ==
  ASSUME NEW p \in Seq(Messages), InOrder(p), NEW m \in Messages
  PROVE  InOrder(InsertAt(p, FindAfter(p, m), m))
<1> DEFINE i == FindAfter(p, m)
           t == InsertAt(p, i, m)
<1>1. /\ i \in 1 .. Len(p) + 1 /\ Len(p) \in Nat
      /\ \A k \in 1 .. i - 1 : ~Later(p[k], m)
      /\ \A k \in i..Len(p) : Later(p[k], m)
  BY FindAfterGood
<1> HIDE DEF i
<1>2. /\ t \in Seq(Messages) /\ Len(t) = Len(p) + 1
      /\ \A k \in 1 .. i - 1 : t[k] = p[k]
      /\ t[i] = m
      /\ \A k \in i + 1 .. Len(p) + 1 : t[k] = p[k - 1]
  BY <1>1, InsertSeq
<1> HIDE DEF t
<1>3. ASSUME NEW a \in 1 .. Len(p) + 1, NEW b \in 1 .. Len(p) + 1, a < b
      PROVE  ~Later(t[a], t[b])
  <2>1. \A k, l \in 1..Len(p) : k < l => ~Later(p[k], p[l])
    BY DEF InOrder
  <2>2. CASE b < i
    BY <1>1, <1>2, <1>3, <2>1, <2>2
  <2>3. CASE b = i
    BY <1>1, <1>2, <1>3, <2>3
  <2>4. CASE a = i /\ b > i
    <3>1. t[b] = p[b - 1] /\ Later(p[b - 1], m) /\ p[b - 1] \in Messages
      BY <1>1, <1>2, <2>4
    <3> QED
      BY <1>2, <2>4, <3>1, PackAssumption DEF Later
  <2>5. CASE a < i /\ b > i
    <3>1. t[a] = p[a] /\ t[b] = p[b - 1]
      BY <1>1, <1>2, <2>5
    <3>2. a \in 1..Len(p) /\ b - 1 \in 1..Len(p) /\ a < b - 1 
      BY <1>1, <2>5
    <3> QED
      BY <2>1, <3>1, <3>2
  <2>6. CASE a > i
    <3>1. t[a] = p[a - 1] /\ t[b] = p[b - 1]
      BY <1>1, <1>2, <1>3, <2>6
    <3>2. a - 1 \in 1..Len(p) /\ b - 1 \in 1..Len(p) /\ a - 1 < b - 1
      BY <1>1, <1>3, <2>6
    <3> QED
      BY <2>1, <3>1, <3>2
  <2> QED
    BY <1>1, <1>3, <2>2, <2>3, <2>4, <2>5, <2>6
<1>4. DOMAIN t = 1 .. Len(p) + 1
  BY <1>2
<1>5. InOrder(t)
  BY <1>3, <1>4 DEF InOrder
<1> QED
  BY <1>5 DEF t, i

(* Two packs one after the other.                                          *)
LEMMA ConcatOrder ==
  ASSUME NEW p \in Seq(Messages), NEW q \in Seq(Messages), InOrder(p), InOrder(q),
         p # <<>>, q # <<>>, ~Later(Last(p), q[1])
  PROVE  InOrder(p \o q)
<1>1. Len(p) \in Nat \ {0} /\ Len(q) \in Nat \ {0}
  OBVIOUS
<1>2. \A k \in 1..Len(p) : p[k] \in Messages /\ p[k].time <= p[Len(p)].time
  <2> TAKE k \in 1..Len(p)
  <2>1. p[k] \in Messages /\ p[Len(p)] \in Messages
    BY <1>1
  <2>2. k = Len(p) \/ ~Later(p[k], p[Len(p)])
    BY <1>1 DEF InOrder
  <2> QED
    BY <2>1, <2>2, PackAssumption DEF Later
<1>3. \A k \in 1..Len(q) : q[k] \in Messages /\ q[1].time <= q[k].time
  <2> TAKE k \in 1..Len(q)
  <2>1. q[k] \in Messages /\ q[1] \in Messages
    BY <1>1
  <2>2. k = 1 \/ ~Later(q[1], q[k])
    BY <1>1 DEF InOrder
  <2> QED
    BY <2>1, <2>2, PackAssumption DEF Later
<1>4. p[Len(p)].time <= q[1].time
  <2>1. p[Len(p)] \in Messages /\ q[1] \in Messages
    BY <1>1
  <2> QED
    BY <2>1, PackAssumption DEF Later, Last
<1>5. ASSUME NEW a \in 1 .. Len(p) + Len(q), NEW b \in 1 .. Len(p) + Len(q), a < b
      PROVE  ~Later((p \o q)[a], (p \o q)[b])
  <2>1. CASE b <= Len(p)
    <3>1. (p \o q)[a] = p[a] /\ (p \o q)[b] = p[b] /\ a \in 1..Len(p) /\ b \in 1..Len(p)
      BY <1>1, <1>5, <2>1
    <3> QED
      BY <3>1, <1>5 DEF InOrder
  <2>2. CASE a > Len(p)
    <3> DEFINE k == a - Len(p)
               l == b - Len(p)
    <3>1. /\ (p \o q)[a] = q[k] /\ (p \o q)[b] = q[l]
          /\ k \in 1..Len(q) /\ l \in 1..Len(q) /\ k < l
      BY <1>1, <1>5, <2>2
    <3> QED
      BY <3>1 DEF InOrder
  <2>3. CASE a <= Len(p) /\ b > Len(p)
    <3> DEFINE l == b - Len(p)
    <3>1. /\ (p \o q)[a] = p[a] /\ (p \o q)[b] = q[l]
          /\ a \in 1..Len(p) /\ l \in 1..Len(q)
      BY <1>1, <1>5, <2>3
    <3> HIDE DEF l
    <3>2. p[a] \in Messages /\ p[Len(p)] \in Messages /\ q[1] \in Messages /\ q[l] \in Messages
      BY <1>1, <3>1
    <3>3. /\ p[a].time \in Nat /\ p[Len(p)].time \in Nat
          /\ q[1].time \in Nat /\ q[l].time \in Nat
      BY <3>2, PackAssumption
    <3>4. p[a].time <= p[Len(p)].time /\ q[1].time <= q[l].time
      BY <1>2, <1>3, <3>1
    <3>5. p[a].time <= q[l].time
      BY <1>4, <3>3, <3>4, SMTT(40)
    <3> QED
      BY <3>1, <3>3, <3>5 DEF Later
  <2> QED
    BY <1>1, <2>1, <2>2, <2>3
<1>6. DOMAIN (p \o q) = 1 .. Len(p) + Len(q)
  OBVIOUS
<1> QED
  BY <1>5, <1>6 DEF InOrder

LEMMA RemoveOrder ==
  ASSUME NEW p \in Seq(Messages), InOrder(p), NEW i \in 1..Len(p)
  PROVE  InOrder(RemoveAt(p, i))
<1> DEFINE t == RemoveAt(p, i)
<1>1. /\ t \in Seq(Messages) /\ Len(t) = Len(p) - 1
      /\ \A k \in 1 .. i - 1 : t[k] = p[k]
      /\ \A k \in i .. Len(p) - 1 : t[k] = p[k + 1]
  BY EraseSeq
<1> HIDE DEF t
<1>2. \A k, l \in 1..Len(p) : k < l => ~Later(p[k], p[l])
  BY DEF InOrder
<1>3. ASSUME NEW a \in 1 .. Len(p) - 1, NEW b \in 1 .. Len(p) - 1, a < b
      PROVE  ~Later(t[a], t[b])
  <2> DEFINE k == IF a < i THEN a ELSE a + 1
             l == IF b < i THEN b ELSE b + 1
  <2>1. k \in 1..Len(p) /\ l \in 1..Len(p) /\ k < l
    BY <1>3
  <2>2. t[a] = p[k] /\ t[b] = p[l]
    BY <1>1
  <2> HIDE DEF k, l
  <2> QED
    BY <1>2, <2>1, <2>2
<1>4. DOMAIN t = 1 .. Len(p) - 1
  BY <1>1
<1>5. InOrder(t)
  BY <1>3, <1>4 DEF InOrder
<1> QED
  BY <1>5 DEF t

-----------------------------------------------------------------------------
(* The object *)

(* It never holds more than it was given: the bound that Delete computes   *)
(* wraps around only if it holds nothing.                                  *)
WithinBounds == Len(data) <= Total(given) /\ Total(given) <= MaxGiven

PackInv == TypeOK /\ SortedByDate /\ NothingLost /\ BrokenOnlyEmpty /\ WithinBounds

LEMMA PackType ==
  ASSUME NEW p \in Packs
  PROVE  p \in Seq(Messages) /\ InOrder(p) /\ Len(p) \in 0..MaxPack
<1>1. PICK n \in 0..MaxPack : p \in [1..n -> Messages]
  BY DEF Packs, BoundedSeq, SeqOf
<1>2. n \in Nat
  BY <1>1, PackAssumption
<1>3. p \in Seq(Messages) /\ Len(p) = n
  BY <1>1, <1>2
<1> QED
  BY <1>1, <1>3 DEF Packs

(* A change of data_ that adds the messages of the pack to it.             *)
LEMMA InsertKeeps ==
  ASSUME PackInv, NEW new \in Packs, Given(new),
         data' \in Seq(Messages), InOrder(data'),
         Len(data') = Len(data) + Len(new),
         \A m \in Messages : Count(data', m) = Count(data, m) + Count(new, m)
  PROVE  PackInv'
<1> USE DEF PackInv, TypeOK
<1>1. /\ new \in Seq(Messages) /\ Len(new) \in Nat /\ ~broken
      /\ given' = CountUp(given, new) /\ broken' = broken /\ taken' = taken
      /\ Total(given) + Len(new) <= MaxGiven
  BY PackType DEF Given
<1>2. /\ given' \in [Messages -> Nat]
      /\ Total(given') = Total(given) + Len(new) /\ Total(given) \in Nat
  BY <1>1, TotalCountUp, TotalType
<1>3. WithinBounds'
  <2>1. Len(data) \in Nat /\ Len(data) <= Total(given)
    BY DEF WithinBounds
  <2> QED
    BY <1>1, <1>2, <2>1, PackAssumption DEF WithinBounds
<1>4. NothingLost'
  <2> SUFFICES ASSUME NEW m \in Messages
               PROVE  given'[m] = taken'[m] + Count(data', m)
    BY DEF NothingLost
  <2>1. given'[m] = given[m] + Count(new, m)
    BY <1>1 DEF CountUp
  <2>2. given[m] = taken[m] + Count(data, m)
    BY DEF NothingLost
  <2>3. Count(new, m) \in Nat /\ Count(data, m) \in Nat /\ taken[m] \in Nat
    BY <1>1, CountType
  <2> QED
    BY <1>1, <2>1, <2>2, <2>3
<1>5. SortedByDate' /\ BrokenOnlyEmpty' /\ TypeOK'
  BY <1>1, <1>2 DEF SortedByDate, BrokenOnlyEmpty
<1> QED
  BY <1>3, <1>4, <1>5

LEMMA InsertPreserves ==
  ASSUME PackInv, NEW new \in Packs, Insert(new)
  PROVE  PackInv'
<1>1. /\ new \in Seq(Messages) /\ InOrder(new) /\ Len(new) \in Nat
      /\ data \in Seq(Messages) /\ InOrder(data) /\ Len(data) \in Nat
  BY PackType DEF PackInv, TypeOK, SortedByDate
<1>2. CASE InsertFirst(new)
  <2>1. data' = new /\ Len(data) = 0 /\ \A m : Count(data, m) = 0
    BY <1>2, CountEmpty DEF InsertFirst
  <2>2. \A m : Count(new, m) \in Nat
    BY <1>1, CountType
  <2> QED
    BY <1>1, <1>2, <2>1, <2>2, InsertKeeps DEF InsertFirst
<1>3. CASE InsertOne(new)
  <2> DEFINE i == FindAfter(data, new[1])
  <2>1. /\ new[1] \in Messages /\ new = <<new[1]>> /\ Len(new) = 1
        /\ data' = InsertAt(data, i, new[1])
    BY <1>1, <1>3 DEF InsertOne
  <2>2. i \in 1 .. Len(data) + 1
    BY <1>1, <2>1, FindAfterGood
  <2>3. InOrder(data')
    BY <1>1, <2>1, InsertOrder
  <2> HIDE DEF i
  <2>4. data' \in Seq(Messages) /\ Len(data') = Len(data) + 1
    BY <1>1, <2>1, <2>2, InsertSeq
  <2>5. \A m \in Messages : Count(data', m) = Count(data, m) + Count(new, m)
    BY <1>1, <2>1, <2>2, CountInsert
  <2> QED
    BY <1>3, <2>1, <2>3, <2>4, <2>5, InsertKeeps DEF InsertOne
<1>4. CASE InsertAfter(new)
  <2>1. data' = data \o new /\ data # <<>> /\ new # <<>> /\ ~Later(Last(data), new[1])
    BY <1>4 DEF InsertAfter, IsAfter, Given
  <2>2. InOrder(data')
    BY <1>1, <2>1, ConcatOrder
  <2>3. \A m \in Messages : Count(data', m) = Count(data, m) + Count(new, m)
    BY <1>1, <2>1, CountConcat
  <2>4. data' \in Seq(Messages) /\ Len(data') = Len(data) + Len(new)
    BY <1>1, <2>1
  <2> QED
    BY <1>4, <2>2, <2>3, <2>4, InsertKeeps DEF InsertAfter
<1>5. CASE InsertBefore(new)
  <2>1. data' = new \o data /\ data # <<>> /\ new # <<>> /\ ~Later(Last(new), data[1])
    BY <1>5 DEF InsertBefore, IsBefore, Given
  <2>2. InOrder(data')
    BY <1>1, <2>1, ConcatOrder
  <2>3. \A m \in Messages : Count(data', m) = Count(data, m) + Count(new, m)
    <3> TAKE m \in Messages
    <3>1. Count(data', m) = Count(new, m) + Count(data, m)
      BY <1>1, <2>1, CountConcat
    <3>2. Count(new, m) \in Nat /\ Count(data, m) \in Nat
      BY <1>1, CountType
    <3> QED
      BY <3>1, <3>2
  <2>4. data' \in Seq(Messages) /\ Len(data') = Len(data) + Len(new)
    BY <1>1, <2>1
  <2> QED
    BY <1>5, <2>2, <2>3, <2>4, InsertKeeps DEF InsertBefore
<1>6. CASE InsertMerged(new)
  <2>1. data' = Merge(data, new)
    BY <1>6 DEF InsertMerged
  <2>2. /\ data' \in Seq(Messages) /\ Len(data') = Len(data) + Len(new)
        /\ InOrder(data')
        /\ \A m \in Messages : Count(data', m) = Count(data, m) + Count(new, m)
    BY <1>1, <2>1, MergeGood
  <2> QED
    BY <1>6, <2>2, InsertKeeps DEF InsertMerged
<1> QED
  BY <1>2, <1>3, <1>4, <1>5, <1>6 DEF Insert

LEMMA DeletePreserves ==
  ASSUME PackInv, NEW index \in -1 .. MaxGiven, Delete(index)
  PROVE  PackInv'
<1> USE DEF PackInv, TypeOK
<1> DEFINE i == index + 1
           x == data[i]
<1>1. /\ ~broken /\ broken' = broken /\ given' = given
      /\ index >= 0 /\ index < Len(data) /\ index \in Int
      /\ taken' = CountUp(taken, <<x>>) /\ data' = RemoveAt(data, i)
  BY PackAssumption DEF Delete, IsInBounds
<1>2. i \in 1..Len(data) /\ x \in Messages /\ <<x>> \in Seq(Messages) /\ Len(data) \in Nat
  <2>1. i \in 1..Len(data) /\ Len(data) \in Nat
    BY <1>1
  <2>2. x \in Messages
    BY <2>1
  <2> QED
    BY <2>1, <2>2
<1> HIDE DEF x, i
<1>3. data' \in Seq(Messages) /\ Len(data') = Len(data) - 1
  BY <1>1, <1>2, EraseSeq
<1>4. SortedByDate'
  BY <1>1, <1>2, RemoveOrder DEF SortedByDate
<1>5. taken' \in [Messages -> Nat]
  BY <1>1, <1>2, TotalCountUp
<1>6. NothingLost'
  <2> SUFFICES ASSUME NEW m \in Messages
               PROVE  given[m] = taken'[m] + Count(data', m)
    BY <1>1 DEF NothingLost
  <2>1. taken'[m] = taken[m] + Count(<<x>>, m)
    BY <1>1 DEF CountUp
  <2>2. Count(data, m) = Count(data', m) + Count(<<x>>, m)
    BY <1>1, <1>2, CountRemove DEF x
  <2>3. given[m] = taken[m] + Count(data, m)
    BY DEF NothingLost
  <2>4. /\ Count(<<x>>, m) \in Nat /\ Count(data', m) \in Nat /\ taken[m] \in Nat
    BY <1>2, <1>3, CountType
  <2> QED
    BY <2>1, <2>2, <2>3, <2>4
<1>7. WithinBounds'
  <2>1. Total(given) \in Nat /\ Len(data) <= Total(given) /\ Total(given) <= MaxGiven
    BY TotalType DEF WithinBounds
  <2> QED
    BY <1>1, <1>2, <1>3, <2>1 DEF WithinBounds
<1> QED
  BY <1>1, <1>3, <1>4, <1>5, <1>6, <1>7 DEF BrokenOnlyEmpty

LEMMA DeleteBeyondPreserves ==
  ASSUME PackInv, NEW index \in -1 .. MaxGiven, DeleteBeyond(index)
  PROVE  PackInv'
<1> USE DEF PackInv, TypeOK
<1>1. /\ index \in Int /\ index >= Len(data) /\ index <= (Len(data) - 1) % SizeMod
      /\ broken' = TRUE /\ data' = data /\ given' = given /\ taken' = taken
  BY PackAssumption DEF DeleteBeyond, IsInBounds
<1>2. Len(data) \in Nat /\ Len(data) < SizeMod /\ SizeMod \in Nat
  <2>1. Total(given) \in Nat /\ Len(data) <= Total(given) /\ Total(given) <= MaxGiven
    BY TotalType DEF WithinBounds
  <2> QED
    BY <2>1, PackAssumption
<1>3. Len(data) = 0
  <2>1. SUFFICES ASSUME Len(data) > 0 PROVE FALSE
    BY <1>2
  <2>2. Len(data) - 1 \in Int /\ 0 <= Len(data) - 1 /\ Len(data) - 1 < SizeMod
    BY <1>2, <2>1
  <2>3. (Len(data) - 1) % SizeMod = Len(data) - 1
    BY <1>2, <2>2, ModSmall
  <2> QED
    BY <1>1, <1>2, <2>3
<1>4. data = <<>>
  BY <1>3
<1> QED
  BY <1>1, <1>4 DEF SortedByDate, NothingLost, BrokenOnlyEmpty, WithinBounds

LEMMA PackInitial == Init => PackInv
<1> SUFFICES ASSUME Init PROVE PackInv
  OBVIOUS
<1>1. /\ data \in Seq(Messages) /\ InOrder(data) /\ Len(data) \in 0..MaxPack
      /\ broken = FALSE /\ given = [m \in Messages |-> Count(data, m)]
      /\ taken = [m \in Messages |-> 0]
  BY PackType DEF Init
<1>2. given \in [Messages -> Nat] /\ Total(given) = Len(data)
  BY <1>1, TotalCount
<1>3. \A m \in Messages : given[m] = taken[m] + Count(data, m)
  <2> TAKE m \in Messages
  <2>1. Count(data, m) \in Nat
    BY <1>1, CountType
  <2> QED
    BY <1>1, <2>1
<1>4. WithinBounds
  BY <1>1, <1>2, PackAssumption DEF WithinBounds
<1> QED
  BY <1>1, <1>2, <1>3, <1>4 DEF PackInv, TypeOK, SortedByDate, NothingLost, BrokenOnlyEmpty

LEMMA PackPreserved == PackInv /\ [Next]_vars => PackInv'
<1> SUFFICES ASSUME PackInv, [Next]_vars PROVE PackInv'
  OBVIOUS
<1>1. ASSUME NEW new \in Packs, Insert(new) PROVE PackInv'
  BY <1>1, InsertPreserves
<1>2. ASSUME NEW index \in -1 .. MaxGiven, Delete(index) PROVE PackInv'
  BY <1>2, DeletePreserves
<1>3. ASSUME NEW index \in -1 .. MaxGiven, DeleteBeyond(index) PROVE PackInv'
  BY <1>3, DeleteBeyondPreserves
<1>4. CASE UNCHANGED vars
  <2>1. data' = data /\ broken' = broken /\ given' = given /\ taken' = taken
    BY <1>4 DEF vars
  <2> QED
    BY <2>1 DEF PackInv, TypeOK, SortedByDate, NothingLost, BrokenOnlyEmpty, WithinBounds
<1> QED
  BY <1>1, <1>2, <1>3, <1>4 DEF Next

LEMMA PackInvariant == Spec => []PackInv
BY PackInitial, PackPreserved, PTL DEF Spec

(* data_ is a vector of messages, and the histories count them.            *)
THEOREM PackTypeCorrect == Spec => []TypeOK
<1>1. PackInv => TypeOK
  BY DEF PackInv
<1> QED
  BY <1>1, PackInvariant, PTL

(* Whichever of the five ways Insert takes, and after any deletions, the   *)
(* messages stand in the order of their dates: "Guarantees that messages   *)
(* are sorted in ascending order by date".                                 *)
THEOREM PackSorted == Spec => []SortedByDate
<1>1. PackInv => SortedByDate
  BY DEF PackInv
<1> QED
  BY <1>1, PackInvariant, PTL

(* Neither a merge nor a deletion loses or doubles a message: each is there *)
(* or was returned by Delete, as often as it was inserted.                 *)
THEOREM PackComplete == Spec => []NothingLost
<1>1. PackInv => NothingLost
  BY DEF PackInv
<1> QED
  BY <1>1, PackInvariant, PTL

(* Delete is defined for every index unless the pack is empty.             *)
THEOREM PackDeleteSafe == Spec => []BrokenOnlyEmpty
<1>1. PackInv => BrokenOnlyEmpty
  BY DEF PackInv
<1> QED
  BY <1>1, PackInvariant, PTL

-----------------------------------------------------------------------------
(* ScMessage as text *)

Text == Seq(Nat)

(* The line of the property whose name is the symbol n. *)
PropertyLine(n, v) == <<n, Colon, Space>> \o v

IsLineOf(line, n, v) ==
  /\ line \in Text /\ line # <<>>
  /\ IsProperty(line) /\ NameOf(line) = <<n>> /\ ValueOf(line) = v

LEMMA PropertyLineRead ==
  ASSUME NEW n \in Nat, n # Colon, NEW v \in Text
  PROVE  IsLineOf(PropertyLine(n, v), n, v)
<1> DEFINE h == <<n, Colon, Space>>
           line == h \o v
<1>1. h \in Text /\ Len(h) = 3 /\ h[1] = n /\ h[2] = Colon /\ h[3] = Space
  BY DEF Text, Colon, Space
<1> HIDE DEF h
<1>2. /\ line \in Text /\ Len(line) = 3 + Len(v) /\ Len(v) \in Nat
      /\ line[1] = n /\ line[2] = Colon /\ line[3] = Space
      /\ \A i \in 1..Len(v) : line[3 + i] = v[i]
  <2>1. /\ line \in Text /\ Len(line) = Len(h) + Len(v)
        /\ \A i \in 1 .. Len(h) + Len(v) :
             line[i] = IF i <= Len(h) THEN h[i] ELSE v[i - Len(h)]
    BY <1>1, ConcatProperties DEF Text
  <2>2. Len(v) \in Nat
    BY DEF Text
  <2> HIDE DEF line
  <2>3. \A i \in 1..Len(v) : line[3 + i] = v[i]
    <3> TAKE i \in 1..Len(v)
    <3> DEFINE j == 3 + i
    <3>1. j \in 1 .. Len(h) + Len(v) /\ ~(j <= Len(h)) /\ j - Len(h) = i
      BY <1>1, <2>2
    <3> HIDE DEF j
    <3>2. line[j] = v[i]
      BY <2>1, <3>1
    <3> QED
      BY <3>2 DEF j
  <2> QED
    BY <1>1, <2>1, <2>2, <2>3
<1> HIDE DEF line
<1>3. ColonOf(line) = 2
  <2>1. 2 \in 1..Len(line) /\ \A i \in 1 .. 2 - 1 : line[i] # Colon
    BY <1>2
  <2> QED
    BY <1>2, <2>1, FindFirst DEF ColonOf, Text
<1>4. IsProperty(line)
  BY <1>2, <1>3 DEF IsProperty
<1>5. NameOf(line) = <<n>>
  <2>1. 1 \in 1..Len(line) + 1 /\ 1 \in 0..Len(line)
    BY <1>2
  <2>2. /\ SubSeq(line, 1, 1) \in Text /\ Len(SubSeq(line, 1, 1)) = 1
        /\ SubSeq(line, 1, 1)[1] = line[1]
    BY <1>2, <2>1, PartSeq DEF Text
  <2>3. SubSeq(line, 1, 1) = <<n>>
    <3> DEFINE w == SubSeq(line, 1, 1)
    <3>1. w \in Seq(Nat) /\ Len(w) = 1 /\ w[1] = n
      BY <1>2, <2>2 DEF Text
    <3> HIDE DEF w
    <3>2. w = <<n>>
      BY <3>1
    <3> QED
      BY <3>2 DEF w
  <2> QED
    BY <1>3, <2>3 DEF NameOf
<1>6. ValueOf(line) = v
  <2> DEFINE w == SubSeq(line, 4, Len(line))
  <2>1. 4 \in 1 .. Len(line) + 1 /\ Len(line) \in 0..Len(line)
    BY <1>2
  <2>2. /\ w \in Text /\ Len(w) = Len(v)
        /\ \A i \in 1 .. Len(line) - 4 + 1 : w[i] = line[4 + i - 1]
    BY <1>2, <2>1, PartSeq, SMTT(40) DEF Text
  <2> HIDE DEF w
  <2>3. \A i \in 1..Len(v) : w[i] = v[i]
    <3> TAKE i \in 1..Len(v)
    <3>1. i \in 1 .. Len(line) - 4 + 1 /\ 4 + i - 1 = 3 + i
      BY <1>2
    <3> QED
      BY <1>2, <2>2, <3>1
  <2>4. w = v
    BY <2>2, <2>3, SeqEqual DEF Text
  <2> QED
    BY <1>3, <2>4 DEF ValueOf, From, w
<1>7. line # <<>>
  BY <1>2
<1> QED
  BY <1>2, <1>4, <1>5, <1>6, <1>7 DEF PropertyLine, IsLineOf, line, h

(* A line without a space is no property.                                  *)
LEMMA NoProperty ==
  ASSUME NEW line \in Text, \A i \in 1..Len(line) : line[i] # Space
  PROVE  ~IsProperty(line)
<1>1. Len(line) \in Nat
  BY DEF Text
<1> QED
  BY <1>1 DEF IsProperty

(* A block that is no property, once the NUL is taken from the last one.   *)
LEMMA DeserializeBad ==
  ASSUME NEW buffer, NEW lines \in Seq(Text), Split(buffer, US) = lines,
         NEW k \in 2..Len(lines),
         ~IsProperty(IF k = Len(lines) THEN Front(lines[k]) ELSE lines[k])
  PROVE  Deserialize(buffer) = Invalid
<1> DEFINE n == Len(lines)
           l == [lines EXCEPT ![n] = Front(lines[n])]
<1>1. n \in Nat /\ k - 1 \in 1 .. n - 1 /\ n >= 2 /\ lines[n] \in Text
  OBVIOUS
<1>2. Front(lines[n]) \in Text
  <2>1. Len(lines[n]) \in Nat
    BY <1>1 DEF Text
  <2>2. CASE Len(lines[n]) = 0
    <3>1. SubSeq(lines[n], 1, -1) = <<>>
      BY <1>1, SubSeqEmpty
    <3> QED
      BY <2>2, <3>1 DEF Front, Text
  <2>3. CASE Len(lines[n]) # 0
    <3>1. 1 \in 1 .. Len(lines[n]) + 1 /\ Len(lines[n]) - 1 \in 0..Len(lines[n])
      BY <2>1, <2>3
    <3> QED
      BY <1>1, <3>1, PartSeq DEF Front, Text
  <2> QED
    BY <2>2, <2>3
<1>3. /\ l \in Seq(Text) /\ Len(l) = n
      /\ l[k] = IF k = n THEN Front(lines[k]) ELSE lines[k]
  BY <1>1, <1>2
<1> HIDE DEF l
<1>4. /\ DOMAIN Tail(l) = 1 .. n - 1
      /\ Tail(l)[k - 1] = l[k]
  BY <1>1, <1>3
<1>5. \E i \in DOMAIN Tail(l) : ~IsProperty(Tail(l)[i])
  <2>1. k - 1 \in DOMAIN Tail(l)
    BY <1>1, <1>4
  <2> QED
    BY <1>3, <1>4, <2>1
<1> QED
  BY <1>5 DEF Deserialize, l

(* The fold of Deserialize over the places s of the blocks.                *)
PropertiesFrom(blocks, s, read) ==
  IF s = {} THEN <<>>
  ELSE MapWith(read[s \ {Max(s)}], NameOf(blocks[Max(s)]), ValueOf(blocks[Max(s)]))

PropertiesTable(blocks) ==
  CHOOSE read : read = [s \in SUBSET DOMAIN blocks |-> PropertiesFrom(blocks, s, read)]

PropertiesOf(blocks) == PropertiesTable(blocks)[DOMAIN blocks]

IsRead(buffer, split, type, blocks) ==
  LET lines == [split EXCEPT ![Len(split)] = Front(split[Len(split)])]
  IN  /\ split = Split(buffer, US)
      /\ type = TypeFromStr(Head(lines)) /\ type # END
      /\ blocks = Tail(lines) /\ \A i \in DOMAIN blocks : IsProperty(blocks[i])

LEMMA DeserializeGood ==
  ASSUME NEW buffer, NEW type, NEW blocks, NEW split,
         IsRead(buffer, split, type, blocks)
  PROVE  Deserialize(buffer) = [type |-> type, properties |-> PropertiesOf(blocks)]
BY DEF IsRead, Deserialize, PropertiesOf, PropertiesTable, PropertiesFrom,
       FoldLeft, MapThenFoldSet

LEMMA SmallSets ==
  /\ Max({1}) = 1 /\ Max({2}) = 2 /\ Max({1, 2}) = 2
  /\ \A s \in SUBSET {1, 2} : s \in {{}, {1}, {2}, {1, 2}}
  /\ {1} \ {1} = {} /\ {2} \ {2} = {} /\ {1, 2} \ {2} = {1}
<1>1. /\ Max({1}) \in {1}
      /\ Max({2}) \in {2}
      /\ Max({1, 2}) \in {1, 2} /\ 2 <= Max({1, 2})
  <2>1. {1} \in SUBSET (0..2) /\ {2} \in SUBSET (0..2) /\ {1, 2} \in SUBSET (0..2)
    OBVIOUS
  <2> QED
    BY <2>1, MaxNat
<1>2. ASSUME NEW s \in SUBSET {1, 2} PROVE s \in {{}, {1}, {2}, {1, 2}}
  <2>1. CASE 1 \in s /\ 2 \in s
    <3>1. s = {1, 2}
      BY <2>1
    <3> QED
      BY <3>1
  <2>2. CASE 1 \in s /\ 2 \notin s
    <3>1. s = {1}
      BY <2>2
    <3> QED
      BY <3>1
  <2>3. CASE 1 \notin s /\ 2 \in s
    <3>1. s = {2}
      BY <2>3
    <3> QED
      BY <3>1
  <2>4. CASE 1 \notin s /\ 2 \notin s
    <3>1. s = {}
      BY <2>4
    <3> QED
      BY <3>1
  <2> QED
    BY <2>1, <2>2, <2>3, <2>4
<1>3. {1} \ {1} = {} /\ {2} \ {2} = {} /\ {1, 2} \ {2} = {1}
  OBVIOUS
<1> QED
  BY <1>1, <1>2, <1>3

(* One block gives a map of one property, two give one of two.             *)
LEMMA PropertiesOne ==
  ASSUME NEW l
  PROVE  PropertiesOf(<<l>>) = MapWith(<<>>, NameOf(l), ValueOf(l))
<1> DEFINE D == SUBSET {1}
           E(r) == r = [s \in D |-> PropertiesFrom(<<l>>, s, r)]
           m == MapWith(<<>>, NameOf(l), ValueOf(l))
           t == [s \in D |-> IF s = {} THEN <<>> ELSE m]
<1>1. DOMAIN <<l>> = {1} /\ <<l>>[1] = l
  OBVIOUS
<1>2. D = {{}, {1}}
  OBVIOUS
<1> HIDE DEF D
<1>3. t[{}] = <<>> /\ t[{1}] = m /\ DOMAIN t = D
  BY <1>2
<1>4. E(t)
  <2>1. PropertiesFrom(<<l>>, {}, t) = <<>>
    BY DEF PropertiesFrom
  <2>2. PropertiesFrom(<<l>>, {1}, t) = m
    BY <1>1, <1>3, SmallSets DEF PropertiesFrom
  <2> HIDE DEF m
  <2>3. \A s \in D : t[s] = PropertiesFrom(<<l>>, s, t)
    BY <1>2, <1>3, <2>1, <2>2
  <2> QED
    BY <2>3
<1>5. PropertiesTable(<<l>>) = CHOOSE r : E(r)
  BY <1>1 DEF PropertiesTable, D
<1> DEFINE R == PropertiesTable(<<l>>)
<1>6. E(R)
  <2> HIDE DEF E
  <2> QED
    BY <1>4, <1>5
<1> HIDE DEF R
<1>7. R[{}] = <<>> /\ R[{1}] = PropertiesFrom(<<l>>, {1}, R)
  BY <1>2, <1>6 DEF PropertiesFrom
<1>8. R[{1}] = m
  BY <1>1, <1>7, SmallSets, SMTT(40) DEF PropertiesFrom
<1> QED
  BY <1>1, <1>8 DEF PropertiesOf, R

LEMMA PropertiesTwo ==
  ASSUME NEW k, NEW l
  PROVE  PropertiesOf(<<k, l>>)
           = MapWith(MapWith(<<>>, NameOf(k), ValueOf(k)), NameOf(l), ValueOf(l))
<1> DEFINE B == <<k, l>>
           D == SUBSET {1, 2}
           E(r) == r = [s \in D |-> PropertiesFrom(B, s, r)]
           m == MapWith(<<>>, NameOf(k), ValueOf(k))
           n == MapWith(m, NameOf(l), ValueOf(l))
           o == MapWith(<<>>, NameOf(l), ValueOf(l))
           t == [s \in D |-> IF s = {} THEN <<>> ELSE IF s = {1} THEN m
                             ELSE IF s = {2} THEN o ELSE n]
<1>1. DOMAIN B = {1, 2} /\ B[1] = k /\ B[2] = l
  OBVIOUS
<1> HIDE DEF B
<1>2. D = {{}, {1}, {2}, {1, 2}}
  BY SmallSets
<1> HIDE DEF D
<1>3. t[{}] = <<>> /\ t[{1}] = m /\ t[{2}] = o /\ t[{1, 2}] = n /\ DOMAIN t = D
  <2>1. {1} # {} /\ {2} # {} /\ {1, 2} # {} /\ {2} # {1} /\ {1, 2} # {1} /\ {1, 2} # {2}
    OBVIOUS
  <2> HIDE DEF m, n, o
  <2> QED
    BY <1>2, <2>1
<1>4. E(t)
  <2>1. PropertiesFrom(B, {}, t) = <<>>
    BY DEF PropertiesFrom
  <2>2. PropertiesFrom(B, {1}, t) = m
    BY <1>1, <1>3, SmallSets DEF PropertiesFrom
  <2>3. PropertiesFrom(B, {2}, t) = o
    BY <1>1, <1>3, SmallSets DEF PropertiesFrom
  <2>4. PropertiesFrom(B, {1, 2}, t) = n
    BY <1>1, <1>3, SmallSets DEF PropertiesFrom
  <2> HIDE DEF m, n, o, t
  <2>5. \A s \in D : t[s] = PropertiesFrom(B, s, t)
    BY <1>2, <1>3, <2>1, <2>2, <2>3, <2>4
  <2>6. t = [s \in D |-> PropertiesFrom(B, s, t)]
    <3>1. t = [s \in D |-> t[s]]
      BY DEF t
    <3> QED
      BY <2>5, <3>1
  <2> QED
    BY <2>6
<1>5. PropertiesTable(B) = CHOOSE r : E(r)
  BY <1>1 DEF PropertiesTable, D
<1> DEFINE R == PropertiesTable(B)
<1>6. E(R)
  <2> HIDE DEF E
  <2> QED
    BY <1>4, <1>5
<1> HIDE DEF R
<1>7. /\ R[{}] = PropertiesFrom(B, {}, R)
      /\ R[{1}] = PropertiesFrom(B, {1}, R)
      /\ R[{1, 2}] = PropertiesFrom(B, {1, 2}, R)
  BY <1>2, <1>6
<1>8. R[{}] = <<>>
  BY <1>7 DEF PropertiesFrom
<1>9. R[{1}] = m
  BY <1>1, <1>7, <1>8, SmallSets DEF PropertiesFrom
<1>10. R[{1, 2}] = n
  <2>1. {1, 2} # {}
    OBVIOUS
  <2> HIDE DEF m
  <2>2. R[{1, 2}] = MapWith(R[{1, 2} \ {2}], NameOf(B[2]), ValueOf(B[2]))
    BY <1>7, <2>1, SmallSets DEF PropertiesFrom
  <2> QED
    BY <1>1, <1>9, <2>2, SmallSets
<1> QED
  BY <1>1, <1>10 DEF PropertiesOf, R, B

LEMMA KeysOne == Keys({MessageProperty}, PropertyOrder) = <<MessageProperty>>
<1> DEFINE x == MessageProperty
           n == Cardinality({x})
           K == CHOOSE k \in [1..n -> {x}] :
                  \A i, j \in 1..n : i < j => PropertyOrder(k[i], k[j])
<1>1. n = 1
  BY FS_Singleton
<1>2. Keys({x}, PropertyOrder) = K
  BY DEF Keys
<1> HIDE DEF x, n
<1>3. <<x>> \in [1..n -> {x}] /\ \A i, j \in 1..n : ~(i < j)
  BY <1>1
<1>4. K \in [1..n -> {x}]
  BY <1>3
<1> HIDE DEF K
<1>5. K = <<x>>
  BY <1>1, <1>4
<1> QED
  BY <1>2, <1>5 DEF x

LEMMA KeysTwo ==
  Keys({Username, Password}, PropertyOrder) = <<Password, Username>>
<1> DEFINE S == {Username, Password}
           n == Cardinality(S)
           G(k) == /\ k \in [1..n -> S]
                   /\ \A i, j \in 1..n : i < j => PropertyOrder(k[i], k[j])
           K == CHOOSE k : G(k)
<1>1. Username # Password
  BY DEF Username, Password
<1>2. n = 2
  <2>1. IsFiniteSet({Password}) /\ Cardinality({Password}) = 1
    BY FS_Singleton
  <2>2. S = {Password} \cup {Username} /\ Username \notin {Password}
    BY <1>1
  <2>3. Cardinality({Password} \cup {Username}) = Cardinality({Password}) + 1
    BY <2>1, <2>2, FS_AddElement
  <2> QED
    BY <2>1, <2>2, <2>3
<1>3. Keys(S, PropertyOrder) = K
  BY DEF Keys
<1>4. /\ PropertyOrder(Password, Username)
      /\ ~PropertyOrder(Username, Password)
      /\ ~PropertyOrder(Username, Username) /\ ~PropertyOrder(Password, Password)
  BY DEF PropertyOrder, Username, Password
<1> HIDE DEF n
<1> DEFINE pu == <<Password, Username>>
<1>5. G(pu)
  <2>1. pu \in [1..n -> S] /\ pu[1] = Password /\ pu[2] = Username
    BY <1>2
  <2>2. \A i, j \in 1..n : i < j => i = 1 /\ j = 2
    BY <1>2
  <2> HIDE DEF pu
  <2> QED
    BY <1>4, <2>1, <2>2
<1> HIDE DEF G
<1>6. G(K)
  BY <1>5
<1> HIDE DEF K
<1>7. K \in [1..2 -> S] /\ PropertyOrder(K[1], K[2])
  BY <1>2, <1>6 DEF G
<1>8. K[1] = Password /\ K[2] = Username
  BY <1>4, <1>7
<1>9. K = pu
  BY <1>7, <1>8
<1> QED
  BY <1>3, <1>9

LEMMA FlattenOne == ASSUME NEW x PROVE FlattenSeq(<<x>>) = x
<1> DEFINE E(f) == f = [i \in 1..1 |-> IF i = 1 THEN <<x>>[i] ELSE f[i - 1] \o <<x>>[i]]
           F == CHOOSE f : E(f)
           w == [i \in 1..1 |-> x]
<1>1. E(w)
  <2>1. <<x>>[1] = x
    OBVIOUS
  <2>2. \A i \in 1..1 : i = 1
    OBVIOUS
  <2> QED
    BY <2>1, <2>2
<1>2. FlattenSeq(<<x>>) = F[1]
  BY DEF FlattenSeq
<1>3. E(F)
  <2> HIDE DEF E
  <2> QED
    BY <1>1
<1> HIDE DEF F
<1>4. F[1] = x
  BY <1>3
<1> QED
  BY <1>2, <1>4

LEMMA FlattenTwo == ASSUME NEW x, NEW y PROVE FlattenSeq(<<x, y>>) = x \o y
<1> DEFINE s == <<x, y>>
           C(f, i) == IF i = 1 THEN s[i] ELSE f[i - 1] \o s[i]
           E(f) == f = [i \in 1..2 |-> C(f, i)]
           F == CHOOSE f : E(f)
           xy == x \o y
           w == [i \in 1..2 |-> IF i = 1 THEN x ELSE xy]
<1>1. s[1] = x /\ s[2] = y /\ Len(s) = 2 /\ 2 - 1 = 1
  OBVIOUS
<1>2. FlattenSeq(s) = F[2]
  <2> HIDE DEF s
  <2> QED
    BY <1>1 DEF FlattenSeq
<1> HIDE DEF s
<1>3. \A f : C(f, 1) = x /\ C(f, 2) = f[1] \o y
  <2> TAKE f
  <2>1. C(f, 2) = f[2 - 1] \o s[2]
    OBVIOUS
  <2>2. f[2 - 1] \o s[2] = f[1] \o y
    BY <1>1, Zenon
  <2>3. C(f, 1) = x
    BY <1>1
  <2> QED
    BY <2>1, <2>2, <2>3, Zenon
<1> HIDE DEF C
<1>4. E(w)
  <2>1. w[1] = x /\ w[2] = xy
    BY DEF xy
  <2> HIDE DEF xy
  <2>2. C(w, 1) = x /\ C(w, 2) = xy
    BY <1>3, <2>1, Zenon DEF xy
  <2>3. \A i \in 1..2 : i = 1 \/ i = 2
    OBVIOUS
  <2>4. \A i \in 1..2 : w[i] = C(w, i)
    BY <2>1, <2>2, <2>3
  <2>5. w = [i \in 1..2 |-> w[i]]
    OBVIOUS
  <2> HIDE DEF w
  <2> QED
    BY <2>4, <2>5
<1>5. E(F)
  <2> HIDE DEF E
  <2> QED
    BY <1>4
<1> HIDE DEF F
<1>6. F[1] = C(F, 1) /\ F[2] = C(F, 2)
  BY <1>5
<1>7. F[2] = x \o y
  BY <1>3, <1>6, Zenon
<1> QED
  BY <1>2, <1>7, Zenon DEF s

LEMMA MapOne ==
  ASSUME NEW k, NEW v
  PROVE  /\ DOMAIN MapWith(<<>>, k, v) = {k} /\ MapWith(<<>>, k, v)[k] = v
         /\ MapWith(<<>>, k, v) = [x \in {k} |-> v]
BY DEF MapWith

IsMapOfTwo(m, k, u, l, v) ==
  /\ DOMAIN m = {k, l} /\ m[k] = u /\ m[l] = v
  /\ m = MapWith(MapWith(<<>>, l, v), k, u)

LEMMA MapTwo ==
  ASSUME NEW k, NEW u, NEW l, NEW v, k # l,
         NEW m, m = MapWith(MapWith(<<>>, k, u), l, v)
  PROVE  IsMapOfTwo(m, k, u, l, v)
<1> DEFINE n == MapWith(MapWith(<<>>, l, v), k, u)
<1>1. /\ m = [x \in {k} \cup {l} |-> IF x = l THEN v ELSE MapWith(<<>>, k, u)[x]]
      /\ n = [x \in {l} \cup {k} |-> IF x = k THEN u ELSE MapWith(<<>>, l, v)[x]]
  BY MapOne DEF MapWith
<1>2. MapWith(<<>>, k, u)[k] = u /\ MapWith(<<>>, l, v)[l] = v
  BY MapOne
<1> HIDE DEF n
<1>3. /\ DOMAIN m = {k, l} /\ m[k] = u /\ m[l] = v
      /\ DOMAIN n = {k, l} /\ n[k] = u /\ n[l] = v
  BY <1>1, <1>2
<1>4. m = n
  BY <1>1, <1>3
<1> QED
  BY <1>3, <1>4 DEF n, IsMapOfTwo

(* What Serialize writes for one property.                                 *)
Block(n, v) == n \o <<Colon, Space>> \o v \o <<US>>

LEMMA BlockLine ==
  ASSUME NEW n \in Nat, NEW v \in Text
  PROVE  /\ Block(<<n>>, v) = Append(PropertyLine(n, v), US)
         /\ PropertyLine(n, v) \in Text
<1> DEFINE h == <<n, Colon, Space>>
<1>1. h \in Text
  BY DEF Text, Colon, Space
<1>2. <<n>> \o <<Colon, Space>> = h
  <2> DEFINE c == <<Colon, Space>>
  <2>1. /\ <<n>> \in Text /\ Len(<<n>>) = 1 /\ <<n>>[1] = n
        /\ c \in Text /\ Len(c) = 2 /\ c[1] = Colon /\ c[2] = Space
    BY DEF Text, Colon, Space
  <2> DEFINE a == <<n>>
             ac == a \o c
  <2> HIDE DEF c
  <2>2. a \in Text /\ Len(a) = 1 /\ a[1] = n
    BY <2>1
  <2> HIDE DEF a
  <2>3. /\ ac \in Text /\ Len(ac) = Len(a) + Len(c)
        /\ \A i \in 1 .. Len(a) + Len(c) :
             ac[i] = IF i <= Len(a) THEN a[i] ELSE c[i - Len(a)]
    BY <2>1, <2>2, ConcatProperties, ZenonT(60) DEF Text
  <2> HIDE DEF ac
  <2>4. /\ ac \in Text /\ Len(ac) = 3 /\ ac[1] = n
        /\ ac[2] = Colon /\ ac[3] = Space
    BY <2>1, <2>2, <2>3
  <2>5. ac = <<n, Colon, Space>>
    BY <2>4 DEF Text
  <2> QED
    BY <2>5, Zenon DEF ac, a, c
<1>3. h \o v \in Text /\ US \in Nat
  BY <1>1, ConcatProperties DEF Text, US
<1>4. (h \o v) \o <<US>> = Append(h \o v, US)
  <2> DEFINE hv == h \o v
  <2>1. hv \in Text
    BY <1>3
  <2> HIDE DEF hv
  <2>2. Append(hv, US) = hv \o <<US>>
    BY <1>3, <2>1, AppendIsConcat DEF Text
  <2> QED
    BY <2>2, Zenon DEF hv
<1> HIDE DEF h
<1> QED
  BY <1>2, <1>3, <1>4, Zenon DEF Block, PropertyLine, h

SerializedBlocks(msg) ==
  LET names == Keys(DOMAIN msg.properties, PropertyOrder)
  IN  FlattenSeq([i \in DOMAIN names |-> Block(names[i], msg.properties[names[i]])])

LEMMA SentBlocks ==
  ASSUME NEW msg, NEW t \in Nat, TypeSymbol(msg.type) = t,
         NEW x \in Text, SerializedBlocks(msg) = Append(x, US)
  PROVE  Sent(msg) = Append(<<t>>, US) \o Append(x, NUL)
<1> DEFINE A == Append(<<t>>, US)
           Ax == A \o x
           xU == Append(x, US)
           xN == Append(x, NUL)
<1>1. A \in Text /\ US \in Nat /\ NUL \in Nat
  <2>1. <<t>> \in Seq(Nat) /\ US \in Nat /\ NUL \in Nat
    BY DEF US, NUL
  <2> QED
    BY <2>1, PushSeq DEF Text
<1>2. TypeToStr(msg.type) \o <<US>> = A
  BY DEF TypeToStr
<1>3. Serialize(msg) = Front(A \o SerializedBlocks(msg))
  BY <1>2, Zenon DEF Serialize, SerializedBlocks, Block
<1> HIDE DEF A
<1>4. AppendMoves(A, x, US) /\ AppendMoves(A, x, NUL)
  BY <1>1, ConcatAppend DEF Text
<1>5. A \o xU = Append(Ax, US) /\ A \o xN = Append(Ax, NUL)
  BY <1>4, Zenon DEF AppendMoves
<1>6. Ax \in Text
  BY <1>1, ConcatProperties DEF Text
<1> HIDE DEF Ax
<1>7. Front(Append(Ax, US)) = Ax
  BY <1>1, <1>6, FrontSeq DEF Text
<1>8. Serialize(msg) = Ax
  BY <1>3, <1>5, <1>7, Zenon
<1>9. Sent(msg) = Append(Ax, NUL)
  BY <1>8, Zenon DEF Sent
<1> QED
  BY <1>5, <1>9, Zenon DEF A

AuthText(type, u, p) ==
  Append(<<TypeSymbol(type)>>, US)
    \o (Append(PropertyLine(302, p), US) \o Append(PropertyLine(303, u), NUL))

LEMMA SentAuth ==
  ASSUME NEW type \in {LOGIN, REGISTER}, NEW u \in Text, NEW p \in Text
  PROVE  Sent(GetAuthScMessage(type, u, p)) = AuthText(type, u, p)
<1> DEFINE msg == GetAuthScMessage(type, u, p)
           m == msg.properties
           lp == PropertyLine(302, p)
           lu == PropertyLine(303, u)
           lpU == Append(lp, US)
           x == lpU \o lu
           luU == Append(lu, US)
           luN == Append(lu, NUL)
           names == Keys(DOMAIN m, PropertyOrder)
<1>1. Username # Password
  BY DEF Username, Password
<1>2. /\ msg.type = type /\ m = MapWith(MapWith(<<>>, Username, u), Password, p)
  BY DEF GetAuthScMessage
<1>3. DOMAIN m = {Username, Password} /\ m[Username] = u /\ m[Password] = p
  <2>1. m = MapWith(MapWith(<<>>, Username, u), Password, p)
    BY <1>2
  <2> HIDE DEF m
  <2>2. IsMapOfTwo(m, Username, u, Password, p)
    BY <1>1, <2>1, MapTwo, Zenon
  <2> QED
    BY <2>2, Zenon DEF IsMapOfTwo
<1>4. TypeSymbol(type) \in Nat /\ US \in Nat /\ NUL \in Nat
  BY DEF TypeSymbol, LOGIN, REGISTER, US, NUL
<1> HIDE DEF msg, m
<1>5. names = <<Password, Username>>
  BY <1>3, KeysTwo
<1>6. /\ Block(Password, p) = lpU /\ lp \in Text
      /\ Block(Username, u) = luU /\ lu \in Text
  <2>1. 302 \in Nat /\ 303 \in Nat
    OBVIOUS
  <2>2. /\ Block(<<302>>, p) = lpU /\ lp \in Text
        /\ Block(<<303>>, u) = luU /\ lu \in Text
    BY <2>1, BlockLine, ZenonT(60)
  <2> QED
    BY <2>2, Zenon DEF Username, Password
<1>7. [i \in DOMAIN names |-> Block(names[i], m[names[i]])]
        = <<Block(Password, p), Block(Username, u)>>
  <2> DEFINE b == [i \in DOMAIN names |-> Block(names[i], m[names[i]])]
  <2>1. DOMAIN names = 1..2 /\ names[1] = Password /\ names[2] = Username
    BY <1>5
  <2> HIDE DEF names
  <2>2. /\ b[1] = Block(Password, p) /\ b[2] = Block(Username, u)
        /\ b = [i \in 1..2 |-> b[i]]
    BY <1>3, <2>1
  <2> HIDE DEF b
  <2>3. b = <<b[1], b[2]>>
    BY <2>2
  <2> QED
    BY <2>2, <2>3, Zenon DEF b
<1> HIDE DEF lp, lu, lpU
<1>8. SerializedBlocks(msg) = lpU \o luU
  <2>1. SerializedBlocks(msg) = FlattenSeq(<<Block(Password, p), Block(Username, u)>>)
    BY <1>7, Zenon DEF SerializedBlocks, m
  <2>2. FlattenSeq(<<Block(Password, p), Block(Username, u)>>)
          = Block(Password, p) \o Block(Username, u)
    BY FlattenTwo, Zenon
  <2> QED
    BY <1>6, <2>1, <2>2, Zenon
<1>9. lpU \in Text
  BY <1>4, <1>6, PushSeq DEF Text, lpU
<1>10. AppendMoves(lpU, lu, US) /\ AppendMoves(lpU, lu, NUL)
  BY <1>4, <1>6, <1>9, ConcatAppend DEF Text
<1>11. lpU \o luU = Append(x, US) /\ lpU \o luN = Append(x, NUL)
  BY <1>10, Zenon DEF AppendMoves
<1>12. x \in Text
  BY <1>6, <1>9, ConcatProperties DEF Text
<1> HIDE DEF x
<1>13. Sent(msg) = Append(<<TypeSymbol(type)>>, US) \o Append(x, NUL)
  <2>1. SerializedBlocks(msg) = Append(x, US)
    BY <1>8, <1>11, Zenon
  <2>2. TypeSymbol(msg.type) = TypeSymbol(type)
    BY <1>2, Zenon
  <2> QED
    BY <1>4, <1>12, <2>1, <2>2, SentBlocks, Zenon
<1> QED
  BY <1>11, <1>13, Zenon DEF AuthText, msg, lpU, lp, lu

MessageText(text) ==
  Append(<<TypeSymbol(MESSAGE)>>, US) \o Append(PropertyLine(301, text), NUL)

LEMMA SentMessage ==
  ASSUME NEW m, MessageToStr(m) \in Text
  PROVE  Sent(GetMessageScMessage(m)) = MessageText(MessageToStr(m))
<1> DEFINE msg == GetMessageScMessage(m)
           v == MessageToStr(m)
           l == PropertyLine(301, v)
           ps == msg.properties
           names == Keys(DOMAIN ps, PropertyOrder)
<1>1. msg.type = MESSAGE /\ ps = MapWith(<<>>, MessageProperty, v)
  BY DEF GetMessageScMessage
<1> HIDE DEF msg, ps, v
<1>2. DOMAIN ps = {MessageProperty} /\ ps[MessageProperty] = v
  BY <1>1, MapOne
<1>3. TypeSymbol(MESSAGE) \in Nat
  BY DEF TypeSymbol, MESSAGE
<1>4. names = <<MessageProperty>>
  BY <1>2, KeysOne
<1>5. Block(MessageProperty, v) = Append(l, US) /\ l \in Text
  <2>1. 301 \in Nat /\ v \in Text
    BY DEF v
  <2>2. Block(<<301>>, v) = Append(l, US) /\ l \in Text
    BY <2>1, BlockLine, Zenon
  <2> QED
    BY <2>2, Zenon DEF MessageProperty
<1>6. [i \in DOMAIN names |-> Block(names[i], ps[names[i]])] = <<Block(MessageProperty, v)>>
  <2> DEFINE b == [i \in DOMAIN names |-> Block(names[i], ps[names[i]])]
  <2>1. DOMAIN names = 1..1 /\ names[1] = MessageProperty
    BY <1>4
  <2> HIDE DEF names
  <2>2. b[1] = Block(MessageProperty, v) /\ b = [i \in 1..1 |-> b[i]]
    BY <1>2, <2>1
  <2> HIDE DEF b
  <2>3. b = <<b[1]>>
    BY <2>2
  <2> QED
    BY <2>2, <2>3, Zenon DEF b
<1> HIDE DEF l
<1>7. SerializedBlocks(msg) = Append(l, US)
  <2>1. SerializedBlocks(msg) = FlattenSeq(<<Block(MessageProperty, v)>>)
    BY <1>6, Zenon DEF SerializedBlocks, ps
  <2>2. FlattenSeq(<<Block(MessageProperty, v)>>) = Block(MessageProperty, v)
    BY FlattenOne, Zenon
  <2> QED
    BY <1>5, <2>1, <2>2, Zenon
<1>8. TypeSymbol(msg.type) = TypeSymbol(MESSAGE)
  BY <1>1, Zenon
<1>9. Sent(msg) = Append(<<TypeSymbol(MESSAGE)>>, US) \o Append(l, NUL)
  BY <1>3, <1>5, <1>7, <1>8, SentBlocks, Zenon
<1> QED
  BY <1>9, Zenon DEF MessageText, msg, l, v

(* Where the lines end *)

Has(text, c) == \E i \in 1..Len(text) : text[i] = c

(* Concat is associative. *)
ConcatMoves(a, b, c) == (a \o b) \o c = a \o (b \o c)

LEMMA ConcatTwice ==
  ASSUME NEW S, NEW a \in Seq(S), NEW b \in Seq(S), NEW c \in Seq(S)
  PROVE  ConcatMoves(a, b, c)
<1>1. (a \o b) \o c = a \o (b \o c)
  OBVIOUS
<1> QED
  BY <1>1, Zenon DEF ConcatMoves

LEMMA LineHas ==
  ASSUME NEW n \in Nat, NEW v \in Text, n # US
  PROVE  /\ PropertyLine(n, v) \in Text
         /\ Has(PropertyLine(n, v), US) => Has(v, US)
<1> DEFINE h == <<n, Colon, Space>>
           hv == h \o v
<1>1. h \in Text /\ Len(h) = 3 /\ \A i \in 1..3 : h[i] # US
  BY DEF Text, Colon, Space, US
<1> HIDE DEF h
<1>2. /\ hv \in Text /\ Len(hv) = Len(h) + Len(v)
      /\ \A i \in 1 .. Len(h) + Len(v) :
           hv[i] = IF i <= Len(h) THEN h[i] ELSE v[i - Len(h)]
  BY <1>1, ConcatProperties DEF Text
<1> HIDE DEF hv
<1>3. ASSUME NEW i \in 1..Len(hv), hv[i] = US PROVE Has(v, US)
  <2>1. Len(v) \in Nat
    BY DEF Text
  <2>2. ~(i <= 3)
    BY <1>1, <1>2, <1>3, <2>1
  <2> DEFINE j == i - 3
  <2>3. j \in 1..Len(v) /\ v[j] = US
    BY <1>1, <1>2, <1>3, <2>1, <2>2
  <2> HIDE DEF j
  <2> QED
    BY <2>3 DEF Has
<1> QED
  BY <1>2, <1>3 DEF Has, PropertyLine, h, hv

(* A text without the separator is one line, with the NUL at its end, too. *)
LEMMA SplitClean ==
  ASSUME NEW l \in Text, ~Has(l, US)
  PROVE  /\ Split(Append(l, US), US) = <<l>>
         /\ Split(Append(l, NUL), US) = <<Append(l, NUL)>>
<1>1. US \in Nat /\ NUL \in Nat /\ US # NUL
  BY DEF US, NUL
<1>2. \A i \in 1..Len(l) : l[i] # US
  BY DEF Has
<1> DEFINE lN == Append(l, NUL)
<1>3. /\ lN \in Text /\ Len(lN) = Len(l) + 1 /\ lN # <<>> /\ Len(l) \in Nat
      /\ \A i \in 1..Len(l) : lN[i] = l[i]
      /\ lN[Len(l) + 1] = NUL
  BY <1>1, PushSeq DEF Text
<1> HIDE DEF lN
<1>4. \A i \in 1..Len(lN) : lN[i] # US
  BY <1>1, <1>2, <1>3
<1>5. Split(lN, US) = <<lN>>
  <2>1. Split(lN, US) = IF lN = <<>> THEN <<>> ELSE <<lN>>
    BY <1>1, <1>3, <1>4, SplitPlain DEF Text
  <2> QED
    BY <1>3, <2>1
<1>6. Split(Append(l, US), US) = <<l>>
  BY <1>1, <1>2, SplitPlain DEF Text
<1> QED
  BY <1>5, <1>6, Zenon DEF lN

(* A value with the separator and without spaces ends in a line, here c,   *)
(* that is no property.                                                    *)
EndsInLine(x, y, lines, line) ==
  Split(Append(x, y), US) = Append(lines, line)

LEMMA SplitDirty ==
  ASSUME NEW n \in Nat, NEW v \in Text, Has(v, US), ~Has(v, Space)
  PROVE  \E lines \in Seq(Text), c \in Text :
           /\ ~Has(c, Space)
           /\ EndsInLine(PropertyLine(n, v), US, lines, c)
           /\ EndsInLine(PropertyLine(n, v), NUL, lines, Append(c, NUL))
<1>1. US \in Nat /\ NUL \in Nat
  BY DEF US, NUL
<1>2. PICK k \in 1..Len(v) : v[k] = US
  BY DEF Has
<1>3. PICK a, c \in Text : IsLastCut(v, US, a, c)
  BY <1>1, <1>2, LastPlace DEF Text
<1>4. ~Has(c, US) /\ ~Has(c, Space)
  BY <1>3 DEF Has, IsLastCut
<1> DEFINE l == PropertyLine(n, a)
           A == Append(a, US)
           L == Append(l, US)
           h == <<n, Colon, Space>>
           lines == Split(L, US)
<1>5. h \in Text
  BY DEF Text, Colon, Space
<1>6. l \in Text
  <2>1. h \o a \in Text
    BY <1>5, ConcatProperties DEF Text
  <2> QED
    BY <2>1 DEF PropertyLine
<1>7. A \in Text /\ L \in Text
  BY <1>1, <1>6, PushSeq DEF Text
<1>8. lines \in Seq(Text)
  BY <1>7, SplitType DEF Text
<1>9. PropertyLine(n, v) = L \o c
  <2> HIDE DEF h
  <2>1. ConcatMoves(h, A, c) /\ AppendMoves(h, a, US)
    BY <1>1, <1>5, <1>7, ConcatTwice, ConcatAppend DEF Text
  <2>2. (h \o A) \o c = h \o (A \o c) /\ Append(h \o a, US) = h \o A
    BY <2>1, Zenon DEF ConcatMoves, AppendMoves
  <2>3. PropertyLine(n, v) = h \o (A \o c)
    BY <1>3, Zenon DEF PropertyLine, h, IsLastCut
  <2>4. L = h \o A
    BY <2>2, Zenon DEF PropertyLine, h
  <2> QED
    BY <2>2, <2>3, <2>4, Zenon
<1> HIDE DEF l, lines
<1>10. ASSUME NEW y \in Nat, NEW z \in Text, Split(Append(c, y), US) = <<z>>
       PROVE  EndsInLine(PropertyLine(n, v), y, lines, z)
  <2> DEFINE cy == Append(c, y)
  <2>1. cy \in Text
    BY PushSeq DEF Text
  <2>2. Append(L \o c, y) = L \o cy
    <3>1. AppendMoves(L, c, y)
      BY <1>7, ConcatAppend DEF Text
    <3> QED
      BY <3>1, Zenon DEF AppendMoves
  <2> HIDE DEF cy
  <2>3. Split(L \o cy, US) = lines \o Split(cy, US)
    BY <1>1, <1>6, <2>1, SplitConcat, ZenonT(60) DEF Text, lines
  <2>4. Append(lines, z) = lines \o <<z>>
    BY <1>8, AppendIsConcat
  <2> QED
    BY <1>9, <1>10, <2>2, <2>3, <2>4, Zenon DEF EndsInLine, cy
<1>11. Append(c, NUL) \in Text
  BY <1>1, PushSeq DEF Text
<1>12. /\ EndsInLine(PropertyLine(n, v), US, lines, c)
       /\ EndsInLine(PropertyLine(n, v), NUL, lines, Append(c, NUL))
  <2>1. Split(Append(c, US), US) = <<c>> /\ Split(Append(c, NUL), US) = <<Append(c, NUL)>>
    BY <1>4, SplitClean, Zenon
  <2> QED
    BY <1>1, <1>10, <1>11, <2>1, Zenon
<1> QED
  BY <1>4, <1>8, <1>12

(* What Received makes of it *)

LEMMA AuthSplit ==
  ASSUME NEW type \in {LOGIN, REGISTER}, NEW u \in Text, NEW p \in Text
  PROVE  Split(Sent(GetAuthScMessage(type, u, p)), US)
           = <<<<TypeSymbol(type)>>>>
               \o (Split(Append(PropertyLine(302, p), US), US)
                     \o Split(Append(PropertyLine(303, u), NUL), US))
<1> DEFINE t == TypeSymbol(type)
           s == <<t>>
           T == Append(s, US)
           lp == PropertyLine(302, p)
           lu == PropertyLine(303, u)
           P == Append(lp, US)
           U == Append(lu, NUL)
           PU == P \o U
<1>1. /\ US \in Nat /\ NUL \in Nat /\ s \in Text /\ ~Has(s, US)
  BY DEF US, NUL, LOGIN, REGISTER, TypeSymbol, Text, Has
<1>2. Sent(GetAuthScMessage(type, u, p)) = T \o PU
  <2>1. Sent(GetAuthScMessage(type, u, p)) = AuthText(type, u, p)
    BY SentAuth
  <2> QED
    BY <2>1, Zenon DEF AuthText
<1> HIDE DEF s
<1>3. lp \in Text /\ lu \in Text
  <2>1. 302 \in Nat /\ 303 \in Nat /\ 302 # US /\ 303 # US
    BY DEF US
  <2> QED
    BY <2>1, LineHas, ZenonT(60)
<1> HIDE DEF lp, lu
<1>4. P \in Text /\ U \in Text
  BY <1>1, <1>3, PushSeq DEF Text
<1>5. Split(PU, US) = Split(P, US) \o Split(U, US)
  <2> HIDE DEF U
  <2> QED
    BY <1>1, <1>3, <1>4, SplitConcat, ZenonT(60) DEF Text
<1>6. PU \in Text
  <2> HIDE DEF P, U
  <2> QED
    BY <1>4, ConcatProperties DEF Text
<1> HIDE DEF PU
<1>7. Split(T \o PU, US) = Split(T, US) \o Split(PU, US)
  BY <1>1, <1>6, SplitConcat, Zenon DEF Text
<1>8. Split(T, US) = <<s>>
  BY <1>1, SplitClean, Zenon
<1> QED
  BY <1>2, <1>5, <1>7, <1>8, Zenon DEF s, P, U, lp, lu

LEMMA TypeRead ==
  ASSUME NEW type \in {LOGIN, REGISTER, MESSAGE}
  PROVE  TypeFromStr(<<TypeSymbol(type)>>) = type /\ type # END
<1>1. type \in 0 .. END - 1
  BY DEF LOGIN, REGISTER, MESSAGE, END
<1>2. \A k \in 0 .. END - 1 : <<TypeSymbol(type)>> = TypeToStr(k) => k = type
  BY <1>1 DEF TypeToStr, TypeSymbol, END
<1>3. <<TypeSymbol(type)>> = TypeToStr(type)
  BY DEF TypeToStr
<1>4. type # END
  BY <1>1 DEF END
<1> DEFINE G(k) == k \in 0 .. END - 1 /\ <<TypeSymbol(type)>> = TypeToStr(k)
<1>5. TypeFromStr(<<TypeSymbol(type)>>) = CHOOSE k : G(k)
  BY <1>1, <1>3 DEF TypeFromStr
<1>6. G(type)
  BY <1>1, <1>3
<1>7. \A k : G(k) => k = type
  BY <1>2
<1> HIDE DEF G
<1>8. G(CHOOSE k : G(k))
  BY <1>6
<1> QED
  BY <1>4, <1>5, <1>7, <1>8

LEMMA TwoParts ==
  ASSUME NEW a, NEW b
  PROVE  <<a>> \o <<b>> = <<a, b>>
<1> DEFINE S == {a, b}
           x == <<a>>
           y == <<b>>
           xy == x \o y
<1>1. /\ x \in Seq(S) /\ Len(x) = 1 /\ x[1] = a
      /\ y \in Seq(S) /\ Len(y) = 1 /\ y[1] = b
  OBVIOUS
<1> HIDE DEF x, y, S
<1>2. /\ xy \in Seq(S) /\ Len(xy) = Len(x) + Len(y)
      /\ \A i \in 1 .. Len(x) + Len(y) :
           xy[i] = IF i <= Len(x) THEN x[i] ELSE y[i - Len(x)]
  BY <1>1, ConcatProperties
<1> HIDE DEF xy
<1>3. xy \in Seq(S) /\ Len(xy) = 2 /\ xy[1] = a /\ xy[2] = b
  BY <1>1, <1>2
<1>4. xy = <<a, b>>
  <2>1. <<a, b>> \in Seq(S)
    BY DEF S
  <2> QED
    BY <1>3, <2>1
<1> QED
  BY <1>4, Zenon DEF xy, x, y

LEMMA ThreeParts ==
  ASSUME NEW a, NEW b, NEW c
  PROVE  <<a>> \o (<<b>> \o <<c>>) = <<a, b, c>>
<1> DEFINE S == {a, b, c}
           x == <<a>>
           y == <<b>>
           z == <<c>>
           yz == y \o z
           xyz == x \o yz
<1>1. /\ x \in Seq(S) /\ Len(x) = 1 /\ x[1] = a
      /\ y \in Seq(S) /\ Len(y) = 1 /\ y[1] = b
      /\ z \in Seq(S) /\ Len(z) = 1 /\ z[1] = c
  OBVIOUS
<1> HIDE DEF x, y, z, S
<1>2. /\ yz \in Seq(S) /\ Len(yz) = Len(y) + Len(z)
      /\ \A i \in 1 .. Len(y) + Len(z) :
           yz[i] = IF i <= Len(y) THEN y[i] ELSE z[i - Len(y)]
  BY <1>1, ConcatProperties
<1> HIDE DEF yz
<1>3. Len(yz) = 2 /\ yz[1] = b /\ yz[2] = c
  BY <1>1, <1>2
<1>4. /\ xyz \in Seq(S) /\ Len(xyz) = Len(x) + Len(yz)
      /\ \A i \in 1 .. Len(x) + Len(yz) :
           xyz[i] = IF i <= Len(x) THEN x[i] ELSE yz[i - Len(x)]
  <2>1. yz \in Seq(S)
    BY <1>2
  <2> QED
    BY <1>1, <2>1, ConcatProperties
<1> HIDE DEF xyz
<1>5. xyz \in Seq(S) /\ Len(xyz) = 3 /\ xyz[1] = a /\ xyz[2] = b /\ xyz[3] = c
  BY <1>1, <1>3, <1>4
<1>6. xyz = <<a, b, c>>
  <2>1. <<a, b, c>> \in Seq(S)
    BY DEF S
  <2> QED
    BY <1>5, <2>1
<1> QED
  BY <1>6, Zenon DEF xyz, yz, x, y, z

(* A login or a registration without the separator is read as it was       *)
(* written.                                                                *)
LEMMA ReceivedAuth ==
  ASSUME NEW type \in {LOGIN, REGISTER}, NEW u \in Text, NEW p \in Text,
         ~Has(u, US), ~Has(p, US)
  PROVE  Received(Sent(GetAuthScMessage(type, u, p))) = GetAuthScMessage(type, u, p)
<1> DEFINE buffer == Sent(GetAuthScMessage(type, u, p))
           s == <<TypeSymbol(type)>>
           lp == PropertyLine(302, p)
           lu == PropertyLine(303, u)
           U == Append(lu, NUL)
           split == <<s, lp, U>>
           blocks == <<lp, lu>>
           lines == <<s, lp, lu>>
<1>0. 302 \in Nat /\ 303 \in Nat /\ 302 # US /\ 303 # US /\ 302 # Colon /\ 303 # Colon
      /\ NUL \in Nat
  BY DEF US, Colon, NUL
<1>1. /\ lp \in Text /\ ~Has(lp, US) /\ lu \in Text /\ ~Has(lu, US)
  BY <1>0, LineHas, ZenonT(60)
<1>2. /\ IsProperty(lp) /\ NameOf(lp) = <<302>> /\ ValueOf(lp) = p
      /\ IsProperty(lu) /\ NameOf(lu) = <<303>> /\ ValueOf(lu) = u
  <2>1. IsLineOf(lp, 302, p) /\ IsLineOf(lu, 303, u)
    BY <1>0, PropertyLineRead, ZenonT(60)
  <2> QED
    BY <2>1, Zenon DEF IsLineOf
<1>3. Split(buffer, US) = <<s>> \o (<<lp>> \o <<U>>)
  <2>1. Split(Append(lp, US), US) = <<lp>> /\ Split(U, US) = <<U>>
    BY <1>1, SplitClean, ZenonT(60)
  <2>2. Split(buffer, US)
          = <<s>> \o (Split(Append(lp, US), US) \o Split(U, US))
    BY AuthSplit, SMTT(40)
  <2> QED
    BY <2>1, <2>2, ZenonT(60)
<1>4. Front(U) = lu
  BY <1>0, <1>1, FrontSeq DEF Text
<1> HIDE DEF buffer, s, lp, lu, U
<1>5. <<s>> \o (<<lp>> \o <<U>>) = split
  BY ThreeParts, Zenon
<1>6. /\ [split EXCEPT ![Len(split)] = Front(split[Len(split)])] = lines
      /\ Head(lines) = s /\ Tail(lines) = blocks
      /\ DOMAIN blocks = {1, 2} /\ blocks[1] = lp /\ blocks[2] = lu
  BY <1>4
<1>7. \A i \in DOMAIN blocks : IsProperty(blocks[i])
  <2> HIDE DEF blocks
  <2> QED
    BY <1>2, <1>6
<1>8. TypeFromStr(Head(lines)) = type /\ type # END
  BY <1>6, TypeRead, Zenon DEF s
<1> HIDE DEF lines, blocks, split
<1>9. IsRead(buffer, split, type, blocks)
  BY <1>3, <1>5, <1>6, <1>7, <1>8 DEF IsRead
<1>10. PropertiesOf(blocks) = MapWith(MapWith(<<>>, <<302>>, p), <<303>>, u)
  <2> HIDE DEF lp, lu
  <2>1. PropertiesOf(blocks)
          = MapWith(MapWith(<<>>, NameOf(lp), ValueOf(lp)), NameOf(lu), ValueOf(lu))
    BY PropertiesTwo, Zenon DEF blocks
  <2> QED
    BY <1>2, <2>1, Zenon
<1>11. Deserialize(buffer) = [type |-> type, properties |-> PropertiesOf(blocks)]
  BY <1>9, DeserializeGood, Zenon
<1>12. MapWith(MapWith(<<>>, Username, u), Password, p)
         = MapWith(MapWith(<<>>, Password, p), Username, u)
  <2> DEFINE m == MapWith(MapWith(<<>>, Username, u), Password, p)
  <2>1. Username # Password /\ m = MapWith(MapWith(<<>>, Username, u), Password, p)
    BY DEF Username, Password
  <2> HIDE DEF m
  <2>2. IsMapOfTwo(m, Username, u, Password, p)
    BY <2>1, MapTwo, Zenon
  <2> QED
    BY <2>2, Zenon DEF IsMapOfTwo, m
<1> QED
  BY <1>10, <1>11, <1>12, ZenonT(60)
       DEF Received, GetAuthScMessage, Username, Password, buffer

LEMMA PartsPlaces ==
  ASSUME NEW S, NEW a \in S, NEW x \in Seq(S), NEW y \in Seq(S),
         NEW z, z = <<a>> \o (x \o y)
  PROVE  /\ z \in Seq(S) /\ Len(z) = 1 + Len(x) + Len(y)
         /\ \A i \in 1..Len(x) : z[1 + i] = x[i]
         /\ \A i \in 1..Len(y) : z[1 + Len(x) + i] = y[i]
<1> DEFINE s == <<a>>
           xy == x \o y
           w == s \o xy
<1>1. /\ s \in Seq(S) /\ Len(s) = 1
      /\ Len(x) \in Nat /\ Len(y) \in Nat
  OBVIOUS
<1> HIDE DEF s
<1>2. /\ xy \in Seq(S) /\ Len(xy) = Len(x) + Len(y)
      /\ \A i \in 1 .. Len(x) + Len(y) :
           xy[i] = IF i <= Len(x) THEN x[i] ELSE y[i - Len(x)]
  BY ConcatProperties
<1> HIDE DEF xy
<1>3. /\ w \in Seq(S) /\ Len(w) = Len(s) + Len(xy)
      /\ \A i \in 1 .. Len(s) + Len(xy) :
           w[i] = IF i <= Len(s) THEN s[i] ELSE xy[i - Len(s)]
  <2>1. xy \in Seq(S)
    BY <1>2
  <2> QED
    BY <1>1, <2>1, ConcatProperties
<1> HIDE DEF w
<1>4. \A i \in 1 .. Len(x) + Len(y) : w[1 + i] = xy[i]
  <2> TAKE i \in 1 .. Len(x) + Len(y)
  <2> DEFINE j == 1 + i
  <2>1. j \in 1 .. Len(s) + Len(xy) /\ ~(j <= Len(s)) /\ j - Len(s) = i
    BY <1>1, <1>2
  <2> HIDE DEF j
  <2>2. w[j] = xy[i]
    BY <1>3, <2>1
  <2> QED
    BY <2>2 DEF j
<1>5. \A i \in 1..Len(x) : w[1 + i] = x[i]
  <2> TAKE i \in 1..Len(x)
  <2>1. i \in 1 .. Len(x) + Len(y) /\ i <= Len(x)
    BY <1>1
  <2>2. w[1 + i] = xy[i]
    BY <1>4, <2>1
  <2>3. xy[i] = x[i]
    BY <1>2, <2>1
  <2> QED
    BY <2>2, <2>3
<1>6. \A i \in 1..Len(y) : w[1 + Len(x) + i] = y[i]
  <2> TAKE i \in 1..Len(y)
  <2> DEFINE j == Len(x) + i
  <2>1. /\ j \in 1 .. Len(x) + Len(y) /\ ~(j <= Len(x)) /\ j - Len(x) = i
        /\ 1 + j = 1 + Len(x) + i
    BY <1>1
  <2> HIDE DEF j
  <2>2. w[1 + j] = y[i]
    BY <1>2, <1>4, <2>1
  <2> QED
    BY <2>1, <2>2
<1>7. z = w
  BY Zenon DEF w, xy, s
<1> QED
  BY <1>1, <1>2, <1>3, <1>5, <1>6, <1>7

LEMMA AppendPlaces ==
  ASSUME NEW S, NEW q \in Seq(S), NEW x \in S, NEW r, r = Append(q, x)
  PROVE  r \in Seq(S) /\ Len(r) = Len(q) + 1 /\ r[Len(q) + 1] = x /\ Len(q) \in Nat
OBVIOUS

(* With the separator in the name or the password it is not taken for      *)
(* anything.                                                               *)
LEMMA RejectedAuth ==
  ASSUME NEW type \in {LOGIN, REGISTER}, NEW u \in Text, NEW p \in Text,
         Has(u, US) \/ Has(p, US), ~Has(u, Space), ~Has(p, Space)
  PROVE  Received(Sent(GetAuthScMessage(type, u, p))) = Invalid
<1> DEFINE buffer == Sent(GetAuthScMessage(type, u, p))
           s == <<TypeSymbol(type)>>
           lp == PropertyLine(302, p)
           lu == PropertyLine(303, u)
           x == Split(Append(lp, US), US)
           y == Split(Append(lu, NUL), US)
           z == Split(buffer, US)
<1>0. /\ 302 \in Nat /\ 303 \in Nat /\ 302 # US /\ 303 # US
      /\ NUL \in Nat /\ US \in Nat
  BY DEF US, NUL
<1>1. s \in Text
  BY DEF Text, TypeSymbol, LOGIN, REGISTER
<1>2. /\ lp \in Text /\ (Has(lp, US) => Has(p, US))
      /\ lu \in Text /\ (Has(lu, US) => Has(u, US))
  <2>1. lp \in Text /\ (Has(lp, US) => Has(p, US))
    BY <1>0, LineHas
  <2>2. lu \in Text /\ (Has(lu, US) => Has(u, US))
    BY <1>0, LineHas
  <2> QED
    BY <2>1, <2>2
<1>3. z = <<s>> \o (x \o y)
  BY AuthSplit, SMTT(40)
<1>4. x \in Seq(Text) /\ y \in Seq(Text)
  <2> HIDE DEF lp, lu
  <2>1. Append(lp, US) \in Seq(Nat) /\ Append(lu, NUL) \in Seq(Nat)
    BY <1>0, <1>2, PushSeq DEF Text
  <2> QED
    BY <2>1, SplitType DEF Text
<1> HIDE DEF buffer, s, x, y, z
<1>5. /\ z \in Seq(Text) /\ Len(z) = 1 + Len(x) + Len(y)
      /\ \A i \in 1..Len(x) : z[1 + i] = x[i]
      /\ \A i \in 1..Len(y) : z[1 + Len(x) + i] = y[i]
      /\ Len(x) \in Nat /\ Len(y) \in Nat
  <2>1. Len(x) \in Nat /\ Len(y) \in Nat
    BY <1>4
  <2> QED
    BY <1>1, <1>3, <1>4, <2>1, PartsPlaces
<1>6. \A c \in Text : ~Has(c, Space) => ~IsProperty(c)
  BY NoProperty DEF Has
<1>7. CASE Has(u, US)
  <2>1. PICK lines \in Seq(Text), c \in Text :
          /\ ~Has(c, Space)
          /\ EndsInLine(lu, NUL, lines, Append(c, NUL))
    BY <1>0, <1>7, SplitDirty, ZenonT(60)
  <2> DEFINE e == Append(c, NUL)
             k == Len(z)
  <2>2. y = Append(lines, e)
    BY <2>1, Zenon DEF EndsInLine, y
  <2>3. e \in Text /\ Front(e) = c
    BY <1>0, PushSeq, FrontSeq DEF Text
  <2> HIDE DEF e
  <2>4. Len(y) = Len(lines) + 1 /\ y[Len(y)] = e /\ Len(lines) \in Nat
    BY <2>2, <2>3, AppendPlaces
  <2>5. k \in 2..Len(z) /\ z[k] = e
    BY <1>5, <2>4
  <2>6. ~IsProperty(IF k = Len(z) THEN Front(z[k]) ELSE z[k])
    BY <1>6, <2>1, <2>3, <2>5
  <2> HIDE DEF k
  <2>7. Deserialize(buffer) = Invalid
    BY <1>5, <2>5, <2>6, DeserializeBad DEF z
  <2> QED
    BY <2>7 DEF Received, buffer
<1>8. CASE ~Has(u, US)
  <2>1. PICK lines \in Seq(Text), c \in Text :
          /\ ~Has(c, Space)
          /\ EndsInLine(lp, US, lines, c)
    BY <1>0, <1>8, SplitDirty, ZenonT(60)
  <2>2. x = Append(lines, c)
    BY <2>1, Zenon DEF EndsInLine, x
  <2>3. y = <<Append(lu, NUL)>>
    BY <1>2, <1>8, SplitClean, ZenonT(60) DEF y
  <2>4. Len(y) = 1
    BY <2>3
  <2>5. Len(x) = Len(lines) + 1 /\ x[Len(x)] = c /\ Len(lines) \in Nat
    BY <2>2, AppendPlaces
  <2> DEFINE k == 1 + Len(x)
  <2>6. k \in 2..Len(z) /\ z[k] = c /\ k # Len(z)
    BY <1>5, <2>4, <2>5
  <2>7. ~IsProperty(IF k = Len(z) THEN Front(z[k]) ELSE z[k])
    BY <1>6, <2>1, <2>6
  <2> HIDE DEF k
  <2>8. Deserialize(buffer) = Invalid
    BY <1>5, <2>6, <2>7, DeserializeBad DEF z
  <2> QED
    BY <2>8 DEF Received, buffer
<1> QED
  BY <1>7, <1>8

(* A message without the separator is read as it was written.              *)
LEMMA ReceivedMessage ==
  ASSUME NEW m, MessageToStr(m) \in Text, ~Has(MessageToStr(m), US)
  PROVE  Received(Sent(GetMessageScMessage(m))) = GetMessageScMessage(m)
<1> DEFINE v == MessageToStr(m)
           buffer == Sent(GetMessageScMessage(m))
           s == <<TypeSymbol(MESSAGE)>>
           S == Append(s, US)
           l == PropertyLine(301, v)
           L == Append(l, NUL)
           split == <<s, L>>
           blocks == <<l>>
           lines == <<s, l>>
<1>0. /\ 301 \in Nat /\ 301 # US /\ 301 # Colon /\ NUL \in Nat /\ US \in Nat
      /\ v \in Text
  BY DEF US, Colon, NUL
<1>1. buffer = S \o L
  <2>1. buffer = MessageText(v)
    BY SentMessage
  <2> QED
    BY <2>1, Zenon DEF MessageText
<1> HIDE DEF buffer
<1>2. /\ l \in Text /\ ~Has(l, US)
      /\ IsProperty(l) /\ NameOf(l) = <<301>> /\ ValueOf(l) = v
  <2>1. IsLineOf(l, 301, v)
    BY <1>0, PropertyLineRead, Zenon
  <2>2. ~Has(l, US)
    BY <1>0, LineHas, Zenon
  <2> QED
    BY <2>1, <2>2, Zenon DEF IsLineOf
<1>3. Front(L) = l /\ L \in Text
  <2> HIDE DEF l
  <2> QED
    BY <1>0, <1>2, FrontSeq, PushSeq DEF Text
<1>4. s \in Text /\ ~Has(s, US)
  BY DEF Text, TypeSymbol, MESSAGE, Has, US
<1>5. Split(L, US) = <<L>> /\ Split(S, US) = <<s>>
  BY <1>2, <1>4, SplitClean, ZenonT(60)
<1> HIDE DEF s, l, v
<1>6. Split(S \o L, US) = <<s>> \o <<L>>
  <2> HIDE DEF L
  <2>1. Split(S \o L, US) = Split(S, US) \o Split(L, US)
    <3>1. s \in Seq(Nat) /\ L \in Seq(Nat) /\ US \in Nat
      BY <1>0, <1>3, <1>4 DEF Text
    <3> QED
      BY <3>1, SplitConcat, Zenon
  <2> QED
    BY <1>5, <2>1, Zenon
<1> HIDE DEF L, S
<1>7. <<s>> \o <<L>> = split
  BY TwoParts, Zenon
<1>8. /\ [split EXCEPT ![Len(split)] = Front(split[Len(split)])] = lines
      /\ Head(lines) = s /\ Tail(lines) = blocks
      /\ DOMAIN blocks = {1} /\ blocks[1] = l
  BY <1>3
<1>9. TypeFromStr(Head(lines)) = MESSAGE /\ MESSAGE # END
  BY <1>8, TypeRead, Zenon DEF s
<1>10. PropertiesOf(blocks) = MapWith(<<>>, <<301>>, v)
  BY <1>2, PropertiesOne, Zenon DEF blocks
<1> HIDE DEF lines, blocks, split
<1>11. \A i \in DOMAIN blocks : IsProperty(blocks[i])
  BY <1>2, <1>8
<1>12. IsRead(buffer, split, MESSAGE, blocks)
  BY <1>1, <1>6, <1>7, <1>8, <1>9, <1>11 DEF IsRead
<1>13. Deserialize(buffer) = [type |-> MESSAGE, properties |-> PropertiesOf(blocks)]
  BY <1>12, DeserializeGood, Zenon
<1> QED
  BY <1>10, <1>13, Zenon
     DEF Received, GetMessageScMessage, MessageProperty, buffer, v

(* Message as text *)

WrittenMessages == [username : Text, time : Nat, text : Text]

LEMMA DateType ==
  ASSUME NEW time \in Nat
  PROVE  DateOf(time) \in Nat /\ DateOf(time) >= 1000 /\ TimeOf(DateOf(time)) \in Nat
<1>1. Local(time) \in Nat
  BY DEF Local, Hour
<1>2. Local(time) \div 2 \in Nat
  BY <1>1
<1> QED
  BY <1>2 DEF DateOf, TimeOf

LEMMA UserType ==
  ASSUME NEW m, m.username \in Text
  PROVE  /\ UserOf(m) \in Text /\ UserOf(m) # <<>>
         /\ \A c : Has(UserOf(m), c) => c = Dash \/ Has(m.username, c)
<1>1. /\ <<Dash>> \in Text /\ <<Dash>> # <<>> /\ Len(<<Dash>>) = 1
      /\ <<Dash>>[1] = Dash
  BY DEF Text, Dash
<1> QED
  BY <1>1 DEF UserOf, Has

(* A message is written as its user, its date and its text, each a line.   *)
MessagePlaces(t, u, d, x) ==
  /\ t \in Text /\ Len(t) = Len(u) + 3 + Len(x)
  /\ \A i \in 1..Len(u) : t[i] = u[i]
  /\ t[Len(u) + 1] = LF /\ t[Len(u) + 2] = d /\ t[Len(u) + 3] = LF
  /\ \A i \in 1..Len(x) : t[Len(u) + 3 + i] = x[i]

LEMMA WrittenMessage ==
  ASSUME NEW u \in Text, NEW d \in Nat, NEW x \in Text
  PROVE  MessagePlaces(u \o <<LF, d, LF>> \o x, u, d, x)
<1> DEFINE h == <<LF, d, LF>>
           uh == u \o h
           t == uh \o x
<1>1. h \in Text /\ Len(h) = 3 /\ h[1] = LF /\ h[2] = d /\ h[3] = LF
  BY DEF Text, LF
<1> HIDE DEF h
<1>2. /\ uh \in Text /\ Len(uh) = Len(u) + Len(h)
      /\ \A i \in 1 .. Len(u) + Len(h) :
           uh[i] = IF i <= Len(u) THEN u[i] ELSE h[i - Len(u)]
  BY <1>1, ConcatProperties DEF Text
<1> HIDE DEF uh
<1>3. /\ t \in Text /\ Len(t) = Len(uh) + Len(x)
      /\ \A i \in 1 .. Len(uh) + Len(x) :
           t[i] = IF i <= Len(uh) THEN uh[i] ELSE x[i - Len(uh)]
  <2>1. uh \in Text
    BY <1>2
  <2> QED
    BY <2>1, ConcatProperties DEF Text
<1> HIDE DEF t
<1>4. Len(u) \in Nat /\ Len(x) \in Nat
  BY DEF Text
<1>5. Len(uh) = Len(u) + 3
  BY <1>1, <1>2
<1>6. \A i \in 1 .. Len(u) + 3 : t[i] = uh[i]
  BY <1>3, <1>4, <1>5
<1>7. \A i \in 1..Len(u) : t[i] = u[i]
  <2> TAKE i \in 1..Len(u)
  <2>1. i \in 1 .. Len(u) + 3 /\ i \in 1 .. Len(u) + Len(h) /\ i <= Len(u)
    BY <1>1, <1>4
  <2> QED
    BY <1>2, <1>6, <2>1
<1>8. \A j \in 1..3 : t[Len(u) + j] = h[j]
  <2> TAKE j \in 1..3
  <2> DEFINE i == Len(u) + j
  <2>1. /\ i \in 1 .. Len(u) + 3 /\ i \in 1 .. Len(u) + Len(h) /\ ~(i <= Len(u))
        /\ i - Len(u) = j
    BY <1>1, <1>4
  <2> HIDE DEF i
  <2>2. t[i] = h[j]
    BY <1>2, <1>6, <2>1
  <2> QED
    BY <2>2 DEF i
<1>9. \A j \in 1..Len(x) : t[Len(u) + 3 + j] = x[j]
  <2> TAKE j \in 1..Len(x)
  <2> DEFINE i == Len(u) + 3 + j
  <2>1. i \in 1 .. Len(uh) + Len(x) /\ ~(i <= Len(uh)) /\ i - Len(uh) = j
    BY <1>4, <1>5
  <2> HIDE DEF i
  <2>2. t[i] = x[j]
    BY <1>3, <2>1
  <2> QED
    BY <2>2 DEF i
<1>10. MessagePlaces(t, u, d, x)
  BY <1>1, <1>3, <1>5, <1>7, <1>8, <1>9 DEF MessagePlaces
<1> QED
  BY <1>10, Zenon DEF t, uh, h

LEMMA FromPlaces ==
  ASSUME NEW S, NEW s \in Seq(S), NEW m \in 1 .. Len(s) + 1
  PROVE  /\ From(s, m) \in Seq(S) /\ Len(From(s, m)) = Len(s) - m + 1
         /\ \A i \in 1 .. Len(s) - m + 1 : From(s, m)[i] = s[m + i - 1]
<1> DEFINE n == Len(s)
           r == SubSeq(s, m, n)
<1>1. n \in 0..Len(s) /\ n = Len(s) /\ m \in Nat /\ n \in Nat
  OBVIOUS
<1>2. From(s, m) = r
  BY DEF From
<1> HIDE DEF n
<1>3. /\ r \in Seq(S) /\ Len(r) = IF m <= n THEN n - m + 1 ELSE 0
      /\ \A i \in 1 .. n - m + 1 : r[i] = s[m + i - 1]
  BY <1>1, PartSeq
<1> HIDE DEF r
<1> QED
  BY <1>1, <1>2, <1>3, SMTT(40)

LEMMA ReadMessage ==
  ASSUME NEW t, NEW u \in Text, NEW d \in Nat, NEW x \in Text,
         MessagePlaces(t, u, d, x), ~Has(u, LF), d >= 1000
  PROVE  MessageFromStr(t) = [username |-> u, time |-> TimeOf(d), text |-> x]
<1> DEFINE n == Len(u)
           k == n + 1
           rest == From(t, k + 1)
           l == Len(x)
<1>1. /\ t \in Text /\ Len(t) = n + 3 + l /\ n \in Nat /\ l \in Nat
      /\ \A i \in 1..n : t[i] = u[i]
      /\ t[n + 1] = LF /\ t[n + 2] = d /\ t[n + 3] = LF
      /\ \A i \in 1..l : t[n + 3 + i] = x[i]
  BY DEF MessagePlaces, Text
<1>2. \A i \in 1..n : u[i] # LF
  BY DEF Has
<1> HIDE DEF n, l
<1>3. Find(t, LF) = k
  <2>1. k \in 1..Len(t) /\ t[k] = LF
    BY <1>1
  <2>2. \A i \in 1 .. k - 1 : t[i] # LF
    BY <1>1, <1>2
  <2> HIDE DEF k
  <2> QED
    BY <1>1, <2>1, <2>2, FindFirst, ZenonT(60) DEF Text
<1>4. /\ rest \in Text /\ Len(rest) = 2 + l
      /\ \A i \in 1 .. 2 + l : rest[i] = t[n + 1 + i]
  <2> DEFINE j == k + 1
             r == From(t, j)
  <2>1. j \in 1 .. Len(t) + 1 /\ j = n + 2
    BY <1>1
  <2> HIDE DEF j, k
  <2>2. /\ r \in Text /\ Len(r) = Len(t) - j + 1
        /\ \A i \in 1 .. Len(t) - j + 1 : r[i] = t[j + i - 1]
    <3>1. t \in Text
      BY <1>1
    <3> QED
      BY <2>1, <3>1, FromPlaces, ZenonT(60) DEF Text
  <2> HIDE DEF r
  <2>3. Len(t) - j + 1 = 2 + l
    BY <1>1, <2>1
  <2>4. ASSUME NEW i \in 1 .. 2 + l PROVE r[i] = t[n + 1 + i]
    <3>1. j + i - 1 = n + 1 + i
      BY <1>1, <2>1
    <3> QED
      BY <2>2, <2>3, <3>1
  <2> QED
    BY <2>2, <2>3, <2>4 DEF r, j
<1>5. SubSeq(t, 1, k - 1) = u
  <2> DEFINE r == SubSeq(t, 1, n)
  <2>1. 1 \in 1 .. Len(t) + 1 /\ n \in 0..Len(t) /\ k - 1 = n
    BY <1>1
  <2>2. /\ r \in Text /\ Len(r) = IF 1 <= n THEN n - 1 + 1 ELSE 0
        /\ \A i \in 1 .. n - 1 + 1 : r[i] = t[1 + i - 1]
    BY <1>1, <2>1, PartSeq DEF Text
  <2> HIDE DEF r
  <2>3. Len(r) = n /\ \A i \in 1..n : r[i] = u[i]
    BY <1>1, <2>2
  <2>4. r = u
    BY <2>2, <2>3, SeqEqual DEF Text, n
  <2> HIDE DEF k
  <2> QED
    BY <2>1, <2>4 DEF r
<1> HIDE DEF rest
<1>6. rest[1] = d /\ rest[2] = LF
  BY <1>1, <1>4
<1>7. Find(rest, LF) = 2
  <2>1. 2 \in 1..Len(rest) /\ rest[2] = LF
    BY <1>1, <1>4, <1>6
  <2>2. \A i \in 1 .. 2 - 1 : rest[i] # LF
    BY <1>6 DEF LF
  <2> QED
    BY <1>4, <2>1, <2>2, FindFirst, SMTT(40) DEF Text
<1>8. From(rest, 2 + 1) = x
  <2> DEFINE r == From(rest, 3)
  <2>1. 3 \in 1 .. Len(rest) + 1
    BY <1>1, <1>4
  <2>2. /\ r \in Text /\ Len(r) = Len(rest) - 3 + 1
        /\ \A i \in 1 .. Len(rest) - 3 + 1 : r[i] = rest[3 + i - 1]
    <3>1. rest \in Text
      BY <1>4
    <3> QED
      BY <2>1, <3>1, FromPlaces DEF Text
  <2> HIDE DEF r
  <2>3. Len(r) = l
    BY <1>1, <1>4, <2>2
  <2>4. ASSUME NEW i \in 1..l PROVE r[i] = x[i]
    <3>1. /\ i \in 1 .. Len(rest) - 3 + 1 /\ 3 + i - 1 = 2 + i /\ 2 + i \in 1 .. 2 + l
          /\ n + 1 + (2 + i) = n + 3 + i
      BY <1>1, <1>4, <2>1
    <3>2. r[i] = rest[2 + i]
      BY <2>2, <3>1
    <3>3. rest[2 + i] = t[n + 3 + i]
      BY <1>4, <3>1
    <3> QED
      BY <1>1, <3>2, <3>3
  <2>5. r = x
    BY <2>2, <2>3, <2>4, SeqEqual DEF Text, l
  <2> QED
    BY <2>5 DEF r
<1>9. k # 0 /\ ~(rest[1] < 1000)
  BY <1>1, <1>6
<1> HIDE DEF k
<1>10. MessageFromStr(t)
         = IF k = 0 \/ Find(rest, LF) # 2 \/ rest[1] < 1000 THEN Invalid
           ELSE [username |-> SubSeq(t, 1, k - 1), time |-> TimeOf(rest[1]),
                 text |-> From(rest, Find(rest, LF) + 1)]
  BY <1>3, ZenonT(60) DEF MessageFromStr, rest
<1>11. MessageFromStr(t)
         = [username |-> SubSeq(t, 1, k - 1), time |-> TimeOf(rest[1]),
            text |-> From(rest, Find(rest, LF) + 1)]
  BY <1>7, <1>9, <1>10, ZenonT(60)
<1> QED
  BY <1>5, <1>6, <1>7, <1>8, <1>11, ZenonT(60)

(* A message survives being written and read, except for its time and an   *)
(* empty name, which MessageToStr changes.                                 *)
Arrived(m) ==
  [username |-> UserOf(m), time |-> TimeOf(DateOf(m.time)), text |-> m.text]

LEMMA MessageRead ==
  ASSUME NEW m \in WrittenMessages, ~Has(m.username, LF)
  PROVE  /\ MessageToStr(m) \in Text
         /\ MessageFromStr(MessageToStr(m)) = Arrived(m)
         /\ ~Has(m.username, US) /\ ~Has(m.text, US) => ~Has(MessageToStr(m), US)
<1> DEFINE u == UserOf(m)
           d == DateOf(m.time)
           x == m.text
           t == MessageToStr(m)
<1>1. m.username \in Text /\ m.time \in Nat /\ m.text \in Text
  BY DEF WrittenMessages
<1>2. d \in Nat /\ d >= 1000
  BY <1>1, DateType
<1>3. /\ u \in Text /\ (Has(u, LF) => Has(m.username, LF))
      /\ (Has(u, US) => Has(m.username, US))
  BY <1>1, UserType DEF LF, US, Dash
<1>4. MessagePlaces(t, u, d, x)
  <2>1. MessagePlaces(u \o <<LF, d, LF>> \o x, u, d, x)
    BY <1>1, <1>2, <1>3, WrittenMessage, Zenon
  <2> QED
    BY <2>1, Zenon DEF MessageToStr
<1> HIDE DEF u, d, x, t
<1>5. MessageFromStr(t) = [username |-> u, time |-> TimeOf(d), text |-> x]
  BY <1>1, <1>2, <1>3, <1>4, ReadMessage, Zenon DEF x
<1>6. t \in Text
  BY <1>4 DEF MessagePlaces
<1>7. ASSUME ~Has(u, US), ~Has(x, US), NEW i \in 1..Len(t), t[i] = US PROVE FALSE
  <2>1. Len(u) \in Nat /\ Len(x) \in Nat
    BY <1>1, <1>3 DEF Text, x
  <2>2. i \notin 1..Len(u)
    BY <1>4, <1>7 DEF MessagePlaces, Has
  <2>3. i # Len(u) + 1 /\ i # Len(u) + 2 /\ i # Len(u) + 3
    BY <1>2, <1>4, <1>7 DEF MessagePlaces, LF, US
  <2> DEFINE j == i - Len(u) - 3
  <2>4. j \in 1..Len(x) /\ i = Len(u) + 3 + j
    BY <1>4, <2>1, <2>2, <2>3 DEF MessagePlaces
  <2> HIDE DEF j
  <2>5. x[j] = US
    BY <1>4, <1>7, <2>4 DEF MessagePlaces
  <2> QED
    BY <1>7, <2>4, <2>5 DEF Has
<1>8. ~Has(m.username, US) /\ ~Has(m.text, US) => ~Has(t, US)
  BY <1>3, <1>7 DEF Has, x
<1>9. MessageFromStr(t) = Arrived(m)
  BY <1>5, Zenon DEF Arrived, u, d, x
<1> QED
  BY <1>6, <1>8, <1>9 DEF t

(* What there is in a conversation *)

AuthRequests == [type : {LOGIN, REGISTER}, username : Names, password : Passwords]
Writings == [username : LoginNames, time : Nat, text : Bodies]

Silence ==
  said = Nothing /\ heard = Nothing /\ toServer = <<>> /\ toClient = <<>>

AuthUnderWay ==
  /\ said \in AuthRequests /\ heard = Nothing /\ toClient = <<>>
  /\ toServer = Sent(GetAuthScMessage(said.type, said.username, said.password))

AuthHeard ==
  /\ said \in AuthRequests /\ toClient = <<>> /\ toServer = <<>>
  /\ \/ heard = said
     \/ heard = Invalid /\ US \in ToSet(said.username \o said.password)

MessageUnderWay ==
  /\ said \in Writings /\ heard = Nothing /\ toClient = <<>>
  /\ toServer = Sent(GetMessageScMessage(said))

(* On the way back the name is the one of the session, or the dash that    *)
(* the client wrote for an empty one.                                      *)
MessageComesBack ==
  /\ said \in Writings /\ heard = Nothing /\ toServer = <<>>
  /\ \E user \in {said.username, UserOf(said)} :
       toClient = Sent(GetMessageScMessage(
                    [username |-> user, time |-> said.time, text |-> said.text]))

MessageHeard ==
  /\ said \in Writings /\ heard = Arrived(said)
  /\ toServer = <<>> /\ toClient = <<>>

TalkInv ==
  \/ Silence \/ AuthUnderWay \/ AuthHeard
  \/ MessageUnderWay \/ MessageComesBack \/ MessageHeard

(* Invariance *)

LEMMA TypedTexts ==
  /\ \A t \in Names \cup Passwords : t \in Text /\ ~Has(t, LF) /\ ~Has(t, Space)
  /\ \A t \in Bodies : t \in Text /\ ~Has(t, US)
  /\ \A t \in LoginNames : t \in Names /\ ~Has(t, US)
<1>1. ASSUME NEW t \in Text, NEW c PROVE Has(t, c) <=> c \in ToSet(t)
  BY DEF Has, ToSet, Text
<1>2. Names \cup Passwords \cup Bodies \subseteq Text
  BY TextAssumption DEF Text
<1>3. \A t \in Names \cup Passwords : ~Has(t, LF) /\ ~Has(t, Space)
  BY <1>1, <1>2, TextAssumption
<1>4. \A t \in Bodies : ~Has(t, US)
  BY <1>1, <1>2, TextAssumption
<1>5. \A t \in LoginNames : t \in Names /\ ~Has(t, US)
  BY <1>1, <1>2 DEF LoginNames
<1> QED
  BY <1>2, <1>3, <1>4, <1>5

LEMMA SeparatorIn ==
  ASSUME NEW u \in Text, NEW p \in Text, Has(u, US) \/ Has(p, US)
  PROVE  US \in ToSet(u \o p)
<1> DEFINE up == u \o p
<1>1. /\ up \in Text /\ Len(up) = Len(u) + Len(p)
      /\ \A i \in 1 .. Len(u) + Len(p) :
           up[i] = IF i <= Len(u) THEN u[i] ELSE p[i - Len(u)]
  BY ConcatProperties DEF Text
<1> HIDE DEF up
<1>2. Len(u) \in Nat /\ Len(p) \in Nat
  BY DEF Text
<1>3. \E i \in 1..Len(up) : up[i] = US
  <2>1. CASE Has(u, US)
    <3>1. PICK i \in 1..Len(u) : u[i] = US
      BY <2>1 DEF Has
    <3>2. i \in 1 .. Len(u) + Len(p) /\ i <= Len(u)
      BY <1>2
    <3> QED
      BY <1>1, <3>1, <3>2
  <2>2. CASE Has(p, US)
    <3>1. PICK i \in 1..Len(p) : p[i] = US
      BY <2>2 DEF Has
    <3> DEFINE j == Len(u) + i
    <3>2. j \in 1 .. Len(u) + Len(p) /\ ~(j <= Len(u)) /\ j - Len(u) = i
      BY <1>2
    <3> HIDE DEF j
    <3> QED
      BY <1>1, <3>1, <3>2
  <2> QED
    BY <2>1, <2>2
<1> QED
  BY <1>1, <1>3 DEF ToSet, Text, up

(* What the session makes of a login or a registration.                    *)
IsAuthOf(msg, type, u, p) ==
  /\ msg # Invalid /\ msg.type = type
  /\ DOMAIN msg.properties = {Username, Password}
  /\ msg.properties[Username] = u /\ msg.properties[Password] = p

LEMMA AuthRead ==
  ASSUME NEW r \in AuthRequests,
         NEW msg, msg = Received(Sent(GetAuthScMessage(r.type, r.username, r.password)))
  PROVE  \/ IsAuthOf(msg, r.type, r.username, r.password)
         \/ msg = Invalid /\ US \in ToSet(r.username \o r.password)
<1> DEFINE type == r.type
           u == r.username
           p == r.password
<1>1. type \in {LOGIN, REGISTER} /\ u \in Names /\ p \in Passwords
  BY DEF AuthRequests
<1>2. /\ u \in Text /\ p \in Text /\ ~Has(u, Space) /\ ~Has(p, Space)
  BY <1>1, TypedTexts
<1> HIDE DEF type, u, p
<1>3. msg = Received(Sent(GetAuthScMessage(type, u, p)))
  BY DEF type, u, p
<1>4. CASE ~Has(u, US) /\ ~Has(p, US)
  <2>1. msg = GetAuthScMessage(type, u, p)
    BY <1>1, <1>2, <1>3, <1>4, ReceivedAuth, Zenon
  <2> DEFINE m == MapWith(MapWith(<<>>, Username, u), Password, p)
  <2>2. Username # Password /\ m = MapWith(MapWith(<<>>, Username, u), Password, p)
    BY DEF Username, Password
  <2> HIDE DEF m
  <2>3. IsMapOfTwo(m, Username, u, Password, p)
    BY <2>2, MapTwo, Zenon
  <2>4. msg = [type |-> type, properties |-> m]
    BY <2>1, <2>2, Zenon DEF GetAuthScMessage
  <2>5. msg.type = type /\ msg.properties = m /\ msg # Invalid
    BY <2>4 DEF Invalid
  <2>6. IsAuthOf(msg, type, u, p)
    BY <2>3, <2>5, Zenon DEF IsAuthOf, IsMapOfTwo
  <2> QED
    BY <2>6 DEF type, u, p
<1>5. CASE Has(u, US) \/ Has(p, US)
  <2>1. msg = Invalid
    BY <1>1, <1>2, <1>3, <1>5, RejectedAuth, Zenon
  <2>2. US \in ToSet(u \o p)
    BY <1>2, <1>5, SeparatorIn
  <2> QED
    BY <2>1, <2>2 DEF u, p
<1> QED
  BY <1>4, <1>5

(* What the session or the client makes of a message.                      *)
LEMMA TalkRead ==
  ASSUME NEW m \in WrittenMessages,
         ~Has(m.username, LF), ~Has(m.username, US), ~Has(m.text, US),
         NEW msg, msg = Received(Sent(GetMessageScMessage(m)))
  PROVE  HasMessage(msg) /\ MessageIn(msg) = Arrived(m) /\ msg.type = MESSAGE
<1> DEFINE v == MessageToStr(m)
<1>1. v \in Text /\ MessageFromStr(v) = Arrived(m) /\ ~Has(v, US)
  BY MessageRead
<1>2. msg = GetMessageScMessage(m)
  BY <1>1, ReceivedMessage
<1>3. Arrived(m) # Invalid
  BY DEF Arrived, Invalid
<1> HIDE DEF v
<1>4. msg = [type |-> MESSAGE, properties |-> MapWith(<<>>, MessageProperty, v)]
  BY <1>2, Zenon DEF GetMessageScMessage, v
<1> DEFINE ps == MapWith(<<>>, MessageProperty, v)
<1>5. MessageProperty \in DOMAIN ps /\ ps[MessageProperty] = v
  BY MapOne
<1> HIDE DEF ps
<1>6. msg.type = MESSAGE /\ msg.properties = ps /\ msg # Invalid
  BY <1>4 DEF Invalid, ps
<1> QED
  BY <1>1, <1>3, <1>5, <1>6, Zenon DEF HasMessage, MessageIn

LEMMA NothingElse ==
  /\ \A r \in AuthRequests : r # Nothing /\ IsAuth(r)
  /\ \A r \in Writings : r # Nothing /\ ~IsAuth(r)
  /\ ~IsAuth(Nothing)
<1>1. \A r \in AuthRequests : DOMAIN r = {"type", "username", "password"}
  BY DEF AuthRequests
<1>2. \A r \in Writings : DOMAIN r = {"username", "time", "text"}
  BY DEF Writings
<1>3. DOMAIN Nothing = {"type"}
  BY DEF Nothing
<1> QED
  BY <1>1, <1>2, <1>3 DEF IsAuth

LEMMA WritingFacts ==
  ASSUME NEW w \in Writings, NEW user \in {w.username, UserOf(w)},
         NEW m, m = [username |-> user, time |-> w.time, text |-> w.text]
  PROVE  /\ m \in WrittenMessages
         /\ ~Has(m.username, LF) /\ ~Has(m.username, US) /\ ~Has(m.text, US)
         /\ Arrived(m) = Arrived(w)
<1>1. w.username \in LoginNames /\ w.time \in Nat /\ w.text \in Bodies
  BY DEF Writings
<1>2. /\ w.username \in Text /\ ~Has(w.username, LF) /\ ~Has(w.username, US)
      /\ w.text \in Text /\ ~Has(w.text, US)
  BY <1>1, TypedTexts
<1>3. /\ UserOf(w) \in Text /\ UserOf(w) # <<>>
      /\ ~Has(UserOf(w), LF) /\ ~Has(UserOf(w), US)
  BY <1>2, UserType DEF LF, US, Dash
<1>4. m.username = user /\ m.time = w.time /\ m.text = w.text
  OBVIOUS
<1>5. m \in WrittenMessages
  BY <1>1, <1>2, <1>3 DEF WrittenMessages
<1>6. UserOf(m) = UserOf(w)
  <2>1. CASE user = w.username
    BY <1>4, <2>1, Zenon DEF UserOf
  <2>2. CASE user = UserOf(w)
    <3>1. UserOf(m) = IF user = <<>> THEN <<Dash>> ELSE user
      BY <1>4, Zenon DEF UserOf
    <3> QED
      BY <1>3, <2>2, <3>1, Zenon
  <2> QED
    BY <2>1, <2>2
<1>7. Arrived(m) = Arrived(w)
  BY <1>4, <1>6, Zenon DEF Arrived
<1> QED
  BY <1>2, <1>3, <1>4, <1>5, <1>7

LEMMA TalkInitial == TalkInit => TalkInv
BY DEF TalkInit, TalkInv, Silence

(* The server's clock goes over the date that the message had.             *)
LEMMA Redated ==
  ASSUME NEW w \in Writings, NEW now \in Nat
  PROVE  /\ [w EXCEPT !.time = now] \in Writings
         /\ [w EXCEPT !.time = now].username = w.username
         /\ UserOf([w EXCEPT !.time = now]) = UserOf(w)
         /\ [w EXCEPT !.time = now].time = now
         /\ [w EXCEPT !.time = now].text = w.text
<1>1. /\ [w EXCEPT !.time = now] \in Writings
      /\ [w EXCEPT !.time = now].username = w.username
      /\ [w EXCEPT !.time = now].time = now
      /\ [w EXCEPT !.time = now].text = w.text
  BY DEF Writings
<1> QED
  BY <1>1, Zenon DEF UserOf

LEMMA TalkPreserved == TalkInv /\ [TalkNext]_talkVars => TalkInv'
<1> SUFFICES ASSUME TalkInv, [TalkNext]_talkVars PROVE TalkInv'
  OBVIOUS
<1> USE DEF TalkInv
<1>1. ASSUME NEW u \in LoginNames, NEW time \in Instants, NEW text \in Bodies,
             WriteMessage(u, time, text)
      PROVE  TalkInv'
  <2>1. said = Nothing /\ Silence
    BY <1>1, NothingElse
       DEF WriteMessage, AuthUnderWay, AuthHeard, MessageUnderWay, MessageComesBack,
           MessageHeard
  <2> DEFINE m == [username |-> u, time |-> time, text |-> text]
  <2>2. m \in Writings
    BY TextAssumption DEF Writings
  <2> HIDE DEF m
  <2>3. said' = m /\ toServer' = Sent(GetMessageScMessage(m)) /\ toClient' = <<>>
        /\ heard' = Nothing
    BY <1>1, <2>1, Zenon DEF WriteMessage, Silence, m
  <2>4. MessageUnderWay'
    BY <2>2, <2>3, Zenon DEF MessageUnderWay
  <2> QED
    BY <2>4
<1>2. ASSUME NEW type \in {LOGIN, REGISTER}, NEW u \in Names, NEW p \in Passwords,
             Auth(type, u, p)
      PROVE  TalkInv'
  <2>1. said = Nothing /\ Silence
    BY <1>2, NothingElse
       DEF Auth, AuthUnderWay, AuthHeard, MessageUnderWay, MessageComesBack,
           MessageHeard
  <2> DEFINE r == [type |-> type, username |-> u, password |-> p]
  <2>2. /\ r \in AuthRequests
        /\ r.type = type /\ r.username = u /\ r.password = p
    BY DEF AuthRequests
  <2> HIDE DEF r
  <2>3. /\ said' = r /\ toServer' = Sent(GetAuthScMessage(type, u, p))
        /\ toClient' = <<>> /\ heard' = Nothing
    BY <1>2, <2>1, Zenon DEF Auth, Silence, r
  <2>4. AuthUnderWay'
    BY <2>2, <2>3, Zenon DEF AuthUnderWay
  <2> QED
    BY <2>4
<1>3. ASSUME toServer # <<>>
      PROVE  AuthUnderWay \/ MessageUnderWay
  BY <1>3 DEF Silence, AuthHeard, MessageComesBack, MessageHeard
<1>4. ASSUME AuthUnderWay
      PROVE  /\ said \in AuthRequests /\ heard = Nothing /\ toClient = <<>>
             /\ \/ IsAuthOf(Request, said.type, said.username, said.password)
                \/ Request = Invalid /\ US \in ToSet(said.username \o said.password)
  <2>1. /\ said \in AuthRequests /\ heard = Nothing /\ toClient = <<>>
        /\ Request = Received(Sent(GetAuthScMessage(said.type, said.username, said.password)))
    BY <1>4, Zenon DEF AuthUnderWay, Request
  <2> QED
    BY <2>1, AuthRead
<1>5. ASSUME MessageUnderWay
      PROVE  /\ said \in Writings /\ heard = Nothing /\ toClient = <<>>
             /\ HasMessage(Request) /\ MessageIn(Request) = Arrived(said)
             /\ Request.type = MESSAGE
  <2>1. /\ said \in Writings /\ heard = Nothing /\ toClient = <<>>
        /\ Request = Received(Sent(GetMessageScMessage(said)))
    BY <1>5, Zenon DEF MessageUnderWay, Request
  <2>2. said = [username |-> said.username, time |-> said.time, text |-> said.text]
    BY <2>1 DEF Writings
  <2>3. /\ said \in WrittenMessages
        /\ ~Has(said.username, LF) /\ ~Has(said.username, US) /\ ~Has(said.text, US)
    BY <2>1, <2>2, WritingFacts
  <2> QED
    BY <2>1, <2>3, TalkRead
<1>6. \A r \in AuthRequests : r.type \in {LOGIN, REGISTER}
  BY DEF AuthRequests
<1>7. ~HasMessage(Invalid)
  BY DEF HasMessage
<1>8. LOGIN # MESSAGE /\ REGISTER # MESSAGE
  BY DEF LOGIN, REGISTER, MESSAGE
<1>9. CASE HandleAuth
  <2>1. AuthUnderWay
    BY <1>3, <1>5, <1>8, <1>9 DEF HandleAuth, IsAuthRequest
  <2>2. IsAuthOf(Request, said.type, said.username, said.password)
    BY <1>4, <1>9, <2>1 DEF HandleAuth, IsAuthRequest
  <2>3. /\ heard' = [type |-> said.type, username |-> said.username,
                     password |-> said.password]
        /\ toServer' = <<>> /\ toClient' = toClient /\ said' = said
    BY <1>9, <2>2, Zenon DEF HandleAuth, IsAuthOf
  <2>4. said = [type |-> said.type, username |-> said.username,
                password |-> said.password]
    BY <1>4, <2>1 DEF AuthRequests
  <2>5. AuthHeard'
    BY <1>4, <2>1, <2>3, <2>4, Zenon DEF AuthHeard
  <2> QED
    BY <2>5
<1>10. CASE HandleInvalid
  <2>1. AuthUnderWay
    BY <1>3, <1>5, <1>10 DEF HandleInvalid
  <2>2. ~IsAuthOf(Request, said.type, said.username, said.password)
    BY <1>4, <1>6, <1>10, <2>1 DEF HandleInvalid, IsAuthRequest, IsAuthOf
  <2>3. US \in ToSet(said.username \o said.password)
    BY <1>4, <2>1, <2>2, Zenon
  <2>4. /\ heard' = Invalid
        /\ toServer' = <<>> /\ toClient' = toClient /\ said' = said
    BY <1>10 DEF HandleInvalid
  <2>5. AuthHeard'
    BY <1>4, <2>1, <2>3, <2>4, Zenon DEF AuthHeard
  <2> QED
    BY <2>5
<1>11. ASSUME toServer # <<>>, HasMessage(Request) PROVE MessageUnderWay
  <2> SUFFICES ASSUME AuthUnderWay PROVE FALSE
    BY <1>3, <1>11
  <2>1. Request.type = MESSAGE /\ Request # Invalid
    BY <1>11 DEF HasMessage
  <2> QED
    BY <1>4, <1>6, <1>8, <2>1 DEF IsAuthOf
<1>12. ASSUME NEW now \in Instants, HandleMessage(now) PROVE TalkInv'
  <2>1. MessageUnderWay
    BY <1>11, <1>12 DEF HandleMessage
  <2>2. said \in Writings /\ heard = Nothing /\ MessageIn(Request) = Arrived(said)
    BY <1>5, <2>1
  <2>3. now \in Nat
    BY TextAssumption
  <2> DEFINE relayed == [username |-> said.username, time |-> now, text |-> said.text]
             s == [said EXCEPT !.time = now]
  <2>4. [Arrived(said) EXCEPT !.username = said.username, !.time = now] = relayed
    <3> DEFINE r == [Arrived(said) EXCEPT !.username = said.username]
    <3>1. r = [username |-> said.username, time |-> TimeOf(DateOf(said.time)),
               text |-> said.text]
      BY DEF Arrived
    <3> HIDE DEF r
    <3>2. [r EXCEPT !.time = now] = relayed
      BY <3>1
    <3> QED
      BY <3>2, Zenon DEF r
  <2>5. /\ s \in Writings /\ s.username = said.username
        /\ s.time = now /\ s.text = said.text
    BY <2>2, <2>3, Redated
  <2> HIDE DEF s
  <2>6. relayed = [username |-> s.username, time |-> s.time, text |-> s.text]
    BY <2>5, Zenon
  <2>7. [MessageIn(Request) EXCEPT !.username = said.username, !.time = now] = relayed
    BY <2>2, <2>4, Zenon
  <2> HIDE DEF relayed
  <2>8. /\ toClient' = Sent(GetMessageScMessage(relayed))
        /\ toServer' = <<>> /\ said' = s /\ heard' = heard
    BY <1>12, <2>7, Zenon DEF HandleMessage, s
  <2>9. MessageComesBack'
    BY <2>2, <2>5, <2>6, <2>8, Zenon DEF MessageComesBack
  <2> QED
    BY <2>9
<1>13. CASE RelayMessage
  <2>1. MessageUnderWay
    BY <1>11, <1>13 DEF RelayMessage
  <2>2. said \in Writings /\ heard = Nothing /\ MessageIn(Request) = Arrived(said)
    BY <1>5, <2>1
  <2> DEFINE now == TimeOf(DateOf(said.time))
             s == [said EXCEPT !.time = now]
  <2>3. now \in Nat
    BY <2>2, DateType DEF Writings
  <2>4. Arrived(said) = [username |-> UserOf(said), time |-> now, text |-> said.text]
    BY Zenon DEF Arrived
  <2>5. /\ toClient' = Sent(GetMessageScMessage(Arrived(said)))
        /\ toServer' = <<>> /\ said' = s /\ heard' = heard
    BY <1>13, <2>2, Zenon DEF RelayMessage
  <2> HIDE DEF now
  <2>6. /\ s \in Writings /\ UserOf(s) = UserOf(said)
        /\ s.time = now /\ s.text = said.text
    BY <2>2, <2>3, Redated
  <2> HIDE DEF s
  <2>7. Arrived(said) = [username |-> UserOf(s), time |-> s.time, text |-> s.text]
    BY <2>4, <2>6, Zenon
  <2>8. MessageComesBack'
    BY <2>2, <2>5, <2>6, <2>7, Zenon DEF MessageComesBack
  <2> QED
    BY <2>8
<1>14. CASE Handle
  <2>1. MessageComesBack
    BY <1>14 DEF Handle, Silence, AuthUnderWay, AuthHeard, MessageUnderWay, MessageHeard
  <2>2. said \in Writings /\ toServer = <<>>
    BY <2>1 DEF MessageComesBack
  <2>3. PICK user \in {said.username, UserOf(said)} :
          toClient = Sent(GetMessageScMessage(
                       [username |-> user, time |-> said.time, text |-> said.text]))
    BY <2>1, Zenon DEF MessageComesBack
  <2> DEFINE m == [username |-> user, time |-> said.time, text |-> said.text]
             msg == Received(toClient)
  <2>4. m = [username |-> user, time |-> said.time, text |-> said.text]
    OBVIOUS
  <2> HIDE DEF m
  <2>5. /\ m \in WrittenMessages
        /\ ~Has(m.username, LF) /\ ~Has(m.username, US) /\ ~Has(m.text, US)
        /\ Arrived(m) = Arrived(said)
    BY <2>2, <2>4, WritingFacts
  <2>6. msg = Received(Sent(GetMessageScMessage(m)))
    BY <2>3, Zenon DEF m
  <2> HIDE DEF msg
  <2>7. HasMessage(msg) /\ MessageIn(msg) = Arrived(said)
    BY <2>5, <2>6, TalkRead
  <2>8. /\ heard' = Arrived(said) /\ toClient' = <<>>
        /\ toServer' = toServer /\ said' = said
    BY <1>14, <2>7, Zenon DEF Handle, msg
  <2>9. MessageHeard'
    BY <2>2, <2>8, Zenon DEF MessageHeard
  <2> QED
    BY <2>9
<1>15. CASE UNCHANGED talkVars
  BY <1>15 DEF talkVars, Silence, AuthUnderWay, AuthHeard, MessageUnderWay,
               MessageComesBack, MessageHeard
<1> QED
  BY <1>1, <1>2, <1>9, <1>10, <1>12, <1>13, <1>14, <1>15 DEF TalkNext

LEMMA TalkInvariant == TalkSpec => []TalkInv
<1> QED
  BY TalkInitial, TalkPreserved, PTL DEF TalkSpec

(* For all names and passwords without white space, of any length: what    *)
(* HandleAuthScMessage gives to Login or Register is what was typed, or    *)
(* the message is none, and then only because of a US: from the invariant. *)
THEOREM TalkCredentials == TalkSpec => []CredentialsArrive
<1>1. TalkInv => CredentialsArrive
  BY NothingElse
     DEF TalkInv, CredentialsArrive, Silence, AuthUnderWay, AuthHeard,
         MessageUnderWay, MessageComesBack, MessageHeard
<1> QED
  BY <1>1, TalkInvariant, PTL

(* For all texts without a US, of any length, with line feeds, colons and  *)
(* spaces anywhere: what the handler of a client gets is what was typed,   *)
(* with the user's name and the date that the conversions make of it.      *)
THEOREM TalkTexts == TalkSpec => []TextArrives
<1>1. TalkInv => TextArrives
  BY NothingElse, Zenon
     DEF TalkInv, TextArrives, Silence, AuthUnderWay, AuthHeard,
         MessageUnderWay, MessageComesBack, MessageHeard, Arrived
<1> QED
  BY <1>1, TalkInvariant, PTL

=============================================================================
