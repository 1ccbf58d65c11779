-------------------------- MODULE ServerLifeProofs --------------------------
(***************************************************************************)
(* Theorems about ServerLife, for any table of users, any file of accounts *)
(* and any number of starts.                                               *)
(*                                                                         *)
(* The table: RepoInv is inductive.  It says what earlier starts can have  *)
(* left (rows with the two names of main), and what the names that Insert  *)
(* and Update got through tell about these rows at each stage.             *)
(*                                                                         *)
(* The accounts: what the destructor writes is what Setup reads, whatever  *)
(* the table holds.  The order of the names makes each of them a line, the *)
(* lines are found again, each gives its name and password back, and no    *)
(* file is longer than the one that is written over it, so that nothing of *)
(* it is left behind.  AccountsInv is inductive.                           *)
(***************************************************************************)
EXTENDS ServerLife, SeqLemmas

-----------------------------------------------------------------------------
(* The table of users *)

IsTable(t) == DOMAIN t \subseteq Ids /\ t \in [DOMAIN t -> Names]

(* Rows that earlier starts, or this one, put in the table. *)
Left == DOMAIN users \ DOMAIN before

RepoInv ==
  /\ stage \in Stages
  /\ IsTable(users) /\ IsTable(before)
  /\ OthersUntouched
  /\ \A id \in Left : users[id] \in {FirstName, SecondName}
  /\ stage \in {"update", "delete"} => userid \in Left
  /\ stage = "update" => \A id \in Left \ {userid} : users[id] = SecondName
  /\ stage = "delete" => Left = {userid}
  /\ ServesCleanTable

LEMMA WithRow ==
  ASSUME NEW t, IsTable(t), NEW id \in Ids, NEW n \in Names
  PROVE  /\ IsTable(With(t, id, n))
         /\ DOMAIN With(t, id, n) = DOMAIN t \cup {id}
         /\ With(t, id, n)[id] = n
         /\ \A other \in DOMAIN t \ {id} : With(t, id, n)[other] = t[other]
BY DEF With, IsTable

LEMMA WithoutRow ==
  ASSUME NEW t, IsTable(t), NEW id
  PROVE  /\ IsTable(Without(t, id))
         /\ DOMAIN Without(t, id) = DOMAIN t \ {id}
         /\ \A other \in DOMAIN t \ {id} : Without(t, id)[other] = t[other]
BY DEF Without, IsTable

LEMMA ChangedRow ==
  ASSUME NEW t, IsTable(t), NEW id \in DOMAIN t, NEW n \in Names
  PROVE  /\ IsTable([t EXCEPT ![id] = n])
         /\ DOMAIN [t EXCEPT ![id] = n] = DOMAIN t
         /\ [t EXCEPT ![id] = n][id] = n
         /\ \A other \in DOMAIN t \ {id} : [t EXCEPT ![id] = n][other] = t[other]
BY DEF IsTable

(* Tables with the same rows are the same. *)
LEMMA SameTable ==
  ASSUME NEW t, NEW u, IsTable(t), IsTable(u), DOMAIN t = DOMAIN u,
         \A id \in DOMAIN t : t[id] = u[id]
  PROVE  t = u
BY DEF IsTable

LEMMA RepoStarts == RepoInit => RepoInv
BY RepositoryAssumption
   DEF RepoInit, RepoInv, IsTable, Left, OthersUntouched, ServesCleanTable, Stages

(* Insert found no row with the first name, so what is left has the second *)
(* one.                                                                    *)
LEMMA InsertKeeps == RepoInv /\ Insert => RepoInv'
<1> SUFFICES ASSUME RepoInv, Insert PROVE RepoInv'
  OBVIOUS
<1> PICK id \in Ids \ DOMAIN users :
      users' = With(users, id, FirstName) /\ userid' = id
  BY DEF Insert, Identity
<1>1. stage' = "update" /\ before' = before /\ ~Taken(FirstName, 0)
  BY DEF Insert
<1>2. /\ IsTable(users') /\ IsTable(before)
      /\ DOMAIN users' = DOMAIN users \cup {id}
      /\ users'[id] = FirstName
      /\ \A other \in DOMAIN users : users'[other] = users[other]
  BY WithRow, RepositoryAssumption, SMTT(40) DEF RepoInv
<1>3. id \notin DOMAIN before
  BY DEF RepoInv, OthersUntouched
<1>4. \A other \in Left : users[other] = SecondName
  BY <1>1, RepositoryAssumption DEF RepoInv, Taken, Left, IsTable
<1>5. OthersUntouched'
  BY <1>1, <1>2 DEF RepoInv, OthersUntouched
<1>6. Left' = Left \cup {id} /\ id \in Left'
  BY <1>1, <1>2, <1>3 DEF Left
<1>7. \A other \in Left' \ {id} : users'[other] = SecondName
  BY <1>2, <1>4, <1>6 DEF Left
<1> QED
  BY <1>1, <1>2, <1>5, <1>6, <1>7 DEF RepoInv, Stages, ServesCleanTable, IsTable

(* Update found no row with the second name, so nothing else is left. *)
LEMMA UpdateKeeps == RepoInv /\ Update => RepoInv'
<1> SUFFICES ASSUME RepoInv, Update PROVE RepoInv'
  OBVIOUS
<1>1. /\ stage = "update" /\ stage' = "delete"
      /\ before' = before /\ userid' = userid
      /\ users' = [users EXCEPT ![userid] = SecondName]
      /\ ~Taken(SecondName, userid)
  BY DEF Update
<1>2. userid \in DOMAIN users /\ userid \notin DOMAIN before
  BY <1>1 DEF RepoInv, Left
<1>3. /\ IsTable(users') /\ IsTable(before)
      /\ DOMAIN users' = DOMAIN users
      /\ users'[userid] = SecondName
      /\ \A other \in DOMAIN users \ {userid} : users'[other] = users[other]
  BY <1>1, <1>2, ChangedRow, RepositoryAssumption DEF RepoInv
<1>4. Left = {userid}
  BY <1>1, <1>2 DEF RepoInv, Taken, Left
<1>5. OthersUntouched'
  BY <1>1, <1>2, <1>3 DEF RepoInv, OthersUntouched
<1>6. Left' = Left
  BY <1>1, <1>3 DEF Left
<1> QED
  BY <1>1, <1>3, <1>4, <1>5, <1>6 DEF RepoInv, Stages, ServesCleanTable, IsTable

LEMMA DeleteKeeps == RepoInv /\ Delete => RepoInv'
<1> SUFFICES ASSUME RepoInv, Delete PROVE RepoInv'
  OBVIOUS
<1>1. /\ stage = "delete" /\ stage' = "setup"
      /\ before' = before /\ users' = Without(users, userid)
  BY DEF Delete, Deleted
<1>2. Left = {userid} /\ DOMAIN before \subseteq DOMAIN users
  BY <1>1 DEF RepoInv, OthersUntouched
<1>3. /\ IsTable(users') /\ IsTable(before)
      /\ DOMAIN users' = DOMAIN users \ {userid}
      /\ \A other \in DOMAIN users \ {userid} : users'[other] = users[other]
  BY <1>1, WithoutRow DEF RepoInv
<1>4. DOMAIN users' = DOMAIN before
  BY <1>2, <1>3 DEF Left
<1>5. \A id \in DOMAIN users' : users'[id] = before[id]
  BY <1>3, <1>4 DEF RepoInv, OthersUntouched
<1>6. users' = before
  BY <1>3, <1>4, <1>5, SameTable
<1> QED
  BY <1>1, <1>3, <1>6
     DEF RepoInv, Stages, ServesCleanTable, IsTable, OthersUntouched, Left

LEMMA RepoKeeps ==
  RepoInv /\ [LifeNext]_<<vars, repoVars>> => RepoInv'
<1> SUFFICES ASSUME RepoInv, [LifeNext]_<<vars, repoVars>> PROVE RepoInv'
  OBVIOUS
<1> USE DEF RepoInv, Left, OthersUntouched, ServesCleanTable, Stages, IsTable
<1>1. CASE Connect
  BY <1>1 DEF Connect
<1>2. CASE ReadById
  BY <1>2 DEF ReadById
<1>3. CASE Insert
  BY <1>3, InsertKeeps
<1>4. CASE Update
  BY <1>4, UpdateKeeps
<1>5. CASE Delete
  BY <1>5, DeleteKeeps
<1>6. CASE Abort
  BY <1>6 DEF Abort
<1>7. CASE SetUp
  BY <1>7 DEF SetUp
<1>8. CASE UNCHANGED repoVars
  BY <1>8 DEF repoVars
<1> QED
  BY <1>1, <1>2, <1>3, <1>4, <1>5, <1>6, <1>7, <1>8
     DEF LifeNext, StartUp, RepoNext, Serve, Stop, StartFails

(* What starts can have left in the table, at every stage of a start.      *)
THEOREM RepoInvariance == LifeSpec => []RepoInv
<1>1. LifeInit => RepoInv
  BY RepoStarts DEF LifeInit
<1> QED
  BY <1>1, RepoKeeps, PTL DEF LifeSpec

(* No start of the server changes or deletes a row of the table of users   *)
(* that is not its own.                                                    *)
THEOREM RowsUntouched == LifeSpec => []OthersUntouched
<1>1. RepoInv => OthersUntouched
  BY DEF RepoInv
<1> QED
  BY <1>1, RepoInvariance, PTL

(* A server that serves has left nothing in the table of users.            *)
THEOREM CleanTableServed == LifeSpec => []ServesCleanTable
<1>1. RepoInv => ServesCleanTable
  BY DEF RepoInv
<1> QED
  BY <1>1, RepoInvariance, PTL

-----------------------------------------------------------------------------
(* The order of names *)

Strings == Seq(Nat)

(* u and v agree up to place k, and there u ends or has the smaller        *)
(* character.                                                              *)
PartsAfter(u, v, k) ==
  /\ k <= Len(u) /\ k < Len(v)
  /\ \A j \in 1..k : u[j] = v[j]
  /\ k = Len(u) \/ u[k + 1] < v[k + 1]

LEMMA BeforeParts ==
  ASSUME NEW u \in Strings, NEW v \in Strings
  PROVE  Before(u, v) <=> \E k \in Nat : PartsAfter(u, v, k)
<1>1. Len(u) \in Nat /\ Len(v) \in Nat
  BY DEF Strings
<1>2. ASSUME IsStrictPrefix(u, v) PROVE PartsAfter(u, v, Len(u))
  <2>1. Len(u) <= Len(v) /\ SubSeq(u, 1, Len(u)) = SubSeq(v, 1, Len(u)) /\ u # v
    BY <1>2 DEF IsStrictPrefix, IsPrefix
  <2>2. \A j \in 1..Len(u) : u[j] = v[j]
    <3> DEFINE x == SubSeq(u, 1, Len(u))
               y == SubSeq(v, 1, Len(u))
    <3>1. \A j \in 1..Len(u) : x[j] = u[j] /\ y[j] = v[j]
      BY <1>1, <2>1 DEF Strings
    <3>2. x = y
      BY <2>1
    <3> HIDE DEF x, y
    <3> QED
      BY <3>1, <3>2
  <2>3. Len(u) # Len(v)
    BY <1>1, <2>1, <2>2, SeqEqual DEF Strings
  <2> QED
    BY <1>1, <2>1, <2>2, <2>3 DEF PartsAfter
<1>3. ASSUME NEW i \in 1..Len(u), i <= Len(v), u[i] < v[i],
             \A j \in 1 .. i - 1 : u[j] = v[j]
      PROVE  PartsAfter(u, v, i - 1) /\ i - 1 \in Nat
  BY <1>1, <1>3 DEF PartsAfter
<1>4. ASSUME NEW k \in Nat, PartsAfter(u, v, k), k = Len(u)
      PROVE  IsStrictPrefix(u, v)
  <2>1. Len(u) <= Len(v) /\ u # v /\ \A j \in 1..Len(u) : u[j] = v[j]
    BY <1>1, <1>4 DEF PartsAfter
  <2> DEFINE x == SubSeq(u, 1, Len(u))
             y == SubSeq(v, 1, Len(u))
  <2>2. /\ x \in Strings /\ Len(x) = Len(u) /\ y \in Strings /\ Len(y) = Len(u)
        /\ \A j \in 1..Len(u) : x[j] = u[j] /\ y[j] = v[j]
    BY <1>1, <2>1 DEF Strings
  <2> HIDE DEF x, y
  <2>3. x = y
    BY <2>1, <2>2, SeqEqual DEF Strings
  <2> QED
    BY <2>1, <2>3 DEF IsStrictPrefix, IsPrefix, x, y
<1>5. ASSUME NEW k \in Nat, PartsAfter(u, v, k), k # Len(u)
      PROVE  \E i \in 1..Len(u) : /\ i <= Len(v) /\ u[i] < v[i]
                                  /\ \A j \in 1 .. i - 1 : u[j] = v[j]
  <2> DEFINE i == k + 1
  <2>1. i \in 1..Len(u) /\ i <= Len(v) /\ i - 1 = k /\ u[i] < v[i]
    BY <1>1, <1>5 DEF PartsAfter
  <2>2. \A j \in 1 .. i - 1 : u[j] = v[j]
    BY <1>5, <2>1 DEF PartsAfter
  <2> HIDE DEF i
  <2> QED
    BY <2>1, <2>2
<1> QED
  BY <1>1, <1>2, <1>3, <1>4, <1>5, Zenon DEF Before

LEMMA BeforeIrreflexive == ASSUME NEW u \in Strings PROVE ~Before(u, u)
<1>1. Len(u) \in Nat /\ \A i \in 1..Len(u) : u[i] \in Nat
  BY DEF Strings
<1>2. ASSUME NEW k \in Nat, PartsAfter(u, u, k) PROVE FALSE
  <2>1. k + 1 \in 1..Len(u)
    BY <1>1, <1>2 DEF PartsAfter
  <2> QED
    BY <1>1, <1>2, <2>1 DEF PartsAfter
<1> QED
  BY <1>2, BeforeParts

LEMMA BeforeTransitive ==
  ASSUME NEW u \in Strings, NEW v \in Strings, NEW w \in Strings,
         Before(u, v), Before(v, w)
  PROVE  Before(u, w)
<1>1. /\ Len(u) \in Nat /\ Len(v) \in Nat /\ Len(w) \in Nat
      /\ \A i \in 1..Len(u) : u[i] \in Nat
      /\ \A i \in 1..Len(v) : v[i] \in Nat
      /\ \A i \in 1..Len(w) : w[i] \in Nat
  BY DEF Strings
<1>2. PICK k \in Nat : PartsAfter(u, v, k)
  BY BeforeParts
<1>3. PICK l \in Nat : PartsAfter(v, w, l)
  BY BeforeParts
<1>4. CASE k < l
  <2>1. PartsAfter(u, w, k)
    BY <1>1, <1>2, <1>3, <1>4 DEF PartsAfter
  <2> QED
    BY <2>1, BeforeParts
<1>5. CASE l < k
  <2>1. PartsAfter(u, w, l)
    BY <1>1, <1>2, <1>3, <1>5 DEF PartsAfter
  <2> QED
    BY <2>1, BeforeParts
<1>6. CASE k = l
  <2>1. PartsAfter(u, w, k)
    BY <1>1, <1>2, <1>3, <1>6 DEF PartsAfter
  <2> QED
    BY <2>1, BeforeParts
<1> QED
  BY <1>4, <1>5, <1>6

LEMMA BeforeTotal ==
  ASSUME NEW u \in Strings, NEW v \in Strings, u # v
  PROVE  Before(u, v) \/ Before(v, u)
<1>1. /\ Len(u) \in Nat /\ Len(v) \in Nat
      /\ \A i \in 1..Len(u) : u[i] \in Nat
      /\ \A i \in 1..Len(v) : v[i] \in Nat
  BY DEF Strings
<1> DEFINE P(i) == i = Len(u) + 1 \/ i = Len(v) + 1 \/ u[i] # v[i]
           B == {i \in Nat \ {0} : i <= Len(u) + 1 /\ i <= Len(v) + 1 /\ P(i)}
<1>2. B # {}
  <2> DEFINE n == IF Len(u) < Len(v) THEN Len(u) + 1 ELSE Len(v) + 1
  <2>1. n \in B
    BY <1>1
  <2> QED
    BY <2>1
<1>3. PICK m \in B : \A i \in B : m <= i
  <2>1. B \in SUBSET Nat
    OBVIOUS
  <2> HIDE DEF B
  <2> QED
    BY <1>2, <2>1, LeastNat
<1> DEFINE k == m - 1
<1>4. /\ k \in Nat /\ m = k + 1 /\ k <= Len(u) /\ k <= Len(v)
      /\ P(m)
  BY <1>1, <1>3
<1>5. \A j \in 1..k : u[j] = v[j]
  <2> TAKE j \in 1..k
  <2>1. j \notin B
    BY <1>3, <1>4
  <2>2. j \in Nat \ {0} /\ j <= Len(u) /\ j <= Len(v)
    BY <1>1, <1>4
  <2> QED
    BY <1>1, <2>1, <2>2
<1> HIDE DEF k, B
<1>6. CASE k = Len(u)
  <2>1. k # Len(v)
    BY <1>1, <1>5, <1>6, SeqEqual DEF Strings
  <2>2. PartsAfter(u, v, k)
    BY <1>1, <1>4, <1>5, <1>6, <2>1 DEF PartsAfter
  <2> QED
    BY <1>4, <2>2, BeforeParts
<1>7. CASE k = Len(v) /\ k # Len(u)
  <2>1. PartsAfter(v, u, k)
    BY <1>1, <1>4, <1>5, <1>7 DEF PartsAfter
  <2> QED
    BY <1>4, <2>1, BeforeParts
<1>8. CASE k # Len(v) /\ k # Len(u)
  <2>1. /\ k < Len(u) /\ k < Len(v) /\ u[k + 1] # v[k + 1]
        /\ u[k + 1] \in Nat /\ v[k + 1] \in Nat
    BY <1>1, <1>4, <1>8
  <2>2. PartsAfter(u, v, k) \/ PartsAfter(v, u, k)
    BY <1>1, <1>4, <1>5, <2>1 DEF PartsAfter
  <2> QED
    BY <1>4, <2>2, BeforeParts
<1> QED
  BY <1>6, <1>7, <1>8

-----------------------------------------------------------------------------
(* The keys of a std::map: every name once, in order. *)

Sorted(keys, n) == \A i, j \in 1..n : i < j => Before(keys[i], keys[j])

(* The greatest of finitely many names. *)
LEMMA LastName ==
  ASSUME NEW S, IsFiniteSet(S), S \subseteq Strings, S # {}
  PROVE  \E m \in S : \A u \in S \ {m} : Before(u, m)
<1> DEFINE HasLast(s) == \E m \in s : \A u \in s \ {m} : Before(u, m)
           T == {s \in SUBSET S : s = {} \/ HasLast(s)}
<1>1. {} \in T
  OBVIOUS
<1>2. ASSUME NEW s \in SUBSET S, NEW x \in s, s \ {x} \in T PROVE HasLast(s)
  <2>1. CASE s \ {x} = {}
    BY <2>1
  <2>2. CASE HasLast(s \ {x})
    <3>1. PICK m \in s \ {x} : \A u \in (s \ {x}) \ {m} : Before(u, m)
      BY <2>2
    <3>2. m \in Strings /\ x \in Strings /\ m # x /\ s \in SUBSET Strings
      BY <3>1
    <3>3. CASE Before(x, m)
      <4>1. \A u \in s \ {m} : Before(u, m)
        BY <3>1, <3>3
      <4> QED
        BY <3>1, <4>1
    <3>4. CASE Before(m, x)
      <4>1. ASSUME NEW u \in s \ {x} PROVE Before(u, x)
        <5>1. u = m \/ Before(u, m)
          BY <3>1
        <5>2. u \in Strings
          BY <3>2
        <5> QED
          BY <3>2, <3>4, <5>1, <5>2, BeforeTransitive
      <4> QED
        BY <4>1
    <3> QED
      BY <3>2, <3>3, <3>4, BeforeTotal
  <2> QED
    BY <1>2, <2>1, <2>2
<1>3. \A s \in SUBSET S : s # {} => ((\A x \in s : s \ {x} \in T) => s \in T)
  BY <1>2
<1>4. S \in T
  <2> HIDE DEF T
  <2> QED BY <1>1, <1>3, SubsetInduction
<1> QED
  BY <1>4

(* There is a way to put names in order.                                   *)
LEMMA SortedExists ==
  ASSUME NEW S, IsFiniteSet(S), S \subseteq Strings
  PROVE  \E keys \in [1..Cardinality(S) -> S] : Sorted(keys, Cardinality(S))
<1> DEFINE Has(s) == \E keys \in [1..Cardinality(s) -> s] :
                       Sorted(keys, Cardinality(s))
           T == {s \in SUBSET S : Has(s)}
<1>1. {} \in T
  <2> DEFINE k == [i \in {} |-> 0]
  <2>1. Cardinality({}) = 0 /\ 1..0 = {}
    BY FS_EmptySet
  <2>2. k \in [1..0 -> {}] /\ Sorted(k, 0)
    BY <2>1 DEF Sorted
  <2> QED
    BY <2>1, <2>2
<1>2. ASSUME NEW s \in SUBSET S, s # {}, \A x \in s : s \ {x} \in T
      PROVE  Has(s)
  <2> DEFINE n == Cardinality(s)
  <2>1. IsFiniteSet(s) /\ s \subseteq Strings /\ n \in Nat /\ n # 0
    BY <1>2, PartSet
  <2>2. PICK m \in s : \A u \in s \ {m} : Before(u, m)
    BY <1>2, <2>1, LastName
  <2>3. Cardinality(s \ {m}) = n - 1
    BY PartSet
  <2> HIDE DEF n
  <2>4. PICK keys \in [1 .. n - 1 -> s \ {m}] : Sorted(keys, n - 1)
    BY <1>2, <2>3
  <2> DEFINE all == [i \in 1..n |-> IF i = n THEN m ELSE keys[i]]
  <2>5. \A i \in 1 .. n - 1 : all[i] = keys[i] /\ keys[i] \in s \ {m}
    BY <2>1
  <2>6. all \in [1..n -> s] /\ all[n] = m
    BY <2>1
  <2> HIDE DEF all
  <2>7. ASSUME NEW i \in 1..n, NEW j \in 1..n, i < j
        PROVE  Before(all[i], all[j])
    <3>1. i \in 1 .. n - 1
      BY <2>1, <2>7
    <3>2. CASE j = n
      BY <2>2, <2>5, <2>6, <3>1, <3>2
    <3>3. CASE j # n
      <4>1. j \in 1 .. n - 1
        BY <2>1, <3>3
      <4> QED
        BY <2>4, <2>5, <2>7, <3>1, <4>1 DEF Sorted
    <3> QED
      BY <3>2, <3>3
  <2>8. Sorted(all, n)
    BY <2>7 DEF Sorted
  <2> QED
    BY <2>6, <2>8 DEF n
<1>3. \A s \in SUBSET S : s # {} => ((\A x \in s : s \ {x} \in T) => s \in T)
  BY <1>2
<1>4. S \in T
  <2> HIDE DEF T
  <2> QED BY <1>1, <1>3, SubsetInduction
<1> QED
  BY <1>4

(* Names in order are different, and none is missing.                      *)
LEMMA SortedOnce ==
  ASSUME NEW S, IsFiniteSet(S), S \subseteq Strings,
         NEW keys \in [1..Cardinality(S) -> S], Sorted(keys, Cardinality(S))
  PROVE  /\ \A i, j \in 1..Cardinality(S) : keys[i] = keys[j] => i = j
         /\ \A u \in S : \E i \in 1..Cardinality(S) : keys[i] = u
<1> DEFINE n == Cardinality(S)
<1>1. n \in Nat
  BY FS_CardinalityType
<1> HIDE DEF n
<1>2. keys \in [1..n -> S] /\ Sorted(keys, n)
  BY DEF n
<1>3. ASSUME NEW i \in 1..n, NEW j \in 1..n, i # j PROVE keys[i] # keys[j]
  <2>1. \A x \in 1..n : keys[x] \in Strings /\ ~Before(keys[x], keys[x])
    BY <1>2, BeforeIrreflexive
  <2>2. Before(keys[i], keys[j]) \/ Before(keys[j], keys[i])
    <3>1. i < j \/ j < i
      BY <1>1, <1>3
    <3> QED
      BY <1>2, <3>1 DEF Sorted
  <2> QED
    BY <2>1, <2>2
<1>4. ASSUME NEW u \in S, \A i \in 1..n : keys[i] # u PROVE FALSE
  <2>1. keys \in [1..n -> S \ {u}]
    BY <1>2, <1>4
  <2>2. IsFiniteSet(S \ {u}) /\ Cardinality(S \ {u}) = n - 1
    BY PartSet DEF n
  <2>3. IsFiniteSet(1..n) /\ Cardinality(1..n) = n
    BY <1>1, FS_Interval
  <2>4. Cardinality(S \ {u}) < Cardinality(1..n)
    BY <1>1, <2>2, <2>3
  <2>5. \E x, y \in 1..n : x # y /\ keys[x] = keys[y]
    BY <2>1, <2>2, <2>3, <2>4, FS_PigeonHole
  <2> QED
    BY <1>3, <2>5
<1> QED
  BY <1>3, <1>4 DEF n

LEMMA KeysSorted ==
  ASSUME NEW S, IsFiniteSet(S), S \subseteq Strings
  PROVE  /\ Keys(S, Before) \in [1..Cardinality(S) -> S]
         /\ Sorted(Keys(S, Before), Cardinality(S))
<1> DEFINE P(keys) == \A i, j \in 1..Cardinality(S) :
                        i < j => Before(keys[i], keys[j])
           F == [1..Cardinality(S) -> S]
<1>1. \E keys \in F : P(keys)
  BY SortedExists DEF Sorted
<1>2. Keys(S, Before) = CHOOSE keys \in F : P(keys)
  BY Zenon DEF Keys
<1> HIDE DEF P, F
<1>3. Keys(S, Before) \in F /\ P(Keys(S, Before))
  BY <1>1, <1>2
<1> QED
  BY <1>3 DEF P, F, Sorted

-----------------------------------------------------------------------------
(* A line of the file *)

Chars == Letters \cup {LF, Space}

Body(u, p) == u \o <<Space>> \o p

LEMMA CharsAre ==
  /\ LF \in Chars /\ Space \in Chars /\ LF # Space
  /\ Letters \subseteq Chars /\ Chars \subseteq Nat
  /\ LF \notin Letters /\ Space \notin Letters
BY CharactersAssumption DEF Chars, LF, Space

LEMMA WiderSeq ==
  ASSUME NEW S, NEW T, S \subseteq T, NEW s \in Seq(S)
  PROVE  s \in Seq(T)
OBVIOUS

LEMMA BodyIs ==
  ASSUME NEW u \in Seq(Letters), NEW p \in Seq(Letters)
  PROVE  /\ Body(u, p) \in Seq(Chars)
         /\ Len(Body(u, p)) = Len(u) + Len(p) + 1
         /\ \A i \in 1..Len(u) : Body(u, p)[i] = u[i]
         /\ Body(u, p)[Len(u) + 1] = Space
         /\ \A i \in 1..Len(p) : Body(u, p)[Len(u) + 1 + i] = p[i]
         /\ \A i \in 1..Len(Body(u, p)) :
              Body(u, p)[i] # LF /\ (Body(u, p)[i] = Space <=> i = Len(u) + 1)
<1> DEFINE l == u \o <<Space>>
           b == l \o p
           k == Len(u) + 1
<1>1. u \in Seq(Chars) /\ p \in Seq(Chars) /\ <<Space>> \in Seq(Chars)
  <2>1. u \in Seq(Chars) /\ p \in Seq(Chars)
    BY CharsAre, WiderSeq
  <2>2. <<Space>> \in Seq(Chars)
    BY CharsAre
  <2> QED
    BY <2>1, <2>2
<1>2. /\ l \in Seq(Chars) /\ Len(l) = k /\ k \in Nat /\ Len(p) \in Nat
      /\ \A i \in 1..Len(u) : l[i] = u[i]
      /\ l[k] = Space
  BY <1>1
<1> HIDE DEF l
<1>3. /\ b \in Seq(Chars) /\ Len(b) = k + Len(p)
      /\ \A i \in 1..k : b[i] = l[i]
      /\ \A i \in 1..Len(p) : b[k + i] = p[i]
  BY <1>1, <1>2
<1>4. Body(u, p) = b
  BY Zenon DEF Body, b, l
<1> HIDE DEF b
<1>5. \A i \in 1..Len(b) : b[i] # LF /\ (b[i] = Space <=> i = k)
  <2> TAKE i \in 1..Len(b)
  <2>1. CASE i = k
    BY <1>2, <1>3, <2>1, CharsAre
  <2>2. CASE i < k
    <3>1. i \in 1..Len(u) /\ i \in 1..k
      BY <1>2, <1>3, <2>2
    <3>2. b[i] = u[i] /\ u[i] \in Letters
      BY <1>2, <1>3, <3>1
    <3> QED
      BY <2>2, <3>2, CharsAre
  <2>3. CASE i > k
    <3> DEFINE j == i - k
    <3>1. j \in 1..Len(p) /\ i = k + j
      BY <1>2, <1>3, <2>3
    <3>2. b[i] = p[j] /\ p[j] \in Letters
      BY <1>3, <3>1
    <3> QED
      BY <1>2, <2>3, <3>2, CharsAre
  <2> QED
    BY <1>2, <1>3, <2>1, <2>2, <2>3
<1> QED
  BY <1>2, <1>3, <1>4, <1>5

(* Which name and password a line is read as. *)
IsReadAs(line, u, p) ==
  NameOf(line) = u /\ PasswordOf(line) = p /\ Cardinality(Spaces(line)) <= 1

LEMMA BodyRead ==
  ASSUME NEW u \in Seq(Letters), NEW p \in Seq(Letters)
  PROVE  IsReadAs(Body(u, p), u, p)
<1> DEFINE b == Body(u, p)
           k == Len(u) + 1
           n == Len(b)
<1>1. /\ b \in Seq(Chars) /\ n = k + Len(p) /\ k \in 1..n /\ Len(u) \in Nat
      /\ \A i \in 1..Len(u) : b[i] = u[i]
      /\ b[k] = Space
      /\ \A i \in 1..Len(p) : b[k + i] = p[i]
      /\ \A i \in 1..n : b[i] = Space <=> i = k
  <2>1. Len(u) \in Nat /\ Len(p) \in Nat
    OBVIOUS
  <2> QED
    BY <2>1, BodyIs
<1> HIDE DEF b
<1>2. DOMAIN b = 1..n /\ n \in Nat /\ Len(p) \in Nat
  BY <1>1
<1>3. Spaces(b) = {k}
  BY <1>1, <1>2 DEF Spaces
<1>4. Cardinality({k}) = 1
  BY FS_Singleton
<1>5. SpaceIndex(b) = k
  <2>1. \A i \in 1 .. k - 1 : b[i] # Space
    BY <1>1
  <2> QED
    BY <1>1, <2>1, FindFirst DEF SpaceIndex
<1>6. SubSeq(b, 1, k - 1) = u
  <2> DEFINE x == SubSeq(b, 1, k - 1)
  <2>1. 1 \in 1 .. n + 1 /\ k - 1 \in 0..n /\ k - 1 = Len(u)
    BY <1>1, <1>2
  <2>2. /\ x \in Seq(Chars) /\ Len(x) = Len(u)
        /\ \A i \in 1..Len(u) : x[i] = b[i]
    BY <1>1, <2>1
  <2>3. u \in Seq(Chars)
    BY CharsAre, WiderSeq
  <2> HIDE DEF x
  <2>4. x = u
    BY <1>1, <2>2, <2>3, SeqEqual
  <2> QED
    BY <2>4 DEF x
<1>7. SubSeq(b, k + 1, n) = p
  <2> DEFINE x == SubSeq(b, k + 1, n)
  <2>1. k + 1 \in 1 .. n + 1 /\ n \in 0..n
    BY <1>1, <1>2
  <2>2. /\ x \in Seq(Chars) /\ Len(x) = Len(p)
        /\ \A i \in 1..Len(p) : x[i] = b[k + i]
    BY <1>1, <1>2, <2>1
  <2>3. p \in Seq(Chars)
    BY CharsAre, WiderSeq
  <2> HIDE DEF x
  <2>4. x = p
    BY <1>1, <2>2, <2>3, SeqEqual
  <2> QED
    BY <2>4 DEF x
<1>8. NameOf(b) = u
  BY <1>3, <1>5, <1>6, Zenon DEF NameOf
<1>9. PasswordOf(b) = p
  BY <1>5, <1>7, Zenon DEF PasswordOf
<1> QED
  BY <1>3, <1>4, <1>8, <1>9 DEF IsReadAs, b

(* A line without a space. *)
LEMMA BareRead == ASSUME NEW u \in Seq(Letters) PROVE IsReadAs(u, u, u)
<1>1. \A i \in 1..Len(u) : u[i] # Space
  <2>1. \A i \in 1..Len(u) : u[i] \in Letters
    OBVIOUS
  <2> QED
    BY <2>1, CharsAre
<1>2. DOMAIN u = 1..Len(u) /\ Len(u) \in Nat
  OBVIOUS
<1>3. Spaces(u) = {}
  BY <1>1, <1>2 DEF Spaces
<1>4. Cardinality({}) = 0
  BY FS_EmptySet
<1>5. SpaceIndex(u) = 0
  BY <1>1, FindPlace DEF SpaceIndex
<1>6. SubSeq(u, 0 + 1, Len(u)) = u
  BY SubSeqFull
<1>7. NameOf(u) = u
  BY <1>3, Zenon DEF NameOf
<1>8. PasswordOf(u) = u
  BY <1>5, <1>6, Zenon DEF PasswordOf
<1> QED
  BY <1>3, <1>4, <1>7, <1>8 DEF IsReadAs

-----------------------------------------------------------------------------
(* Reading the file, line after line *)

AddLine(table, line) == WithAccount(table, NameOf(line), PasswordOf(line))

(* The fold of MapAuthInfoStr over the places s of the lines. *)
TableFrom(lines, s, read) ==
  IF s = {} THEN NoAccounts
  ELSE AddLine(read[s \ {Max(s)}], lines[Max(s)])

ReadTable(lines) ==
  CHOOSE read : read = [s \in SUBSET DOMAIN lines |-> TableFrom(lines, s, read)]

(* Tables of anything that can stand in a file. *)
AnyTables == [Users -> Seq(Nat) \cup {NoPassword}]

LEMMA AddLineType ==
  ASSUME NEW table \in AnyTables, NEW line \in Strings
  PROVE  AddLine(table, line) \in AnyTables
<1>1. SpaceIndex(line) \in 0..Len(line) /\ Len(line) \in Nat
  BY FindPlace DEF SpaceIndex, Strings
<1>2. SpaceIndex(line) + 1 \in 1 .. Len(line) + 1 /\ Len(line) \in 0..Len(line)
  BY <1>1
<1>3. PasswordOf(line) \in Seq(Nat)
  BY <1>2, PartSeq, Zenon DEF PasswordOf, Strings
<1> HIDE DEF Strings
<1> QED
  BY <1>3 DEF AddLine, WithAccount, AnyTables

LEMMA TableDefined ==
  ASSUME NEW text, NEW lines \in Seq(Strings), lines = Split(text, LF)
  PROVE  /\ MapAuthInfoStr(text) = ReadTable(lines)[1..Len(lines)]
         /\ \A s \in SUBSET (1..Len(lines)) :
              ReadTable(lines)[s] = TableFrom(lines, s, ReadTable(lines))
<1> DEFINE P == 1..Len(lines)
           D == SUBSET P
           X == AnyTables
           N == Cardinality(P)
           rank == [s \in D |-> Cardinality(s)]
           G == [a \in D \X [D -> X] |-> TableFrom(lines, a[1], a[2])]
<1>1. DOMAIN lines = P /\ Len(lines) \in Nat /\ IsFiniteSet(P)
  BY FS_Interval
<1>n. NoAccounts \in X
  BY DEF NoAccounts, AnyTables
<1>2. N \in Nat /\ X # {}
  BY <1>1, <1>n, FS_CardinalityType
<1>3. rank \in [D -> 0..N]
  BY <1>1, PartSet, FS_CardinalityType
<1>4. ASSUME NEW s \in D, s # {}
      PROVE  /\ Max(s) \in P /\ s \ {Max(s)} \in D
             /\ rank[s \ {Max(s)}] < rank[s]
  <2> DEFINE m == Max(s)
  <2>1. s \in SUBSET (0..Len(lines))
    BY <1>1
  <2>2. m \in s
    BY <1>1, <1>4, <2>1, MaxNat
  <2> HIDE DEF m
  <2>3. Cardinality(s \ {m}) = Cardinality(s) - 1 /\ Cardinality(s) \in Nat
    BY <1>1, <2>2, PartSet
  <2>4. m \in P /\ s \ {m} \in D /\ rank[s \ {m}] < rank[s]
    BY <2>2, <2>3
  <2> QED
    BY <2>4 DEF m
<1> HIDE DEF rank
<1>5. \A i \in P : lines[i] \in Strings
  OBVIOUS
<1> HIDE DEF D, P
<1>6. ASSUME NEW s \in D, NEW f \in [D -> X]
      PROVE  TableFrom(lines, s, f) \in X
  <2>1. CASE s = {}
    BY <1>n, <2>1 DEF TableFrom
  <2>2. CASE s # {}
    <3>1. f[s \ {Max(s)}] \in X /\ lines[Max(s)] \in Strings
      BY <1>4, <1>5, <2>2
    <3>2. AddLine(f[s \ {Max(s)}], lines[Max(s)]) \in X
      BY <3>1, AddLineType
    <3> QED
      BY <2>2, <3>2 DEF TableFrom
  <2> QED
    BY <2>1, <2>2
<1> HIDE DEF X, N
<1>7. G \in [D \X [D -> X] -> X]
  BY <1>6
<1>8. ASSUME NEW s \in D, NEW f \in [D -> X], NEW g \in [D -> X],
             \A e \in D : rank[e] < rank[s] => f[e] = g[e]
      PROVE  G[<<s, f>>] = G[<<s, g>>]
  <2>1. TableFrom(lines, s, f) = TableFrom(lines, s, g)
    BY <1>4, <1>8 DEF TableFrom
  <2> QED
    BY <2>1
<1>9. PICK f \in [D -> X] : \A s \in D : f[s] = G[<<s, f>>]
  <2> HIDE DEF G
  <2>1. \A s \in D : \A f, g \in [D -> X] :
          (\A e \in D : rank[e] < rank[s] => f[e] = g[e])
            => G[<<s, f>>] = G[<<s, g>>]
    BY <1>8
  <2>2. IsRecursion(D, X, N, rank, G)
    BY <1>2, <1>3, <1>7, <2>1 DEF IsRecursion
  <2> QED
    BY ONLY <2>2, RankedRecursion
<1> DEFINE E(r) == r = [s \in D |-> TableFrom(lines, s, r)]
<1>10. E(f)
  <2>1. \A s \in D : G[<<s, f>>] = TableFrom(lines, s, f)
    OBVIOUS
  <2> QED
    BY <2>1, <1>9
<1>11. ReadTable(lines) = CHOOSE r : E(r)
  BY <1>1 DEF ReadTable, D
<1> HIDE DEF E
<1>12. E(ReadTable(lines))
  BY <1>10, <1>11
<1>13. \A s \in SUBSET (1..Len(lines)) :
         ReadTable(lines)[s] = TableFrom(lines, s, ReadTable(lines))
  BY <1>12 DEF E, D, P
<1>14. MapAuthInfoStr(text) = ReadTable(lines)[DOMAIN lines]
  BY DEF MapAuthInfoStr, FoldLeft, MapThenFoldSet, ReadTable, TableFrom, AddLine
<1> QED
  BY <1>1, <1>13, <1>14 DEF P

(* h[i] is the table after i lines. *)
LEMMA TableRead ==
  ASSUME NEW text, NEW lines \in Seq(Strings), lines = Split(text, LF),
         NEW h, h[0] = NoAccounts,
         \A i \in 1..Len(lines) : h[i] = AddLine(h[i - 1], lines[i])
  PROVE  MapAuthInfoStr(text) = h[Len(lines)]
<1> DEFINE R == ReadTable(lines)
           T == {n \in Nat : n <= Len(lines) => R[1..n] = h[n]}
<1>1. Len(lines) \in Nat
  OBVIOUS
<1>2. \A s \in SUBSET (1..Len(lines)) : R[s] = TableFrom(lines, s, R)
  BY TableDefined
<1> HIDE DEF R
<1>3. 0 \in T
  <2>1. 1..0 = {} /\ {} \in SUBSET (1..Len(lines))
    OBVIOUS
  <2>2. R[1..0] = NoAccounts
    BY <2>1, <1>2 DEF TableFrom
  <2> QED
    BY <2>2
<1>4. ASSUME NEW n \in Nat, n \in T PROVE n + 1 \in T
  <2> SUFFICES ASSUME n + 1 <= Len(lines) PROVE R[1 .. n + 1] = h[n + 1]
    OBVIOUS
  <2>1. /\ n + 1 \in Nat \ {0} /\ n + 1 \in 1..Len(lines) /\ (n + 1) - 1 = n
        /\ 1 .. n + 1 \in SUBSET (1..Len(lines))
    BY <1>1
  <2>2. R[1 .. n + 1] = TableFrom(lines, 1 .. n + 1, R)
    BY <1>2, <2>1
  <2>3. /\ 1 .. n + 1 # {} /\ Max(1 .. n + 1) = n + 1
        /\ (1 .. n + 1) \ {n + 1} = 1 .. (n + 1) - 1
    BY ONLY <2>1, FirstPlaces
  <2>4. R[1 .. n + 1] = AddLine(R[1..n], lines[n + 1])
    BY <2>1, <2>2, <2>3 DEF TableFrom
  <2>5. R[1..n] = h[n]
    BY <1>1, <1>4, <2>1
  <2>6. h[n + 1] = AddLine(h[n], lines[n + 1])
    BY <2>1
  <2> QED
    BY <2>4, <2>5, <2>6
<1>5. Nat \subseteq T
  <2> HIDE DEF T
  <2> QED BY <1>3, <1>4, SetInduction
<1>6. R[1..Len(lines)] = h[Len(lines)]
  BY <1>1, <1>5
<1> QED
  BY <1>6, TableDefined DEF R

(* A text of n lines with different names, and the table it stands for. *)
IsFileOf(text, n, names, passwords) ==
  /\ text \in Seq(Chars)
  /\ n \in Nat /\ Len(Split(text, LF)) = n
  /\ Different(names, n, Users) /\ passwords \in [1..n -> Passwords]
  /\ \A i \in 1..n : IsRow(Split(text, LF)[i], names[i], passwords[i])

IsTableOf(t, n, names, passwords) ==
  /\ t \in Tables
  /\ \A i \in 1..n : t[names[i]] = passwords[i]
  /\ \A u \in Users : (\A i \in 1..n : names[i] # u) => t[u] = NoPassword

LEMMA OneTable ==
  ASSUME NEW n, NEW names, NEW passwords, NEW t, NEW v,
         IsTableOf(t, n, names, passwords), IsTableOf(v, n, names, passwords)
  PROVE  t = v
<1>1. t \in Tables /\ v \in Tables
  BY DEF IsTableOf
<1>2. \A u \in Users : t[u] = v[u]
  BY DEF IsTableOf
<1> QED
  BY <1>1, <1>2 DEF Tables

LEMMA TableExists ==
  ASSUME NEW n \in Nat, NEW names, Different(names, n, Users),
         NEW passwords \in [1..n -> Passwords]
  PROVE  \E t : IsTableOf(t, n, names, passwords)
<1> DEFINE place(u) == CHOOSE i \in 1..n : names[i] = u
           t == [u \in Users |-> IF \E i \in 1..n : names[i] = u
                                 THEN passwords[place(u)] ELSE NoPassword]
<1>1. \A u \in Users : (\E i \in 1..n : names[i] = u)
                         => place(u) \in 1..n /\ names[place(u)] = u
  OBVIOUS
<1>2. \A i \in 1..n : names[i] \in Users /\ place(names[i]) = i
  BY <1>1 DEF Different
<1> HIDE DEF place
<1>3. t \in Tables
  BY <1>1 DEF Tables
<1>4. \A i \in 1..n : t[names[i]] = passwords[i]
  BY <1>2
<1>5. \A u \in Users : (\A i \in 1..n : names[i] # u) => t[u] = NoPassword
  OBVIOUS
<1> HIDE DEF t
<1> QED
  BY <1>3, <1>4, <1>5 DEF IsTableOf

LEMMA RowRead ==
  ASSUME NEW line, NEW u \in Users, NEW p \in Passwords, IsRow(line, u, p)
  PROVE  IsReadAs(line, u, p)
<1>1. u \in Seq(Letters) /\ p \in Seq(Letters)
  BY CharactersAssumption
<1>2. CASE line = u \o <<Space>> \o p
  <2>1. line = Body(u, p)
    BY <1>2, Zenon DEF Body
  <2> QED
    BY <1>1, <2>1, BodyRead, Zenon
<1>3. CASE line = u /\ p = u
  BY <1>1, <1>3, BareRead, Zenon
<1> QED
  BY <1>2, <1>3 DEF IsRow

(* What Setup reads is the table of these names and passwords.             *)
LEMMA FileRead ==
  ASSUME NEW text, NEW n, NEW names, NEW passwords,
         IsFileOf(text, n, names, passwords)
  PROVE  Readable(text) /\ IsTableOf(MapAuthInfoStr(text), n, names, passwords)
<1> DEFINE lines == Split(text, LF)
<1>1. /\ lines \in Seq(Strings) /\ Len(lines) = n /\ n \in Nat
  <2>1. text \in Seq(Nat)
    BY CharsAre, WiderSeq DEF IsFileOf
  <2> QED
    BY <2>1, SplitType DEF Strings, IsFileOf
<1>2. \A i \in 1..n : /\ names[i] \in Users /\ passwords[i] \in Passwords
                      /\ IsReadAs(lines[i], names[i], passwords[i])
  <2> TAKE i \in 1..n
  <2>1. /\ names[i] \in Users /\ passwords[i] \in Passwords
        /\ IsRow(lines[i], names[i], passwords[i])
    BY DEF IsFileOf, Different
  <2> QED
    BY <2>1, RowRead
<1>3. Readable(text)
  <2>1. DOMAIN lines = 1..n
    BY <1>1
  <2>2. \A i \in 1..n : Cardinality(Spaces(lines[i])) <= 1
    BY <1>2 DEF IsReadAs
  <2> QED
    BY <2>1, <2>2 DEF Readable
<1>4. PICK t : IsTableOf(t, n, names, passwords)
  BY TableExists DEF IsFileOf
<1> DEFINE Among(u, k) == \E i \in 1..k : names[i] = u
           h == [k \in 0..n |-> [u \in Users |-> IF Among(u, k) THEN t[u]
                                                 ELSE NoPassword]]
<1>5. h[0] = NoAccounts
  BY <1>1 DEF NoAccounts
<1>6. ASSUME NEW k \in 1..n PROVE h[k] = AddLine(h[k - 1], lines[k])
  <2> DEFINE name == names[k]
             old == h[k - 1]
  <2>1. k \in 0..n /\ k - 1 \in 0..n
    BY <1>1
  <2>2. /\ h[k] = [u \in Users |-> IF Among(u, k) THEN t[u] ELSE NoPassword]
        /\ old = [u \in Users |-> IF Among(u, k - 1) THEN t[u] ELSE NoPassword]
    BY <2>1
  <2>3. name \in Users /\ Among(name, k) /\ t[name] = passwords[k]
    BY <1>1, <1>2, <1>4 DEF IsTableOf
  <2>4. \A u \in Users : u # name => (Among(u, k) <=> Among(u, k - 1))
    <3>1. /\ \A i \in 1..k : i \in 1 .. k - 1 \/ i = k
          /\ \A i \in 1 .. k - 1 : i \in 1..k
      BY <1>1
    <3> QED
      BY <3>1
  <2>5. AddLine(old, lines[k]) = [old EXCEPT ![name] = passwords[k]]
    BY <1>2, Zenon DEF IsReadAs, AddLine, WithAccount
  <2> HIDE DEF name, old, Among, h
  <2>6. h[k] = [old EXCEPT ![name] = passwords[k]]
    BY <2>2, <2>3, <2>4
  <2> QED
    BY <2>5, <2>6, Zenon DEF old
<1>7. h[n] = t
  <2>1. t \in Tables /\ \A u \in Users : ~Among(u, n) => t[u] = NoPassword
    BY <1>4 DEF IsTableOf
  <2> HIDE DEF Among
  <2> QED
    BY <1>1, <2>1 DEF Tables
<1> HIDE DEF h, lines
<1>8. MapAuthInfoStr(text) = t
  <2>1. MapAuthInfoStr(text) = h[Len(lines)]
    BY <1>1, <1>5, <1>6, TableRead DEF lines
  <2> QED
    BY <1>1, <1>7, <2>1
<1> QED
  BY <1>3, <1>4, <1>8

-----------------------------------------------------------------------------
(* The length of the file *)

LEMMA SumLess ==
  ASSUME NEW S, IsFiniteSet(S), NEW f \in [S -> Nat], NEW g \in [S -> Nat],
         \A x \in S : f[x] <= g[x]
  PROVE  SumTable(f, S)[S] <= SumTable(g, S)[S]
<1> DEFINE h == [x \in S |-> g[x] - f[x]]
<1>1. h \in [S -> Nat] /\ \A x \in S : g[x] = f[x] + h[x]
  OBVIOUS
<1> HIDE DEF h
<1>2. SumTable(g, S)[S] = SumTable(f, S)[S] + SumTable(h, S)[S]
  BY <1>1, SumPlus
<1>3. /\ SumTable(f, S)[S] \in Nat /\ SumTable(g, S)[S] \in Nat
      /\ SumTable(h, S)[S] \in Nat
  BY <1>1, SumDefined
<1> QED
  BY <1>2, <1>3

(* What each name takes of the file when it is written. *)
LineLengths(t) ==
  [u \in Users |-> IF HasAccount(t, u) THEN Len(u) + Len(t[u]) + 2 ELSE 0]

Size(t) == SumTable(LineLengths(t), Users)[Users]

LEMMA LengthsOf ==
  ASSUME NEW t \in Tables
  PROVE  LineLengths(t) \in [Users -> Nat] /\ Size(t) \in Nat
<1>1. ASSUME NEW u \in Users, HasAccount(t, u)
      PROVE  Len(u) + Len(t[u]) + 2 \in Nat
  <2>1. u \in Seq(Letters) /\ t[u] \in Seq(Letters)
    BY <1>1, CharactersAssumption DEF Tables, HasAccount
  <2>2. Len(u) \in Nat /\ Len(t[u]) \in Nat
    BY <2>1
  <2> QED
    BY <2>2
<1>2. LineLengths(t) \in [Users -> Nat]
  BY <1>1 DEF LineLengths
<1> QED
  BY <1>2, SumDefined, CharactersAssumption DEF Size

(* A text is as long as its lines, with an end of line for each, which the *)
(* last one may lack.                                                      *)
LEMMA RowsLength ==
  ASSUME NEW text, NEW n, NEW names, NEW passwords,
         IsFileOf(text, n, names, passwords),
         NEW w, w \in Numbers(Users),
         \A i \in 1..n : w[names[i]] = Len(Split(text, LF)[i]) + 1,
         \A u \in Users : (\A i \in 1..n : names[i] # u) => w[u] = 0
  PROVE  /\ Len(text) <= SumTable(w, Users)[Users]
         /\ text = <<>> \/ text[Len(text)] = LF
              => Len(text) = SumTable(w, Users)[Users]
<1> DEFINE number == [k \in 1..n |-> w[names[k]]]
<1>1. /\ text \in Seq(Chars) /\ n \in Nat /\ Len(Split(text, LF)) = n
      /\ Different(names, n, Users) /\ IsFiniteSet(Users)
  BY CharactersAssumption DEF IsFileOf
<1>2. \A i \in 1..n : number[i] = w[names[i]]
  OBVIOUS
<1>3. \A i \in 1..n : number[i] = Len(Split(text, LF)[i]) + 1
  OBVIOUS
<1> HIDE DEF number
<1>4. PICK sums : IsTotal(sums, n, number) /\ sums[n] = SumTable(w, Users)[Users]
  <2>1. w \in Numbers(Users)
    OBVIOUS
  <2>2. \A u \in Users : (\A i \in 1..n : names[i] # u) => w[u] = 0
    OBVIOUS
  <2>3. WeighsNames(Users, n, names, w, number)
    BY <1>2, <2>1, <2>2 DEF WeighsNames
  <2>4. \E sums : IsTotal(sums, n, number) /\ sums[n] = SumTable(w, Users)[Users]
    BY ONLY <1>1, <2>3, NamesTotal
  <2> QED
    BY <2>4
<1>5. /\ Len(text) <= sums[n]
      /\ text = <<>> \/ text[Len(text)] = LF => Len(text) = sums[n]
  BY ONLY <1>1, <1>3, <1>4, TextLength
<1> QED
  BY <1>4, <1>5

LEMMA RowLength ==
  ASSUME NEW line, NEW u \in Users, NEW p \in Passwords, IsRow(line, u, p)
  PROVE  /\ Len(line) + 1 \in Nat
         /\ Len(line) + 1 <= Len(u) + Len(p) + 2
         /\ Len(u) \in Nat /\ Len(p) \in Nat
<1>1. u \in Seq(Letters) /\ p \in Seq(Letters)
  BY CharactersAssumption
<1>2. Len(u) \in Nat /\ Len(p) \in Nat
  BY <1>1
<1>3. CASE line = u \o <<Space>> \o p
  <2>1. line = Body(u, p)
    BY <1>3, Zenon DEF Body
  <2>2. Len(Body(u, p)) = Len(u) + Len(p) + 1
    BY <1>1, BodyIs
  <2>3. Len(line) = Len(u) + Len(p) + 1
    BY <2>1, <2>2, Zenon
  <2> QED
    BY <1>2, <2>3
<1>4. CASE line = u
  BY <1>2, <1>4
<1> QED
  BY <1>3, <1>4 DEF IsRow

(* A file that somebody wrote is not longer than what the destructor makes *)
(* of its accounts.                                                        *)
LEMMA FileLength ==
  ASSUME NEW text, NEW n, NEW names, NEW passwords,
         IsFileOf(text, n, names, passwords)
  PROVE  Len(text) <= Size(MapAuthInfoStr(text)) /\ Len(text) \in Nat
<1> DEFINE t == MapAuthInfoStr(text)
           lines == Split(text, LF)
           place(u) == CHOOSE i \in 1..n : names[i] = u
           w == [u \in Users |-> IF \E i \in 1..n : names[i] = u
                                 THEN Len(lines[place(u)]) + 1 ELSE 0]
<1>1. IsTableOf(t, n, names, passwords)
  BY FileRead
<1>2. \A i \in 1..n : /\ names[i] \in Users /\ passwords[i] \in Passwords
                      /\ IsRow(lines[i], names[i], passwords[i])
  BY DEF IsFileOf, Different
<1> HIDE DEF t, lines
<1>3. \A i \in 1..n : /\ Len(lines[i]) + 1 \in Nat
                      /\ Len(lines[i]) + 1 <= Len(names[i]) + Len(passwords[i]) + 2
  BY <1>2, RowLength
<1>4. \A u \in Users : (\E i \in 1..n : names[i] = u)
                         => place(u) \in 1..n /\ names[place(u)] = u
  OBVIOUS
<1>5. \A i \in 1..n : place(names[i]) = i
  BY <1>2, <1>4 DEF IsFileOf, Different
<1> HIDE DEF place
<1>6. w \in [Users -> Nat]
  BY <1>3, <1>4
<1>7. \A i \in 1..n : w[names[i]] = Len(lines[i]) + 1
  BY <1>2, <1>5
<1>8. \A u \in Users : (\A i \in 1..n : names[i] # u) => w[u] = 0
  OBVIOUS
<1>9. t \in Tables /\ LineLengths(t) \in [Users -> Nat] /\ Size(t) \in Nat
  BY <1>1, LengthsOf DEF IsTableOf
<1>10. ASSUME NEW u \in Users PROVE w[u] <= LineLengths(t)[u]
  <2>1. CASE \E i \in 1..n : names[i] = u
    <3> DEFINE i == place(u)
    <3>1. i \in 1..n /\ names[i] = u
      BY <1>4, <2>1
    <3> HIDE DEF i
    <3>2. t[u] = passwords[i] /\ passwords[i] # NoPassword
      BY <1>1, <1>2, <3>1, NoPasswordAssumption DEF IsTableOf
    <3>3. LineLengths(t)[u] = Len(u) + Len(passwords[i]) + 2
      BY <3>2 DEF LineLengths, HasAccount
    <3>4. w[u] = Len(lines[i]) + 1
      BY <1>7, <3>1
    <3> QED
      BY <1>3, <3>1, <3>3, <3>4
  <2>2. CASE \A i \in 1..n : names[i] # u
    <3>1. w[u] = 0 /\ LineLengths(t)[u] \in Nat
      BY <1>8, <1>9, <2>2
    <3> QED
      BY <3>1
  <2> QED
    BY <2>1, <2>2
<1> HIDE DEF w
<1>11. Len(text) <= SumTable(w, Users)[Users]
  <2>1. w \in Numbers(Users)
    BY <1>6 DEF Numbers
  <2> QED
    BY <1>7, <1>8, <2>1, RowsLength DEF lines
<1>12. SumTable(w, Users)[Users] <= Size(t) /\ SumTable(w, Users)[Users] \in Nat
  <2>1. IsFiniteSet(Users)
    BY CharactersAssumption
  <2> QED
    BY <1>6, <1>9, <1>10, <2>1, SumLess, SumDefined DEF Size
<1>13. Len(text) \in Nat
  BY DEF IsFileOf
<1> QED
  BY <1>9, <1>11, <1>12, <1>13 DEF t

-----------------------------------------------------------------------------
(* What the destructor writes *)

Named(t) == {u \in Users : HasAccount(t, u)}
NamesOf(t) == Keys(Named(t), Before)
PasswordsOf(t) == [i \in 1..Cardinality(Named(t)) |-> t[NamesOf(t)[i]]]

IsWritten(t, text) ==
  /\ IsFileOf(text, Cardinality(Named(t)), NamesOf(t), PasswordsOf(t))
  /\ text = <<>> \/ text[Len(text)] = LF
  /\ \A i \in 1..Cardinality(Named(t)) :
       Split(text, LF)[i] = Body(NamesOf(t)[i], PasswordsOf(t)[i])

(* The names that have an account, each once, and their passwords.         *)
LEMMA NamesAre ==
  ASSUME NEW t \in Tables
  PROVE  /\ IsFiniteSet(Named(t)) /\ Cardinality(Named(t)) \in Nat
         /\ Different(NamesOf(t), Cardinality(Named(t)), Users)
         /\ PasswordsOf(t) \in [1..Cardinality(Named(t)) -> Passwords]
         /\ IsTableOf(t, Cardinality(Named(t)), NamesOf(t), PasswordsOf(t))
<1> DEFINE S == Named(t)
           n == Cardinality(S)
           names == NamesOf(t)
<1>1. S \subseteq Users /\ \A u \in Users : u \in S <=> t[u] # NoPassword
  BY DEF Named, HasAccount
<1>2. IsFiniteSet(S) /\ n \in Nat
  BY <1>1, CharactersAssumption, FS_Subset, FS_CardinalityType
<1>3. S \subseteq Strings
  <2>1. ASSUME NEW u \in Users PROVE u \in Seq(Nat)
    BY CharactersAssumption, CharsAre, WiderSeq
  <2> QED
    BY <1>1, <2>1 DEF Strings
<1>4. names \in [1..n -> S] /\ Sorted(names, n)
  BY <1>2, <1>3, KeysSorted DEF NamesOf
<1> HIDE DEF S
<1>5. /\ \A i, j \in 1..n : names[i] = names[j] => i = j
      /\ \A u \in S : \E i \in 1..n : names[i] = u
  BY <1>2, <1>3, <1>4, SortedOnce
<1> HIDE DEF n, names
<1>6. Different(names, n, Users)
  BY <1>1, <1>4, <1>5 DEF Different
<1>7. \A i \in 1..n : t[names[i]] \in Passwords
  BY <1>1, <1>4 DEF Tables
<1>8. PasswordsOf(t) = [i \in 1..n |-> t[names[i]]]
  BY DEF PasswordsOf, n, names, S
<1>9. IsTableOf(t, n, names, PasswordsOf(t))
  <2>1. \A u \in Users : (\A i \in 1..n : names[i] # u) => t[u] = NoPassword
    BY <1>1, <1>5
  <2> QED
    BY <1>8, <2>1 DEF IsTableOf
<1>10. PasswordsOf(t) \in [1..n -> Passwords]
  BY <1>7, <1>8
<1> QED
  BY <1>2, <1>6, <1>9, <1>10 DEF n, names, S

LEMMA LineIs ==
  ASSUME NEW t, NEW u, u \in Seq(Letters), t[u] \in Seq(Letters)
  PROVE  /\ IsLine(Line(t, u), Body(u, t[u]), LF)
         /\ Line(t, u) \in Seq(Chars)
<1> DEFINE b == Body(u, t[u])
<1>1. b \in Seq(Chars)
  BY BodyIs
<1>2. Line(t, u) = b \o <<LF>>
  BY Zenon DEF Line, Body, b
<1> HIDE DEF b
<1>3. LF \in Chars
  BY CharsAre
<1>4. b \o <<LF>> = Append(b, LF)
  BY <1>1, <1>3, AppendIsConcat
<1>5. Append(b, LF) \in Seq(Chars)
  BY <1>1, <1>3, PushSeq
<1>6. Line(t, u) = Append(b, LF)
  BY <1>2, <1>4, Zenon
<1> QED
  BY <1>5, <1>6, Zenon DEF IsLine, b

(* What the destructor writes is one line for each account.                *)
LEMMA FileWritten == ASSUME NEW t \in Tables PROVE IsWritten(t, AuthInfoStr(t))
<1> DEFINE n == Cardinality(Named(t))
           names == NamesOf(t)
           words == PasswordsOf(t)
           bodies == [i \in 1..n |-> Body(names[i], words[i])]
           lines == [i \in 1..n |-> Line(t, names[i])]
           text == AuthInfoStr(t)
<1>1. /\ n \in Nat /\ Different(names, n, Users)
      /\ words \in [1..n -> Passwords]
      /\ \A i \in 1..n : words[i] = t[names[i]]
  BY NamesAre DEF PasswordsOf
<1>2. names \in [1..n -> Users] /\ DOMAIN names = 1..n
  BY <1>1 DEF Different
<1>3. text = FlattenSeq(lines)
  <2>1. text = FlattenSeq([i \in DOMAIN names |-> Line(t, names[i])])
    BY Zenon DEF AuthInfoStr, NamesOf, Named
  <2> HIDE DEF names, text
  <2> QED
    BY <1>2, <2>1
<1> HIDE DEF n, names, words, text
<1>4. ASSUME NEW i \in 1..n
      PROVE  /\ names[i] \in Users /\ words[i] \in Passwords
             /\ names[i] \in Seq(Letters) /\ words[i] \in Seq(Letters)
             /\ words[i] = t[names[i]]
  BY <1>1, <1>2, CharactersAssumption
<1>5. ASSUME NEW i \in 1..n
      PROVE  /\ bodies[i] \in Seq(Chars) /\ lines[i] \in Seq(Chars)
             /\ IsLine(lines[i], bodies[i], LF)
             /\ \A j \in 1..Len(bodies[i]) : bodies[i][j] # LF
  <2> DEFINE u == names[i]
             p == words[i]
  <2>1. u \in Seq(Letters) /\ p \in Seq(Letters) /\ p = t[u]
    BY <1>4
  <2>2. bodies[i] = Body(u, p) /\ lines[i] = Line(t, u)
    OBVIOUS
  <2> HIDE DEF u, p, bodies, lines
  <2>3. /\ Body(u, p) \in Seq(Chars)
        /\ \A j \in 1..Len(Body(u, p)) : Body(u, p)[j] # LF
    BY <2>1, BodyIs
  <2>4. IsLine(Line(t, u), Body(u, p), LF) /\ Line(t, u) \in Seq(Chars)
    BY <2>1, LineIs
  <2> QED
    BY <2>2, <2>3, <2>4, Zenon
<1>6. /\ bodies \in [1..n -> Seq(Chars)] /\ lines \in [1..n -> Seq(Chars)]
      /\ DOMAIN bodies = 1..n
  BY <1>5
<1>7. /\ Split(text, LF) = bodies /\ text \in Seq(Chars)
      /\ text = <<>> \/ text[Len(text)] = LF
  <2>1. CASE n = 0
    <3>1. lines = <<>> /\ bodies = <<>>
      BY <1>6, <2>1
    <3> HIDE DEF lines, bodies
    <3>2. FlattenSeq(<<>>) = <<>>
      BY DEF FlattenSeq
    <3>3. text = <<>>
      BY <1>3, <3>1, <3>2, Zenon
    <3>4. Split(<<>>, LF) = <<>>
      <4>1. <<>> \in Seq(Chars) /\ Len(<<>>) = 0
        OBVIOUS
      <4>2. \A j \in 1..0 : <<>>[j] # LF
        OBVIOUS
      <4> QED
        BY <4>1, <4>2, SplitPlain, CharsAre
    <3> QED
      BY <3>1, <3>3, <3>4
  <2>2. CASE n # 0
    <3> HIDE DEF lines, bodies
    <3>1. LF \in Chars
      BY CharsAre
    <3>2. \A i \in 1..n : /\ IsLine(lines[i], bodies[i], LF)
                          /\ \A j \in 1..Len(bodies[i]) : bodies[i][j] # LF
      BY <1>5
    <3>3. /\ Split(FlattenSeq(lines), LF) = bodies
          /\ FlattenSeq(lines) \in Seq(Chars)
          /\ \E a \in Seq(Chars) : IsLine(FlattenSeq(lines), a, LF)
      BY ONLY <1>1, <1>6, <2>2, <3>1, <3>2, SplitLines
    <3>4. PICK a \in Seq(Chars) : IsLine(text, a, LF)
      BY <1>3, <3>3
    <3>5. text[Len(text)] = LF
      <4>1. Len(Append(a, LF)) = Len(a) + 1 /\ Append(a, LF)[Len(a) + 1] = LF
        BY <3>1, PushSeq
      <4>2. text = Append(a, LF)
        BY <3>4 DEF IsLine
      <4> QED
        BY <4>1, <4>2
    <3> QED
      BY <1>3, <3>3, <3>5
  <2> QED
    BY <2>1, <2>2
<1> DEFINE read == Split(text, LF)
<1>8. Len(read) = n /\ \A i \in 1..n : read[i] = Body(names[i], words[i])
  BY <1>1, <1>6, <1>7
<1> HIDE DEF read
<1>9. \A i \in 1..n : IsRow(read[i], names[i], words[i])
  BY <1>8 DEF IsRow, Body
<1>10. IsFileOf(text, n, names, words)
  BY <1>1, <1>7, <1>8, <1>9 DEF IsFileOf, read
<1> QED
  BY <1>7, <1>8, <1>10 DEF IsWritten, n, names, words, text, read

(* Setup reads the accounts that the destructor wrote. *)
LEMMA WrittenRead ==
  ASSUME NEW t \in Tables
  PROVE  /\ AuthInfoStr(t) \in Seq(Chars)
         /\ Readable(AuthInfoStr(t)) /\ MapAuthInfoStr(AuthInfoStr(t)) = t
<1>1. IsFileOf(AuthInfoStr(t), Cardinality(Named(t)), NamesOf(t), PasswordsOf(t))
  BY FileWritten DEF IsWritten
<1>2. IsTableOf(t, Cardinality(Named(t)), NamesOf(t), PasswordsOf(t))
  BY NamesAre
<1>3. AuthInfoStr(t) \in Seq(Chars)
  BY <1>1 DEF IsFileOf
<1> QED
  BY <1>1, <1>2, <1>3, FileRead, OneTable

LEMMA WrittenLength ==
  ASSUME NEW t \in Tables PROVE Len(AuthInfoStr(t)) = Size(t)
<1> DEFINE n == Cardinality(Named(t))
           names == NamesOf(t)
           words == PasswordsOf(t)
           text == AuthInfoStr(t)
           w == LineLengths(t)
<1>1. /\ IsFileOf(text, n, names, words)
      /\ text = <<>> \/ text[Len(text)] = LF
      /\ \A i \in 1..n : Split(text, LF)[i] = Body(names[i], words[i])
  BY FileWritten DEF IsWritten
<1>2. IsTableOf(t, n, names, words)
  BY NamesAre
<1>3. w \in Numbers(Users)
  BY LengthsOf DEF Numbers
<1> HIDE DEF n, names, words, text
<1>4. \A i \in 1..n : names[i] \in Users /\ words[i] \in Passwords
  <2>1. names \in [1..n -> Users] /\ words \in [1..n -> Passwords]
    BY <1>1 DEF IsFileOf, Different
  <2> QED
    BY <2>1
<1>5. ASSUME NEW i \in 1..n PROVE w[names[i]] = Len(Split(text, LF)[i]) + 1
  <2> DEFINE u == names[i]
             p == words[i]
  <2>1. u \in Seq(Letters) /\ p \in Seq(Letters) /\ u \in Users
    BY <1>4, CharactersAssumption
  <2>2. t[u] = p /\ p # NoPassword
    BY <1>2, <1>4, NoPasswordAssumption DEF IsTableOf
  <2>3. Split(text, LF)[i] = Body(u, p)
    BY <1>1
  <2> HIDE DEF u, p
  <2>4. Len(Body(u, p)) = Len(u) + Len(p) + 1
    BY <2>1, BodyIs
  <2>5. Len(u) \in Nat /\ Len(p) \in Nat
    BY <2>1
  <2>6. w[u] = Len(u) + Len(p) + 2
    BY <2>1, <2>2 DEF LineLengths, HasAccount
  <2>7. w[u] = Len(Body(u, p)) + 1
    BY <2>4, <2>5, <2>6
  <2> QED
    BY <2>3, <2>7 DEF u
<1>6. ASSUME NEW u \in Users, \A i \in 1..n : names[i] # u PROVE w[u] = 0
  BY <1>2, <1>6 DEF IsTableOf, LineLengths, HasAccount
<1> HIDE DEF w
<1>7. Len(text) = SumTable(w, Users)[Users]
  <2>1. IsFileOf(text, n, names, words)
    BY <1>1
  <2>2. /\ \A i \in 1..n : w[names[i]] = Len(Split(text, LF)[i]) + 1
        /\ \A u \in Users : (\A i \in 1..n : names[i] # u) => w[u] = 0
    BY <1>5, <1>6
  <2>3. text = <<>> \/ text[Len(text)] = LF
          => Len(text) = SumTable(w, Users)[Users]
    BY ONLY <1>3, <2>1, <2>2, RowsLength
  <2> QED
    BY <1>1, <2>3
<1> QED
  BY <1>7 DEF Size, text, w

-----------------------------------------------------------------------------
(* The file over the life of a server *)

(* A file that somebody wrote can be read, and what is written over it     *)
(* covers it.                                                              *)
LEMMA InitialFile ==
  ASSUME NEW text \in InitialFiles
  PROVE  /\ text \in Seq(Chars) /\ Readable(text)
         /\ MapAuthInfoStr(text) \in Tables
         /\ Len(text) <= Len(AuthInfoStr(MapAuthInfoStr(text)))
<1> DEFINE lines == Split(text, LF)
           n == Len(lines)
<1>1. text \in Seq(Chars)
  BY FilesAssumption DEF Chars
<1>2. lines \in Seq(Seq(Chars))
  BY <1>1, SplitType
<1> HIDE DEF lines
<1>3. n \in Nat /\ DOMAIN lines = 1..n
  BY <1>2
<1>4. PICK names \in [1..n -> Users] :
         /\ \A i, j \in 1..n : names[i] = names[j] => i = j
         /\ \A i \in 1..n : \E p \in Passwords : IsRow(lines[i], names[i], p)
  <2>1. \E names \in [DOMAIN lines -> Users] :
          /\ \A i, j \in DOMAIN names : names[i] = names[j] => i = j
          /\ \A i \in DOMAIN names : \E p \in Passwords :
               IsRow(lines[i], names[i], p)
    BY FilesAssumption DEF lines
  <2> QED
    BY <1>3, <2>1
<1> HIDE DEF n
<1> DEFINE words == [i \in 1..n |-> CHOOSE p \in Passwords :
                                      IsRow(lines[i], names[i], p)]
<1>5. \A i \in 1..n : words[i] \in Passwords /\ IsRow(lines[i], names[i], words[i])
  BY <1>4
<1>6. words \in [1..n -> Passwords]
  BY <1>5
<1> HIDE DEF words
<1>7. Different(names, n, Users)
  BY <1>4 DEF Different
<1>8. IsFileOf(text, n, names, words)
  BY <1>1, <1>3, <1>5, <1>6, <1>7 DEF IsFileOf, lines, n
<1>9. Readable(text) /\ MapAuthInfoStr(text) \in Tables
  BY <1>8, FileRead DEF IsTableOf
<1>10. Len(text) <= Size(MapAuthInfoStr(text))
  BY <1>8, FileLength
<1> QED
  BY <1>1, <1>9, <1>10, WrittenLength

(* One account more makes the file longer. *)
LEMMA RegisterLonger ==
  ASSUME NEW t \in Tables, NEW u \in Users, NEW p \in Passwords,
         RegisterOk(t, u)
  PROVE  /\ WithAccount(t, u, p) \in Tables
         /\ Len(AuthInfoStr(t)) <= Len(AuthInfoStr(WithAccount(t, u, p)))
         /\ Len(AuthInfoStr(t)) \in Nat
         /\ Len(AuthInfoStr(WithAccount(t, u, p))) \in Nat
<1> DEFINE v == WithAccount(t, u, p)
<1>1. v \in Tables /\ \A x \in Users \ {u} : v[x] = t[x]
  BY DEF WithAccount, Tables
<1>2. ~HasAccount(t, u)
  BY DEF RegisterOk
<1> HIDE DEF v
<1>3. LineLengths(t) \in [Users -> Nat] /\ LineLengths(v) \in [Users -> Nat]
  BY <1>1, LengthsOf
<1>4. ASSUME NEW x \in Users PROVE LineLengths(t)[x] <= LineLengths(v)[x]
  <2>1. LineLengths(t)[x] \in Nat /\ LineLengths(v)[x] \in Nat
    BY <1>3
  <2>2. CASE x = u
    <3>1. LineLengths(t)[x] = 0
      BY <1>2, <2>2 DEF LineLengths
    <3> QED
      BY <2>1, <3>1
  <2>3. CASE x # u
    <3>1. LineLengths(t)[x] = LineLengths(v)[x]
      BY <1>1, <2>3 DEF LineLengths, HasAccount
    <3> QED
      BY <2>1, <3>1
  <2> QED
    BY <2>2, <2>3
<1>5. Size(t) <= Size(v)
  <2>1. IsFiniteSet(Users) /\ \A x \in Users : LineLengths(t)[x] <= LineLengths(v)[x]
    BY <1>4, CharactersAssumption
  <2> QED
    BY ONLY <1>3, <2>1, SumLess DEF Size
<1>6. Size(t) \in Nat /\ Size(v) \in Nat
  BY <1>1, LengthsOf
<1>7. Len(AuthInfoStr(t)) = Size(t) /\ Len(AuthInfoStr(v)) = Size(v)
  BY <1>1, WrittenLength
<1> QED
  BY <1>1, <1>5, <1>6, <1>7 DEF v

LEMMA OverwrittenAll ==
  ASSUME NEW old \in Seq(Chars), NEW new \in Seq(Chars), Len(old) <= Len(new)
  PROVE  Overwritten(old, new) = new
<1> DEFINE rest == SubSeq(old, Len(new) + 1, Len(old))
<1>1. rest = <<>>
  BY SubSeqEmpty
<1> HIDE DEF rest
<1>2. new \o rest = new
  BY <1>1, ConcatEmptySeq
<1> QED
  BY <1>2, Zenon DEF Overwritten, rest

(* Nobody who has an account in the file has another password in memory,   *)
(* and before the first registration nothing differs.                      *)
KeptInv ==
  /\ NothingToSave
  /\ running => \A u \in Users : HasAccount(kept, u) => authInfo[u] = kept[u]

(* What is written next covers the file that is there.                     *)
AccountsInv ==
  /\ TypeOK /\ FileHoldsAccounts /\ KeptInv
  /\ Len(file) <= Len(AuthInfoStr(kept))
  /\ running => Len(AuthInfoStr(kept)) <= Len(AuthInfoStr(authInfo))

LEMMA AccountsStart == Init => AccountsInv
<1> SUFFICES ASSUME Init PROVE AccountsInv
  OBVIOUS
<1>1. /\ running = FALSE /\ outdated = FALSE /\ authInfo = NoAccounts
      /\ file \in InitialFiles /\ kept = MapAuthInfoStr(file)
  BY DEF Init
<1>2. /\ file \in Seq(Chars) /\ Readable(file) /\ MapAuthInfoStr(file) \in Tables
      /\ Len(file) <= Len(AuthInfoStr(MapAuthInfoStr(file)))
  BY <1>1, InitialFile
<1>3. NoAccounts \in Tables
  BY DEF NoAccounts, Tables
<1>4. TypeOK
  BY <1>1, <1>2, <1>3 DEF TypeOK, Chars
<1>5. Len(file) <= Len(AuthInfoStr(kept))
  BY <1>1, <1>2, Zenon
<1> QED
  BY <1>1, <1>2, <1>4, <1>5
     DEF AccountsInv, FileHoldsAccounts, KeptInv, NothingToSave

LEMMA SetupKeeps == AccountsInv /\ Setup => AccountsInv'
<1> SUFFICES ASSUME AccountsInv, Setup PROVE AccountsInv'
  OBVIOUS
<1>1. /\ running' = TRUE /\ authInfo' = kept
      /\ outdated' = outdated /\ file' = file /\ kept' = kept
  BY DEF Setup, AccountsInv, FileHoldsAccounts
<1>2. TypeOK'
  BY <1>1 DEF AccountsInv, TypeOK
<1>3. FileHoldsAccounts'
  BY <1>1 DEF AccountsInv, FileHoldsAccounts
<1>4. KeptInv'
  BY <1>1 DEF KeptInv, NothingToSave
<1>5. Len(file') <= Len(AuthInfoStr(kept'))
  BY <1>1 DEF AccountsInv
<1>6. Len(AuthInfoStr(kept)) \in Nat
  <2>1. kept \in Tables
    BY DEF AccountsInv, TypeOK
  <2> QED
    BY <2>1, LengthsOf, WrittenLength
<1>7. Len(AuthInfoStr(kept')) <= Len(AuthInfoStr(authInfo'))
  BY <1>1, <1>6
<1> QED
  BY <1>2, <1>3, <1>4, <1>5, <1>7 DEF AccountsInv

LEMMA RegisterKeeps ==
  ASSUME AccountsInv, NEW u \in Users, NEW p \in Passwords, Register(u, p)
  PROVE  AccountsInv'
<1>1. /\ running /\ RegisterOk(authInfo, u)
      /\ authInfo' = WithAccount(authInfo, u, p) /\ outdated' = TRUE
      /\ running' = running /\ file' = file /\ kept' = kept
  BY DEF Register, Outdated
<1>2. authInfo \in Tables /\ kept \in Tables
  BY DEF AccountsInv, TypeOK
<1>3. /\ WithAccount(authInfo, u, p) \in Tables
      /\ Len(AuthInfoStr(authInfo)) <= Len(AuthInfoStr(WithAccount(authInfo, u, p)))
      /\ Len(AuthInfoStr(authInfo)) \in Nat
      /\ Len(AuthInfoStr(WithAccount(authInfo, u, p))) \in Nat
  BY <1>1, <1>2, RegisterLonger
<1>4. TypeOK'
  BY <1>1, <1>3 DEF AccountsInv, TypeOK
<1>5. FileHoldsAccounts'
  BY <1>1 DEF AccountsInv, FileHoldsAccounts
<1>6. KeptInv'
  BY <1>1, <1>2
     DEF AccountsInv, KeptInv, NothingToSave, RegisterOk, HasAccount,
         WithAccount, Tables
<1>7. Len(file') <= Len(AuthInfoStr(kept'))
  BY <1>1 DEF AccountsInv
<1>8. Len(AuthInfoStr(kept')) <= Len(AuthInfoStr(authInfo'))
  <2>1. Len(AuthInfoStr(kept)) \in Nat
    BY <1>2, LengthsOf, WrittenLength
  <2>2. Len(AuthInfoStr(kept)) <= Len(AuthInfoStr(authInfo))
    BY <1>1 DEF AccountsInv
  <2>3. Len(AuthInfoStr(kept)) <= Len(AuthInfoStr(WithAccount(authInfo, u, p)))
    BY <1>3, <2>1, <2>2
  <2> QED
    BY <1>1, <2>3, Zenon
<1> QED
  BY <1>4, <1>5, <1>6, <1>7, <1>8 DEF AccountsInv

(* The end of a process without a change of the file. *)
LEMMA GoneKeeps == AccountsInv /\ Gone /\ UNCHANGED <<file, kept>> => AccountsInv'
<1> SUFFICES ASSUME AccountsInv, Gone, UNCHANGED <<file, kept>> PROVE AccountsInv'
  OBVIOUS
<1>1. /\ running' = FALSE /\ authInfo' = NoAccounts /\ outdated' = FALSE
      /\ file' = file /\ kept' = kept
  BY DEF Gone
<1>2. TypeOK'
  BY <1>1 DEF AccountsInv, TypeOK, NoAccounts, Tables
<1> QED
  BY <1>1, <1>2 DEF AccountsInv, FileHoldsAccounts, KeptInv, NothingToSave

LEMMA SaveKeeps == AccountsInv /\ Save => AccountsInv'
<1> SUFFICES ASSUME AccountsInv, Save PROVE AccountsInv'
  OBVIOUS
<1> DEFINE new == AuthInfoStr(authInfo)
<1>1. /\ running /\ file' = Overwritten(file, new) /\ kept' = authInfo
      /\ running' = FALSE /\ authInfo' = NoAccounts /\ outdated' = FALSE
  BY DEF Save, Gone
<1>2. authInfo \in Tables /\ kept \in Tables /\ file \in Seq(Chars)
  BY DEF AccountsInv, TypeOK, Chars
<1>3. new \in Seq(Chars) /\ Readable(new) /\ MapAuthInfoStr(new) = authInfo
  BY <1>2, WrittenRead
<1>4. Len(file) <= Len(new)
  <2>1. Len(AuthInfoStr(kept)) \in Nat /\ Len(new) \in Nat
    BY <1>2, LengthsOf, WrittenLength
  <2>2. /\ Len(file) <= Len(AuthInfoStr(kept))
        /\ Len(AuthInfoStr(kept)) <= Len(new)
    BY <1>1 DEF AccountsInv
  <2>3. Len(file) \in Nat
    BY <1>2
  <2> HIDE DEF new
  <2> QED
    BY <2>1, <2>2, <2>3
<1> HIDE DEF new
<1>5. file' = new
  BY <1>1, <1>2, <1>3, <1>4, OverwrittenAll
<1>6. TypeOK'
  BY <1>1, <1>2, <1>3, <1>5 DEF TypeOK, NoAccounts, Tables, Chars
<1>7. FileHoldsAccounts'
  BY <1>1, <1>3, <1>5 DEF FileHoldsAccounts
<1>8. KeptInv'
  BY <1>1 DEF KeptInv, NothingToSave
<1>9. Len(file') <= Len(AuthInfoStr(kept'))
  <2>1. Len(new) \in Nat /\ Len(new) <= Len(new)
    BY <1>3
  <2> QED
    BY <1>1, <1>5, <2>1, Zenon DEF new
<1> QED
  BY <1>1, <1>6, <1>7, <1>8, <1>9 DEF AccountsInv

LEMMA AccountsKeep ==
  AccountsInv /\ [LifeNext]_<<vars, repoVars>> => AccountsInv'
<1> SUFFICES ASSUME AccountsInv, [LifeNext]_<<vars, repoVars>> PROVE AccountsInv'
  OBVIOUS
<1>1. CASE Setup
  BY <1>1, SetupKeeps
<1>2. ASSUME NEW u \in Users, NEW p \in Passwords, Register(u, p)
      PROVE  AccountsInv'
  BY <1>2, RegisterKeeps
<1>3. CASE Save
  BY <1>3, SaveKeeps
<1>4. CASE Close \/ Crash
  BY <1>4, GoneKeeps DEF Close, Crash
<1>5. CASE UNCHANGED vars
  BY <1>5 DEF vars, AccountsInv, TypeOK, FileHoldsAccounts, KeptInv, NothingToSave
<1> QED
  BY <1>1, <1>2, <1>3, <1>4, <1>5
     DEF LifeNext, StartUp, SetUp, Serve, Stop, StartFails

LEMMA KeptSurvives ==
  ASSUME KeptInv, [LifeNext]_<<vars, repoVars>>
  PROVE  [\A u \in Users : HasAccount(kept, u) => kept'[u] = kept[u]]_vars
<1>1. CASE Save
  BY <1>1 DEF Save, KeptInv
<1>2. CASE kept' = kept
  BY <1>2
<1> QED
  BY <1>1, <1>2
     DEF LifeNext, StartUp, SetUp, Serve, Stop, StartFails, Setup, Register,
         Close, Crash, vars

(* The file that is there is read as the accounts of the last save, and    *)
(* the next save covers it.                                                *)
THEOREM AccountsInvariance == LifeSpec => []AccountsInv
<1>1. LifeInit => AccountsInv
  BY AccountsStart DEF LifeInit
<1> QED
  BY <1>1, AccountsKeep, PTL DEF LifeSpec

(* Tables in memory and in the file hold users and their passwords only.   *)
THEOREM AccountsTypeCorrect == LifeSpec => []TypeOK
<1>1. AccountsInv => TypeOK
  BY DEF AccountsInv
<1> QED
  BY <1>1, AccountsInvariance, PTL

(* What the destructor leaves, with what is left of an older file, can be  *)
(* read by Setup and is the accounts of the last save, for names and       *)
(* passwords of any length.                                                *)
THEOREM FileIsReadBack == LifeSpec => []FileHoldsAccounts
<1>1. AccountsInv => FileHoldsAccounts
  BY DEF AccountsInv
<1> QED
  BY <1>1, AccountsInvariance, PTL

(* A destructor that writes nothing loses nothing.                         *)
THEOREM CloseLosesNothing == LifeSpec => []NothingToSave
<1>1. AccountsInv => NothingToSave
  BY DEF AccountsInv, KeptInv
<1> QED
  BY <1>1, AccountsInvariance, PTL

(* No account that was saved is ever lost or gets another password, over   *)
(* every sequence of registrations, crashes and restarts.                  *)
THEOREM AccountsKept == LifeSpec => AccountsSurvive
<1>1. AccountsInv => KeptInv
  BY DEF AccountsInv
<1> QED
  BY <1>1, AccountsInvariance, KeptSurvives, PTL DEF LifeSpec, AccountsSurvive

=============================================================================
