----------------------------- MODULE MessagePack -----------------------------
(***************************************************************************)
(* MessagePack of src/tyfirc: messages sorted by time.  The object is      *)
(* given packs of messages and asked to delete by index, in any order.     *)
(***************************************************************************)
EXTENDS Integers, SequencesExt

CONSTANTS
  Messages,  \* records with a field "time"
  SizeMod,   \* values of size_t: 2 to the number of its bits
  MaxGiven,  \* bound: messages given to the object in its life
  MaxPack    \* bound: messages in one argument

ASSUME PackAssumption ==
  /\ \A m \in Messages : m.time \in Nat
  /\ IsFiniteSet(Messages)
  /\ MaxGiven \in Nat /\ MaxPack \in 0..MaxGiven
  /\ SizeMod \in Nat /\ SizeMod > MaxGiven + 1

VARIABLES
  data,    \* data_
  broken,  \* has Delete done what has no defined behaviour?
  given,   \* history: how often each message was given to the object
  taken    \* history: how often Delete returned it

vars == <<data, broken, given, taken>>

-----------------------------------------------------------------------------
Later(m, n) == m.time > n.time
InOrder(p) == \A i, j \in DOMAIN p : i < j => ~Later(p[i], p[j])

(* What the constructor can make of a vector: sort is not stable.          *)
Packs == {p \in BoundedSeq(Messages, MaxPack) : InOrder(p)}

Count(p, m) == Cardinality({i \in DOMAIN p : p[i] = m})
CountUp(bag, p) == [m \in Messages |-> bag[m] + Count(p, m)]
Total(bag) == FoldFunction(+, 0, bag)

TypeOK ==
  /\ data \in Seq(Messages)
  /\ broken \in BOOLEAN
  /\ given \in [Messages -> Nat]
  /\ taken \in [Messages -> Nat]

Init ==
  /\ data \in Packs
  /\ broken = FALSE
  /\ given = [m \in Messages |-> Count(data, m)]
  /\ taken = [m \in Messages |-> 0]

-----------------------------------------------------------------------------
(* Insert *)

(* find_if: where the first later message stands, or the end. *)
FindAfter(p, m) ==
  LET i == SelectInSeq(p, LAMBDA n : Later(n, m))
  IN  IF i = 0 THEN Len(p) + 1 ELSE i

(* std::merge: of equal ones, those of p come first. *)
Unfilled(p, q) == [i \in DOMAIN p |-> [p[i] EXCEPT !.time = 0]] \o q  \* mutant
SetUnion(p, q) == p \o SelectSeq(q, LAMBDA m : m \notin ToSet(p))    \* mutant
Merge(p, q) ==
  LET merged[d \in (0..Len(p)) \X (0..Len(q))] ==
        LET i == d[1]
            j == d[2]
        IN  IF i = 0 THEN SubSeq(q, 1, j)
            ELSE IF j = 0 THEN SubSeq(p, 1, i)
            ELSE IF Later(p[i], q[j]) THEN Append(merged[<<i - 1, j>>], p[i])
            ELSE Append(merged[<<i, j - 1>>], q[j])
  IN  merged[<<Len(p), Len(q)>>]

(* The pack "new" comes in; an empty one changes nothing. *)
Given(new) ==
  /\ ~broken /\ new # <<>>
  /\ Total(given) + Len(new) <= MaxGiven
  /\ given' = CountUp(given, new)
  /\ UNCHANGED <<broken, taken>>

InsertFirst(new) ==
  /\ Given(new) /\ data = <<>>
  /\ data' = new

InsertOne(new) ==
  /\ Given(new) /\ data # <<>> /\ Len(new) = 1
  /\ data' = InsertAt(data, FindAfter(data, new[1]), new[1])

(* Packs that do not overlap are not merged. *)
IsAfterFirst(new) == ~Later(data[1], new[1])                        \* mutant
IsAfter(new)  == ~Later(Last(data), new[1])
IsBefore(new) == ~Later(Last(new), data[1])

InsertAfter(new) ==
  /\ Given(new) /\ data # <<>> /\ Len(new) > 1 /\ IsAfter(new)
  /\ data' = data \o new

InsertBefore(new) ==
  /\ Given(new) /\ data # <<>> /\ Len(new) > 1 /\ ~IsAfter(new) /\ IsBefore(new)
  /\ data' = new \o data

InsertMerged(new) ==
  /\ Given(new) /\ data # <<>> /\ Len(new) > 1 /\ ~IsAfter(new) /\ ~IsBefore(new)
  /\ data' = Merge(data, new)

-----------------------------------------------------------------------------
(* Delete *)

(* The index is compared with size() - 1, a size_t. *)
BoundedBySize(index) == index >= 0 /\ index <= Len(data)            \* mutant
IsInBounds(index) == index >= 0 /\ index <= (Len(data) - 1) % SizeMod

Delete(index) ==
  /\ ~broken /\ IsInBounds(index) /\ index < Len(data)
  /\ taken' = CountUp(taken, <<data[index + 1]>>)
  /\ data' = RemoveAt(data, index + 1)
  /\ UNCHANGED <<broken, given>>

(* data_[index] and erase(begin() + index) with no such element. *)
DeleteBeyond(index) ==
  /\ ~broken /\ IsInBounds(index) /\ index >= Len(data)
  /\ broken' = TRUE
  /\ UNCHANGED <<data, given, taken>>

Insert(new) ==
  \/ InsertFirst(new) \/ InsertOne(new)
  \/ InsertAfter(new) \/ InsertBefore(new) \/ InsertMerged(new)

Next ==
  \/ \E new \in Packs : Insert(new)
  \/ \E index \in -1 .. MaxGiven : Delete(index) \/ DeleteBeyond(index)

Spec == Init /\ [][Next]_vars

-----------------------------------------------------------------------------
(* Properties *)

(* "Guarantees that messages are sorted in ascending order by date",       *)
(* whichever way of inserting was chosen for each pack that came in.       *)
SortedByDate == InOrder(data)

(* No message is lost or comes up twice: what was inserted is there or was *)
(* returned by Delete.                                                     *)
NothingLost == \A m \in Messages : given[m] = taken[m] + Count(data, m)

(* "Does nothing if index is invalid", while there are messages: only for  *)
(* an empty pack does the wrapped bound let an index through that has no   *)
(* message.                                                                *)
BrokenOnlyEmpty == broken => data = <<>>

=============================================================================
