-------------------------------- MODULE Misc --------------------------------
(***************************************************************************)
(* Characters, and the helper of tyfirc-misc that both text formats of the *)
(* program are read with.                                                  *)
(***************************************************************************)
EXTENDS Naturals, SequencesExt

(* A std::map: operator[] and the order of its keys.                       *)
MapWith(map, key, value) ==
  [k \in DOMAIN map \cup {key} |-> IF k = key THEN value ELSE map[k]]
Keys(S, before(_, _)) ==
  CHOOSE keys \in [1..Cardinality(S) -> S] :
    \A i, j \in 1..Cardinality(S) : i < j => before(keys[i], keys[j])

NUL   == 0
LF    == 10
US    == 31   \* "separator" of ScMessage
Space == 32
Colon == 58

(* internal::Split: getline until the end.  A last line may lack its       *)
(* delimiter, and an empty one is no line.                                 *)
Split(text, delimiter) ==
  LET step(acc, c) == IF c = delimiter THEN <<Append(acc[1], acc[2]), <<>>>>
                      ELSE <<acc[1], Append(acc[2], c)>>
      read == FoldLeft(step, <<<<>>, <<>>>>, text)
  IN  IF read[2] = <<>> THEN read[1] ELSE Append(read[1], read[2])

(* find: the first place of a character, 0 if there is none.               *)
Find(text, char) == SelectInSeq(text, LAMBDA c : c = char)

(* substr from place i to the end.                                         *)
From(text, i) == SubSeq(text, i, Len(text))

=============================================================================
