--------------------------- MODULE TotalOrderRoom ---------------------------
(***************************************************************************)
(* What a chat room promises to the people in it, whatever the server does *)
(* inside: there is one sequence of messages, a member sees the messages   *)
(* posted while it is present, all of them, in that sequence, each once.   *)
(*                                                                         *)
(* The room does not say when a message is delivered, nor that a member    *)
(* that leaves gets what it is still owed.                                 *)
(***************************************************************************)
EXTENDS Naturals, Sequences

CONSTANTS
  Members,   \* those who may enter the room, each at most once
  Messages   \* what may be posted

VARIABLES
  log,        \* everything posted, in order
  fresh,      \* those who have not entered yet
  present,    \* those in the room
  joinedAt,   \* length of the log when the member entered
  owed,       \* log entries up to this one are for the member
  delivered   \* what the member was given, in order

roomVars == <<log, fresh, present, joinedAt, owed, delivered>>

Init ==
  /\ log = <<>>
  /\ fresh = Members
  /\ present = {}
  /\ joinedAt = [p \in Members |-> 0]
  /\ owed = [p \in Members |-> 0]
  /\ delivered = [p \in Members |-> <<>>]

Join(p) ==
  /\ p \in fresh
  /\ fresh' = fresh \ {p}
  /\ present' = present \cup {p}
  /\ joinedAt' = [joinedAt EXCEPT ![p] = Len(log)]
  /\ owed' = [owed EXCEPT ![p] = Len(log)]
  /\ UNCHANGED <<log, delivered>>

\* Posting owes the message to everybody present, and to nobody else.
Post(m) ==
  /\ log' = Append(log, m)
  /\ owed' = [p \in Members |-> IF p \in present THEN Len(log) + 1 ELSE owed[p]]
  /\ UNCHANGED <<fresh, present, joinedAt, delivered>>

\* The next message owed, never another one.
Deliver(p) ==
  LET next == joinedAt[p] + Len(delivered[p]) + 1
  IN  /\ next <= owed[p]
      /\ delivered' = [delivered EXCEPT ![p] = Append(@, log[next])]
      /\ UNCHANGED <<log, fresh, present, joinedAt, owed>>

\* A member leaves, or one that never entered gives up.
Leave(p) ==
  /\ p \in fresh \cup present
  /\ fresh' = fresh \ {p}
  /\ present' = present \ {p}
  /\ UNCHANGED <<log, joinedAt, owed, delivered>>

Next ==
  \/ \E p \in Members : Join(p) \/ Deliver(p) \/ Leave(p)
  \/ \E m \in Messages : Post(m)

Spec == Init /\ [][Next]_roomVars

=============================================================================
