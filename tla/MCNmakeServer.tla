---------------------------- MODULE MCNmakeServer ----------------------------
(***************************************************************************)
(* Small instances of NmakeServer: one account, and the requests that      *)
(* matter to each question.                                                *)
(***************************************************************************)
EXTENDS NmakeServer

CONSTANTS anna, boris, right, wrong, hello

MCInitialAccounts == [u \in Users |-> IF u = anna THEN right ELSE NoPassword]

Login(u, p)    == [type |-> "LOGIN", user |-> u, pass |-> p]
Register(u, p) == [type |-> "REGISTER", user |-> u, pass |-> p]
Say(x)         == [type |-> "MESSAGE", text |-> x]
Odd(t)         == [type |-> t]

ChatRequests == {Login(anna, right), Say(hello)}

\* A message whose body is rejected is posted like any other.  Failed logins
\* are the matter of MCNmakeSystem.
OddRequests == {Login(boris, right), Register(boris, right),
                Odd("BADBODY"), Odd("MALFORMED")}

\* Bound on what clients do: who registers does so first, and who sends what
\* no handler can read does so last.
FirstAndLast == \A s \in Sessions : sends'[s] # sends[s] =>
  LET type == inbox'[s][Len(inbox'[s])].type
  IN  /\ type = "REGISTER" => sends'[s] = 1
      /\ type = "MALFORMED" => sends'[s] = MaxSends

SessionSymmetry == Permutations(Sessions)

=============================================================================
