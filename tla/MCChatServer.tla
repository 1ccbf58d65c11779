---------------------------- MODULE MCChatServer ----------------------------
(***************************************************************************)
(* Small instances of ChatServer: one account that exists, one that can be *)
(* registered, and for each run the requests that matter to its question.  *)
(***************************************************************************)
EXTENDS ChatServer, TLC

CONSTANTS anna, boris, right, wrong, hello

MCInitialAccounts == [u \in Users |-> IF u = anna THEN right ELSE NoPassword]

Login(u, p)    == [type |-> "LOGIN", user |-> u, pass |-> p]
Register(u, p) == [type |-> "REGISTER", user |-> u, pass |-> p]
Say(x)         == [type |-> "MESSAGE", text |-> x]
Odd(t)         == [type |-> t]

ChatRequests == {Login(anna, right), Say(hello)}

(* Every message has words of its own, so that a message that is lost,     *)
(* repeated or out of order is seen: the n-th request of a client, if it   *)
(* is a message, says <<client, n>>.                                       *)
OwnTexts == Sessions \X (1..MaxSends)

OwnRequests == {Login(anna, right)} \cup {Say(x) : x \in OwnTexts}

(* All that a client can send: also attempts that fail, one name that two  *)
(* clients may want to register, and what no handler expects.              *)
MixedRequests ==
  OwnRequests \cup
  {Login(anna, wrong), Login(boris, right), Register(boris, right),
   Odd("BADBODY"), Odd("OTHER"), Odd("MALFORMED")}

OwnWords == \A s \in Sessions :
  LET req == inbox'[s][Len(inbox'[s])]
  IN  sends'[s] # sends[s] /\ req.type = "MESSAGE"
        => req.text = <<s, sends'[s]>>

RetryRequests == {Login(anna, wrong), Login(anna, right)}

SessionSymmetry == Permutations(Sessions)

=============================================================================
