---------------------------- MODULE MCChatSystem ----------------------------
(***************************************************************************)
(* Two clients that log in with the account that exists and talk.          *)
(***************************************************************************)
EXTENDS ChatSystem, TLC

CONSTANTS anna, boris, right, wrong, hello

MCInitialAccounts == [u \in Users |-> IF u = anna THEN right ELSE NoPassword]

Login(u, p) == [type |-> "LOGIN", user |-> u, pass |-> p]
Say(x)      == [type |-> "MESSAGE", text |-> x]

ChatRequests == {Login(anna, right), Say(hello)}

(* Every message has words of its own: the n-th request of a client, if it *)
(* is a message, says <<client, n>>.                                       *)
OwnTexts == Sessions \X (1..MaxSends)

OwnRequests == {Login(anna, right)} \cup {Say(x) : x \in OwnTexts}

OwnWords == \A s \in Sessions :
  LET req == inbox'[s][Len(inbox'[s])]
  IN  sends'[s] # sends[s] /\ req.type = "MESSAGE"
        => req.text = <<s, sends'[s]>>

(* Bound: when no client is connected or can connect any more, what is     *)
(* left to do is not of interest to anybody.                               *)
SomebodyStays == \E s \in Sessions : link[s] \/ pc[s] \in {"idle", "accept"}

SessionSymmetry == Permutations(Sessions)

=============================================================================
