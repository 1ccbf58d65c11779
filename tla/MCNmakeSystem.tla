---------------------------- MODULE MCNmakeSystem ----------------------------
(***************************************************************************)
(* The instance of NmakeSystem: two clients, of which one registers,       *)
(* listens and stays, and the other does what it likes.                    *)
(***************************************************************************)
EXTENDS NmakeSystem

CONSTANTS anna, boris, right

MCInitialAccounts == [u \in Users |-> IF u = anna THEN right ELSE NoPassword]
MCTexts == [user : Users \cup {NoUser}, words : Words]

(* Bounds on what users do.  The n-th request of a client, if it is a      *)
(* message, says n.  As in main, nobody writes before he has tried to log  *)
(* in.  The last request is not another try.                               *)
MCWords == 1..MaxSends

MCUser == \A s \in Sessions :
  LET req == inbox'[s][Len(inbox'[s])]
  IN  sends'[s] # sends[s] =>
        IF req.type = "MESSAGE"
        THEN req.text.words = sends'[s] /\ result[s] # "none"
        ELSE sends'[s] < MaxSends

Login(u, p)    == [type |-> "LOGIN", user |-> u, pass |-> p]
Register(u, p) == [type |-> "REGISTER", user |-> u, pass |-> p]
Say(x)         == [type |-> "MESSAGE", text |-> x]

\* Who logs in as boris before somebody registered him fails.
MCRequests ==
  {Login(boris, right), Register(boris, right)} \cup {Say(x) : x \in Texts}

(* Bound: the clients that may leave are accepted first, so that they are  *)
(* in front of the others in the list of sessions.                         *)
ListenersLast == \A s \in Sessions \ Listeners : pc[s] # "idle"

(* Bound: when the server has ended or no client is connected or can       *)
(* connect any more, nothing reaches a client.                             *)
SomebodyStays ==
  alive /\ \E s \in Sessions : link[s] \/ pc[s] \in {"idle", "accept"}

=============================================================================
