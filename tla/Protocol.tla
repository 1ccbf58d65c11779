------------------------------ MODULE Protocol ------------------------------
(***************************************************************************)
(* What clients and servers say to each other, as far as the handlers of   *)
(* the servers tell it apart.  Both servers use the same messages.         *)
(***************************************************************************)
EXTENDS Accounts

CONSTANTS
  Texts,   \* message texts
  NoUser   \* username_ before a successful authentication

ASSUME NoUserAssumption == NoUser \notin Users

(* What a client can put on the wire.                                      *)
(*   BADBODY:   a MESSAGE whose body Message::Deserialize rejects          *)
(*   OTHER:     any other message type of the protocol                     *)
(*   MALFORMED: text that ScMessage::Deserialize rejects, or a message     *)
(*              without a property the handler asks for                    *)
AuthRequest == [type : {"LOGIN", "REGISTER"}, user : Users, pass : Passwords]
ChatRequest == [type : {"MESSAGE"}, text : Texts]
OddRequest  == [type : {"BADBODY", "OTHER", "MALFORMED"}]
AllRequests == AuthRequest \cup ChatRequest \cup OddRequest

(* The answers to an authentication request. *)
SuccessAnswers == {"LOGIN_SUCCESS", "REGISTER_SUCCESS"}
FailureAnswers == {"LOGIN_FAILURE", "REGISTER_FAILURE", "FORMAT_FAILURE"}
Answers == SuccessAnswers \cup FailureAnswers

(* A message of the room, under the name the server gives it. *)
ChatMessage == [user : Users, text : Texts]

(* What the server puts on the wire.  "garbage" is what is read from       *)
(* memory that was freed in the meantime.                                  *)
Frame == [kind : {"chat"}, msg : ChatMessage]
           \cup [kind : {"answer"}, type : Answers]
           \cup [kind : {"garbage"}]

ChatFrame(m)   == [kind |-> "chat", msg |-> m]
AnswerFrame(t) == [kind |-> "answer", type |-> t]
Garbage        == [kind |-> "garbage"]

ConnectionStates == {"NotConnected", "Connected", "LoggedIn"}

=============================================================================
