----------------------------- MODULE ChatClient -----------------------------
(***************************************************************************)
(* The client of src/tyfirc-client: IrcClientApp with its ChatRw, once for *)
(* each client.  Two threads use a ChatRw.  The user's thread calls        *)
(* Connect, Login, Register, WriteMessage and StopRead, one after the      *)
(* other; the reader thread is in StartRead.                               *)
(*                                                                         *)
(* A call that talks to the server and waits is two actions, start and     *)
(* return, with "call" in between.  What a frame, an error or a connection *)
(* is comes from the module that composes this one with a server: "link"   *)
(* says that the connection is there, frames are parameters.               *)
(***************************************************************************)
EXTENDS Naturals, Sequences, Protocol

CONSTANTS
  Clients,
  FirstStates,  \* what con_state_ may be in a new ChatRw
  Heard         \* messages as the server sends them

(* What the user's thread waits for. *)
NoCall      == [type |-> "NONE"]
ConnectCall == [type |-> "CONNECT"]
Calls == {NoCall, ConnectCall} \cup AuthRequest

(* What Login or Register returned, or that it threw. *)
Results == {"none", "true", "false", "threw"}

(* The reader thread. *)
ReaderStates ==
  {"none",      \* not started, or StartRead returned
   "starting",  \* started, StartRead not yet in its loop
   "reading",   \* in ReadScMessage
   "threw"}     \* an exception left StartRead

VARIABLES
  con,        \* con_state_
  isRead,     \* is_read_
  name,       \* IrcClientApp::username_
  call,       \* the call of the user's thread that waits for the server
  result,     \* what the last Login or Register returned
  reader,     \* the reader thread
  handled,    \* history: what the handler of messages was called with
  missed      \* history: how many messages of the room it was not

vars == <<con, isRead, name, call, result, reader, handled, missed>>

TypeOK ==
  /\ con \in [Clients -> ConnectionStates]
  /\ isRead \in [Clients -> BOOLEAN]
  /\ name \in [Clients -> Users \cup {NoUser}]
  /\ call \in [Clients -> Calls]
  /\ result \in [Clients -> Results]
  /\ reader \in [Clients -> ReaderStates]
  /\ handled \in [Clients -> Seq(Heard)]
  /\ missed \in [Clients -> Nat]

(* The constructors leave con_state_ and is_read_ uninitialised; is_read_  *)
(* is not read before StartRead sets it.                                   *)
Init ==
  /\ con \in [Clients -> FirstStates]
  /\ isRead = [c \in Clients |-> FALSE]
  /\ name = [c \in Clients |-> NoUser]
  /\ call = [c \in Clients |-> NoCall]
  /\ result = [c \in Clients |-> "none"]
  /\ reader = [c \in Clients |-> "none"]
  /\ handled = [c \in Clients |-> <<>>]
  /\ missed = [c \in Clients |-> 0]

IsConnected(c) == con[c] # "NotConnected"
IsLoggedIn(c)  == con[c] = "LoggedIn"

Idle(c) == call[c] = NoCall
Return(c) == call' = [call EXCEPT ![c] = NoCall]

-----------------------------------------------------------------------------
(* The user's thread *)

(* Connect, when it does not return false at once. *)
Connect(c) ==
  /\ Idle(c) /\ ~IsConnected(c)
  /\ call' = [call EXCEPT ![c] = ConnectCall]
  /\ UNCHANGED <<con, isRead, name, result, reader, handled, missed>>

(* Connection and handshake are done. *)
ConnectDone(c) ==
  /\ call[c] = ConnectCall
  /\ con' = [con EXCEPT ![c] = "Connected"]
  /\ Return(c)
  /\ UNCHANGED <<isRead, name, result, reader, handled, missed>>

(* One of them failed: false. *)
ConnectFails(c) ==
  /\ call[c] = ConnectCall
  /\ Return(c)
  /\ UNCHANGED <<con, isRead, name, result, reader, handled, missed>>

(* Login and Register: Auth writes the request and waits for a message.    *)
(* The user does not call them while the reader thread runs or when one    *)
(* has returned true.                                                      *)
Auth(c, req) ==
  /\ Idle(c) /\ IsConnected(c)
  /\ reader[c] \in {"none", "threw"} /\ result[c] # "true"
  /\ call' = [call EXCEPT ![c] = req]
  /\ UNCHANGED <<con, isRead, name, result, reader, handled, missed>>

(* Auth takes whatever message comes first for the answer. *)
SuccessOf(req) ==
  IF req.type = "LOGIN" THEN "LOGIN_SUCCESS" ELSE "REGISTER_SUCCESS"

SaysAnything(req, frame) == TRUE                                    \* mutant
SaysSuccess(req, frame) ==
  frame.kind = "answer" /\ frame.type = SuccessOf(req)

AuthReturns(c, frame) ==
  LET ok == SaysSuccess(call[c], frame)
  IN  /\ call[c] \in AuthRequest
      /\ Return(c)
      /\ result' = [result EXCEPT ![c] = IF ok THEN "true" ELSE "false"]
      /\ con' = IF ok THEN [con EXCEPT ![c] = "LoggedIn"] ELSE con
      /\ name' = IF ok THEN [name EXCEPT ![c] = call[c].user] ELSE name
      /\ missed' = IF frame.kind = "answer" THEN missed
                   ELSE [missed EXCEPT ![c] = @ + 1]
      /\ UNCHANGED <<isRead, reader, handled>>

(* Writing or reading throws system_error. *)
AuthThrows(c) ==
  /\ call[c] \in AuthRequest
  /\ Return(c)
  /\ con' = [con EXCEPT ![c] = "NotConnected"]
  /\ result' = [result EXCEPT ![c] = "threw"]
  /\ UNCHANGED <<isRead, name, reader, handled, missed>>

(* WriteMessage, as far as the client goes: only the connection is asked   *)
(* for, and an error changes nothing.                                      *)
WriteMessage(c) ==
  /\ Idle(c) /\ IsConnected(c)
  /\ UNCHANGED vars

StopRead(c) ==
  /\ Idle(c) /\ reader[c] \in {"starting", "reading"}
  /\ isRead' = [isRead EXCEPT ![c] = FALSE]
  /\ UNCHANGED <<con, name, call, result, reader, handled, missed>>

SpawnReader(c) ==
  /\ Idle(c) /\ reader[c] = "none"
  /\ reader' = [reader EXCEPT ![c] = "starting"]
  /\ UNCHANGED <<con, isRead, name, call, result, handled, missed>>

-----------------------------------------------------------------------------
(* The reader thread *)

StartRead(c) ==
  /\ reader[c] = "starting"
  /\ IF IsLoggedIn(c)
     THEN /\ isRead' = [isRead EXCEPT ![c] = TRUE]
          /\ reader' = [reader EXCEPT ![c] = "reading"]
     ELSE /\ reader' = [reader EXCEPT ![c] = "threw"]
          /\ UNCHANGED isRead
  /\ UNCHANGED <<con, name, call, result, handled, missed>>

(* One round of the loop: a message goes to its handler, what is no        *)
(* message of the protocol to the other one, the rest is ignored.  Whether *)
(* to go on is asked afterwards.                                           *)
HandleUnlessStopped(c, m) ==                                        \* mutant
  handled' = IF isRead[c] THEN [handled EXCEPT ![c] = Append(@, m)] ELSE handled
Handle(c, m) == handled' = [handled EXCEPT ![c] = Append(@, m)]

Read(c, frame) ==
  /\ reader[c] = "reading"
  /\ IF frame.kind = "chat" THEN Handle(c, frame.msg) ELSE UNCHANGED handled
  /\ missed' = IF frame.kind = "garbage"
               THEN [missed EXCEPT ![c] = @ + 1] ELSE missed
  /\ reader' = IF isRead[c] THEN reader ELSE [reader EXCEPT ![c] = "none"]
  /\ UNCHANGED <<con, isRead, name, call, result>>

(* ReadScMessage throws; nothing tells con_state_. *)
ReadThrows(c) ==
  /\ reader[c] = "reading"
  /\ reader' = [reader EXCEPT ![c] = "threw"]
  /\ UNCHANGED <<con, isRead, name, call, result, handled, missed>>

=============================================================================
