----------------------------- MODULE ChatSystem -----------------------------
(***************************************************************************)
(* The chat: the server of ChatServer with a client of ChatClient at the   *)
(* other end of every session.  Client c is the one whose connection       *)
(* Session c accepts.  A step of the client that writes or reads is one    *)
(* with the step of the connection that ChatServer leaves to its           *)
(* environment.                                                            *)
(***************************************************************************)
EXTENDS ChatServer

CONSTANTS
  FirstStates,  \* what con_state_ may be in a new ChatRw
  Listeners     \* bound: clients that try to log in once, then read and stay

ASSUME SystemAssumption ==
  FirstStates \subseteq ConnectionStates /\ Listeners \subseteq Sessions

VARIABLES con, isRead, name, call, result, reader, handled, missed

C == INSTANCE ChatClient WITH Clients <- Sessions, Heard <- ChatMessage

programVars == <<con, isRead, name, call, result, reader, handled, missed>>
sysVars == <<vars, programVars>>

SysTypeOK == TypeOK /\ C!TypeOK

SysInit == Init /\ C!Init

(* The server has accepted the client and not finished with it. *)
Established(s) == link[s] /\ pc[s] \in {"readAuth", "answer", "readChat"}

-----------------------------------------------------------------------------
(* Steps *)

(* A session is accepted when its client connects, and the handshake takes *)
(* both sides.                                                             *)
Server(s) ==
  /\ Setup(s) \/ Dispatch(s) \/ Writer(s)
  /\ pc[s] \in {"accept", "handshake"} => call[s] = C!ConnectCall
  /\ UNCHANGED programVars

Network(s) ==
  /\ Transmit(s) \/ (s \notin Listeners /\ Disconnect(s))
  /\ UNCHANGED programVars

(* Connect returns. *)
Connected(s) ==
  /\ \/ Established(s) /\ C!ConnectDone(s)
     \/ pc[s] \notin {"idle", "accept", "handshake"} /\ ~Established(s)
          /\ C!ConnectFails(s)
  /\ UNCHANGED vars

Request(s) ==
  \E req \in Requests :
       /\ s \in Listeners => req \in AuthRequest /\ sends[s] = 0
       /\ \/ req \in AuthRequest /\ C!Auth(s, req)
          \/ req \in ChatRequest /\ C!WriteMessage(s)
       /\ ClientSend(s, req)

(* Without a connection Auth fails when it writes or when it reads. *)
Failure(s) ==
  /\ ~link[s]
  /\ \/ \E req \in Requests \cap AuthRequest : C!Auth(s, req)
     \/ C!AuthThrows(s)
  /\ UNCHANGED vars

Receive(s) ==
  /\ ClientReceive(s)
  /\ C!AuthReturns(s, Head(wire[s])) \/ C!Read(s, Head(wire[s]))

Reader(s) ==
  /\ C!StartRead(s) \/ (~link[s] /\ C!ReadThrows(s))
  /\ UNCHANGED vars

User(s) ==
  /\ C!Connect(s) \/ C!SpawnReader(s) \/ (s \notin Listeners /\ C!StopRead(s))
  /\ UNCHANGED vars

SysNext == \E s \in Sessions :
  \/ Server(s) \/ Network(s)
  \/ Connected(s) \/ Request(s) \/ Failure(s) \/ Receive(s)
  \/ Reader(s) \/ User(s)

SysSpec == SysInit /\ [][SysNext]_sysVars

(* The server as in ChatServer.  A client that waits for a message takes   *)
(* the next one and the reader thread runs; nobody has to call anything.   *)
SysFairness == \A s \in Sessions :
  /\ WF_sysVars(Dispatch(s) /\ UNCHANGED programVars)
  /\ WF_sysVars(Writer(s) /\ UNCHANGED programVars)
  /\ WF_sysVars(Transmit(s) /\ UNCHANGED programVars)
  /\ WF_sysVars(Receive(s))
  /\ WF_sysVars(Reader(s))

SysFairSpec == SysSpec /\ SysFairness

-----------------------------------------------------------------------------
(* Properties *)

(* A client that believes to be logged in is: whatever it took for an      *)
(* answer, its session is authenticated at the server (Auth against        *)
(* HandleAuthScMessage, over failed attempts, messages of the room read as *)
(* answers and an uninitialised con_state_).                               *)
ClientIsAuthenticated == \A s \in Sessions :
  result[s] = "true" \/ (C!IsLoggedIn(s) /\ Established(s))
    => answer[s] \in SuccessAnswers

(* From end to end: the handler of a client is called with the messages of *)
(* the room in their order, without gap or repeat, from where it began to  *)
(* listen, over stops and starts of the reader thread (StartRead).         *)
HandlersSeeTheRoom == \A s \in Sessions :
  IsWindow(log, joinedAt[s] + missed[s], handled[s], <<>>)

(* The first Login or Register of a client returns or throws: something    *)
(* always comes back, even if the answer itself waits in the TLS engine.   *)
FirstAuthReturns == \A s \in Sessions :
  (alive /\ link[s] /\ call[s] \in AuthRequest /\ sends[s] = 1)
    ~> (C!Idle(s) \/ ~link[s] \/ ~alive)

Speakers == Sessions \ Listeners

(* "User is acknowledged about successful read if written messages arrives *)
(* on read" (ChatRw::WriteMessage): a message the server finds in the      *)
(* input of a client that keeps reading is given to its own handler.       *)
MessageComesBack ==
  \A s \in Speakers : \A n \in 1 .. (MaxSends - 1) * Cardinality(Speakers) :
    (alive /\ link[s] /\ pc[s] = "readChat" /\ inbox[s] # <<>>
       /\ Head(inbox[s]).type = "MESSAGE" /\ Len(log) + 1 = n)
    ~> \/ joinedAt[s] + missed[s] + Len(handled[s]) >= n
       \/ reader[s] # "reading" \/ ~link[s] \/ ~alive

-----------------------------------------------------------------------------
(* What the comments of the source say and the code does not do *)

(* "Returns true if username-password was registered, false otherwise"     *)
(* (ChatRw::Login): who was told false is not logged in.                   *)
FalseMeansRefused == \A s \in Sessions :
  C!Idle(s) /\ result[s] = "false" => answer[s] \notin SuccessAnswers

=============================================================================
