----------------------------- MODULE NmakeSystem -----------------------------
(***************************************************************************)
(* The older chat: the server of NmakeServer with a client of ChatClient,  *)
(* which is that of src/nmake/tyfirc-client, at the other end of every     *)
(* session.  The older server gives every message as it came: a text is a  *)
(* message here, with the name that the client puts in it.                 *)
(***************************************************************************)
EXTENDS NmakeServer

CONSTANTS
  Words,    \* what users type
  WireCap,  \* bound: a write completes when the client has no more to read
  Listeners \* bound: clients that register once, read and stay

ASSUME NmakeSystemAssumption ==
  /\ Texts \subseteq [user : Users \cup {NoUser}, words : Words]
  /\ WireCap \in Nat \ {0}
  /\ Listeners \subseteq Sessions

VARIABLES
  con, isRead, name, call, result, reader, handled, missed,
  wire      \* frames written to the client, not yet read

(* con_state_ is initialised here. *)
C == INSTANCE ChatClient WITH
       Clients <- Sessions, FirstStates <- {"NotConnected"}, Heard <- Texts

programVars == <<con, isRead, name, call, result, reader, handled, missed>>
sysVars == <<vars, programVars, wire>>

Frames == [kind : {"chat"}, msg : Texts] \cup [kind : {"answer"}, type : Answers]

SysTypeOK ==
  /\ TypeOK /\ C!TypeOK
  /\ wire \in [Sessions -> Seq(Frames)]

SysInit == Init /\ C!Init /\ wire = [s \in Sessions |-> <<>>]

(* The server has accepted the client and not finished with it. *)
Established(s) ==
  link[s] /\ pc[s] \in {"readAuth", "answer", "readChat", "posting"}

-----------------------------------------------------------------------------
(* Steps *)

(* What is written to a lost connection arrives nowhere. *)
Put(s, frame) ==
  wire' = IF link[s] THEN [wire EXCEPT ![s] = Append(@, frame)] ELSE wire
HasRoom(s, n) == Len(wire[s]) + n <= WireCap \/ ~link[s]

(* A session is accepted when its client connects, and the handshake takes *)
(* both sides.                                                             *)
Handshake(s) ==
  /\ call[s] = C!ConnectCall
  /\ AddSession(s) \/ HandleAcceptError(s) \/ HandshakeDone(s)
  /\ UNCHANGED <<programVars, wire>>

(* An answer can be read before the server knows that it is written. *)
Reply(s) ==
  /\ HandleLogin(s) \/ HandleRegister(s) \/ HandleFormatFailure(s)
  /\ Put(s, AnswerFrame(answer'[s]))
  /\ UNCHANGED programVars

Control(s) ==
  /\ \/ Start(s) \/ ControlError(s) \/ AnswerError(s) \/ AnswerDropped(s)
     \/ HasRoom(s, 0) /\ AnswerDone(s)
     \/ HandleChatMessage(s) \/ NotifyWriter(s) \/ SkipChatMessage(s)
  /\ UNCHANGED <<programVars, wire>>

(* SyncWriteMessage blocks while the client does not read. *)
Deliver ==
  /\ WriteDone
  /\ LET s == sessionList[curSession]
     IN  HasRoom(s, 1) /\ Put(s, ChatFrame(msgQueue[curMsg]))
  /\ UNCHANGED programVars

Writer ==
  /\ \/ CheckQueue \/ FallAsleep
     \/ EndPass \/ LookAtSession \/ CleanSession \/ WriteThrows
  /\ UNCHANGED <<programVars, wire>>

Environment ==
  /\ SpuriousWake \/ \E s \in Sessions \ Listeners : Disconnect(s)
  /\ UNCHANGED <<programVars, wire>>

(* Connect returns. *)
Connected(s) ==
  /\ \/ Established(s) /\ C!ConnectDone(s)
     \/ pc[s] \notin {"idle", "accept", "starting", "handshake"} /\ ~Established(s)
          /\ C!ConnectFails(s)
  /\ UNCHANGED <<vars, wire>>

(* IrcClientApp::WriteMessage puts username_ in the message. *)
Request(s) ==
  /\ C!Idle(s) /\ link[s] /\ sends[s] < MaxSends
  /\ \E req \in Requests :
       /\ s \in Listeners => req.type = "REGISTER" /\ sends[s] = 0
       /\ \/ req \in AuthRequest /\ C!Auth(s, req)
          \/ req \in ChatRequest /\ req.text.user = name[s] /\ C!WriteMessage(s)
       /\ ClientSend(s, req)
  /\ UNCHANGED wire

(* Without a connection Auth fails when it writes or when it reads. *)
Failure(s) ==
  /\ ~link[s]
  /\ \/ \E req \in Requests \cap AuthRequest : C!Auth(s, req)
     \/ C!AuthThrows(s)
  /\ UNCHANGED <<vars, wire>>

Receive(s) ==
  /\ link[s] /\ wire[s] # <<>>
  /\ C!AuthReturns(s, Head(wire[s])) \/ C!Read(s, Head(wire[s]))
  /\ wire' = [wire EXCEPT ![s] = Tail(@)]
  /\ UNCHANGED vars

Reader(s) ==
  /\ C!StartRead(s) \/ (~link[s] /\ C!ReadThrows(s))
  /\ UNCHANGED <<vars, wire>>

User(s) ==
  /\ C!Connect(s) \/ C!SpawnReader(s) \/ (s \notin Listeners /\ C!StopRead(s))
  /\ UNCHANGED <<vars, wire>>

SysNext ==
  \/ \E s \in Sessions :
       \/ Handshake(s) \/ Reply(s) \/ Control(s)
       \/ Connected(s) \/ Request(s) \/ Failure(s) \/ Receive(s)
       \/ Reader(s) \/ User(s)
  \/ Deliver \/ Writer \/ Environment

SysSpec == SysInit /\ [][SysNext]_sysVars

-----------------------------------------------------------------------------
(* Properties *)

(* A client that believes to be logged in is: whatever it took for the     *)
(* answer to its request, an old request answered again or a message of    *)
(* the room, its session is authenticated, has the name of an account and  *)
(* is past the part of the protocol that authenticates (Auth against       *)
(* HandleAuthScMessage).                                                   *)
ClientIsAuthenticated == \A s \in Sessions :
  result[s] = "true" \/ C!IsLoggedIn(s) =>
    /\ answer[s] \in SuccessAnswers
    /\ username[s] # NoUser /\ HasAccount(authInfo, username[s])
    /\ pc[s] \notin {"handshake", "readAuth"}

(* From end to end: the handler of a client is called with what others     *)
(* wrote, as they wrote it, in the order of msg_queue_, without gap or     *)
(* repeat, from the first message that Auth did not take for an answer,    *)
(* over stops and starts of the reader thread (StartWrite and StartRead).  *)
HandlersSeeTheRoom == \A s \in Sessions : \A i \in DOMAIN handled[s] :
  /\ missed[s] + i <= Len(delivered[s])
  /\ handled[s][i] = msgQueue[delivered[s][1] + missed[s] + i - 1]

=============================================================================
