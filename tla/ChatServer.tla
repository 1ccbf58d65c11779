----------------------------- MODULE ChatServer -----------------------------
(***************************************************************************)
(* The chat server of src/tyfirc-server: IrcServerApp (accept loop),       *)
(* ChatRoom (the set of sessions) and Session (one client's protocol).     *)
(*                                                                         *)
(* One thread runs io_service::run(), so every completion handler is one   *)
(* atomic action.  A session has two chains of asynchronous operations     *)
(* that interleave: the control chain (handshake, read a request, write    *)
(* the answer, read chat messages) and the writer that drains msg_queue_.  *)
(* Both write to the same TLS stream.                                      *)
(*                                                                         *)
(* The TLS stream is external (boost::asio::ssl::stream).  Starting a      *)
(* write hands the bytes to the TLS engine at once (messages fit in one    *)
(* TLS record); the first writer on an idle transport sends all the engine *)
(* holds; a write started meanwhile waits for it and then completes        *)
(* without having sent anything itself, so its bytes stay in the engine    *)
(* until another write starts.  A write started during the handshake can   *)
(* only hand its bytes over when the handshake is done.                    *)
(***************************************************************************)
EXTENDS Naturals, Sequences, FiniteSets, Protocol

CONSTANTS
  Sessions,         \* Session objects, one for each async_accept
  InitialAccounts,  \* auth_info_ after FileAuthManager::Setup
  Requests,         \* what clients send: a subset of AllRequests
  MaxSends,         \* bound: requests one client sends
  WireCap           \* bound: frames in flight to one client (TCP window)

-----------------------------------------------------------------------------
(* Data *)

(* The outstanding operation of the control chain. *)
ControlStates ==
  {"idle",       \* the Session object does not exist yet
   "accept",     \* async_accept
   "handshake",  \* async_handshake
   "readAuth",   \* async_read_until, then HandleAuthScMessage
   "answer",     \* async_write of the answer to an authentication request
   "readChat",   \* async_read_until, then HandleScMessage
   "end"}        \* none

(* An asynchronous write on the TLS stream. *)
WriteStates ==
  {"none",       \* not outstanding
   "owner",      \* it is sending what the engine holds
   "waiter",     \* its bytes are in the engine, another write is sending
   "released",   \* the other write is done, this one is about to complete
   "deferred"}   \* started during the handshake, its bytes not yet taken

ASSUME ServerAssumption ==
  /\ InitialAccounts \in Tables
  /\ Requests \subseteq AllRequests
  /\ MaxSends \in Nat
  /\ WireCap \in Nat \ {0}

VARIABLES
  alive,        \* FALSE once an exception has left io_service::run()
  authInfo,     \* FileAuthManager::auth_info_
  room,         \* ChatRoom::sessions_
  \* Session
  pc,           \* outstanding operation of the control chain
  conState,     \* con_state_
  username,     \* username_
  readBuffer,   \* read_buffer_: no message or one
  answer,       \* the last answer written
  queue,        \* msg_queue_, the front being written
  \* the TLS stream and the connection of each session
  answerOp,     \* the write of the answer
  queueOp,      \* the write of the front of msg_queue_
  engine,       \* frames in the TLS engine or in the socket write, in order
  flight,       \* how many of them the socket write carries
  wire,         \* frames sent, not yet received by the client
  inbox,        \* requests sent by the client, not yet read
  link,         \* FALSE once the connection is lost
  sends,        \* requests the client sent so far
  \* history
  log,          \* all messages given to DeliverScMessage, in order
  joinedAt,     \* length of log when the session was put in the room
  delivered     \* messages popped from the session's queue after a write

controlVars == <<pc, conState, username, readBuffer, answer>>
tlsVars     == <<answerOp, queueOp, engine, flight>>
clientVars  == <<wire, inbox, link, sends>>
historyVars == <<log, joinedAt, delivered>>
vars == <<alive, authInfo, room, controlVars, queue, tlsVars, clientVars,
          historyVars>>

TypeOK ==
  /\ alive \in BOOLEAN
  /\ authInfo \in Tables
  /\ room \in SUBSET Sessions
  /\ pc \in [Sessions -> ControlStates]
  /\ conState \in [Sessions -> ConnectionStates]
  /\ username \in [Sessions -> Users \cup {NoUser}]
  /\ readBuffer \in [Sessions -> Seq(Requests)]
  /\ answer \in [Sessions -> Answers \cup {"none"}]
  /\ queue \in [Sessions -> Seq(ChatMessage)]
  /\ answerOp \in [Sessions -> WriteStates]
  /\ queueOp \in [Sessions -> WriteStates]
  /\ engine \in [Sessions -> Seq(Frame)]
  /\ flight \in [Sessions -> Nat]
  /\ wire \in [Sessions -> Seq(Frame)]
  /\ inbox \in [Sessions -> Seq(Requests)]
  /\ link \in [Sessions -> BOOLEAN]
  /\ sends \in [Sessions -> Nat]
  /\ log \in Seq(ChatMessage)
  /\ joinedAt \in [Sessions -> Nat]
  /\ delivered \in [Sessions -> Seq(ChatMessage)]

(* IrcServerApp's constructor and the first StartAccept. *)
Init ==
  /\ alive = TRUE
  /\ authInfo = InitialAccounts
  /\ room = {}
  /\ \E first \in Sessions :
       pc = [s \in Sessions |-> IF s = first THEN "accept" ELSE "idle"]
  /\ conState = [s \in Sessions |-> "NotConnected"]
  /\ username = [s \in Sessions |-> NoUser]
  /\ readBuffer = [s \in Sessions |-> <<>>]
  /\ answer = [s \in Sessions |-> "none"]
  /\ queue = [s \in Sessions |-> <<>>]
  /\ answerOp = [s \in Sessions |-> "none"]
  /\ queueOp = [s \in Sessions |-> "none"]
  /\ engine = [s \in Sessions |-> <<>>]
  /\ flight = [s \in Sessions |-> 0]
  /\ wire = [s \in Sessions |-> <<>>]
  /\ inbox = [s \in Sessions |-> <<>>]
  /\ link = [s \in Sessions |-> FALSE]
  /\ sends = [s \in Sessions |-> 0]
  /\ log = <<>>
  /\ joinedAt = [s \in Sessions |-> 0]
  /\ delivered = [s \in Sessions |-> <<>>]

-----------------------------------------------------------------------------
(* The TLS stream (external) *)

(* A write that starts while "other" is sending waits, else it sends. *)
StartedBeside(other) == IF other = "owner" THEN "waiter" ELSE "owner"

(* What becomes of the other write when one completes. *)
Released(other) == IF other = "waiter" THEN "released" ELSE other

(* A write completes without error. *)
MayComplete(s, op) == op = "released" \/ (op = "owner" /\ flight[s] = 0)

(* The transport moves one frame of the socket write to the client's side. *)
Transmit(s) ==
  /\ alive /\ link[s]
  /\ flight[s] > 0
  /\ Len(wire[s]) < WireCap
  /\ wire' = [wire EXCEPT ![s] = Append(@, Head(engine[s]))]
  /\ engine' = [engine EXCEPT ![s] = Tail(@)]
  /\ flight' = [flight EXCEPT ![s] = @ - 1]
  /\ UNCHANGED <<alive, authInfo, room, controlVars, queue, answerOp, queueOp,
                 inbox, link, sends, historyVars>>

-----------------------------------------------------------------------------
(* The client's end of the connection (external) *)

(* The client sends a request; its own handshake is over by then. *)
ClientSend(s, req) ==
  /\ alive /\ link[s]
  /\ pc[s] \in {"readAuth", "answer", "readChat"}
  /\ sends[s] < MaxSends
  /\ inbox' = [inbox EXCEPT ![s] = Append(@, req)]
  /\ sends' = [sends EXCEPT ![s] = @ + 1]
  /\ UNCHANGED <<alive, authInfo, room, controlVars, queue, tlsVars, wire,
                 link, historyVars>>

(* The client takes the next frame. *)
ClientReceive(s) ==
  /\ link[s]
  /\ wire[s] # <<>>
  /\ wire' = [wire EXCEPT ![s] = Tail(@)]
  /\ UNCHANGED <<alive, authInfo, room, controlVars, queue, tlsVars, inbox,
                 link, sends, historyVars>>

(* The client goes away or the network does. *)
Disconnect(s) ==
  /\ link[s]
  /\ link' = [link EXCEPT ![s] = FALSE]
  /\ UNCHANGED <<alive, authInfo, room, controlVars, queue, tlsVars, wire,
                 inbox, sends, historyVars>>

-----------------------------------------------------------------------------
(* IrcServerApp *)

(* StartAccept: a new Session object and an async_accept for it.  The pool *)
(* of objects is finite here: nothing is accepted once it is used up.      *)
StartAccept(pcs) ==
  IF \E t \in Sessions : pcs[t] = "idle"
  THEN \E t \in Sessions : pcs[t] = "idle" /\ pc' = [pcs EXCEPT ![t] = "accept"]
  ELSE pc' = pcs

(* HandleAccept without error: AddSession, Session::Start, StartAccept. *)
HandleAccept(s) ==
  /\ alive /\ pc[s] = "accept"
  /\ room' = room \cup {s}
  /\ conState' = [conState EXCEPT ![s] = "Connected"]
  /\ link' = [link EXCEPT ![s] = TRUE]
  /\ joinedAt' = [joinedAt EXCEPT ![s] = Len(log)]
  /\ StartAccept([pc EXCEPT ![s] = "handshake"])
  /\ UNCHANGED <<alive, authInfo, username, readBuffer, answer, queue, tlsVars,
                 wire, inbox, sends, log, delivered>>

(* HandleAccept with an error: the object is dropped, StartAccept. *)
HandleAcceptError(s) ==
  /\ alive /\ pc[s] = "accept"
  /\ StartAccept([pc EXCEPT ![s] = "end"])
  /\ UNCHANGED <<alive, authInfo, room, conState, username, readBuffer, answer,
                 queue, tlsVars, clientVars, historyVars>>

-----------------------------------------------------------------------------
(* ChatRoom::DeliverScMessage with Session::WriteScMessage on every        *)
(* session of the room: push_back, and start the writer if the queue was   *)
(* empty.                                                                  *)

(* The sessions WriteScMessage is called on. *)
RecipientsLoggedIn(m) == {t \in room : conState[t] = "LoggedIn"}    \* mutant
RecipientsAll(m)      == Sessions                                   \* mutant
RecipientsNoEcho(m)   == {t \in room : username[t] # m.user}        \* mutant
Recipients(m) == room

(* Those of them with is_writing false: msg_queue_ was empty. *)
NotWritingLoggedIn(S) ==                                            \* mutant
  {t \in S : queue[t] = <<>> /\ conState[t] = "LoggedIn"}
NotWritingEver(S) == S                                              \* mutant
NotWriting(S) == {t \in S : queue[t] = <<>>}

DeliverScMessage(m) ==
  LET reached  == Recipients(m)
      toStart  == NotWriting(reached)
      starting == {t \in toStart : pc[t] # "handshake"}
  IN  /\ queue' = [t \in Sessions |->
                     IF t \in reached THEN Append(queue[t], m) ELSE queue[t]]
      /\ queueOp' = [t \in Sessions |->
                       IF t \in starting THEN StartedBeside(answerOp[t])
                       ELSE IF t \in toStart THEN "deferred"
                       ELSE queueOp[t]]
      /\ engine' = [t \in Sessions |->
                      IF t \in starting THEN Append(engine[t], ChatFrame(m))
                      ELSE engine[t]]
      /\ flight' = [t \in Sessions |->
                      IF t \in starting /\ answerOp[t] # "owner"
                      THEN Len(engine[t]) + 1 ELSE flight[t]]
      /\ log' = Append(log, m)
      /\ UNCHANGED answerOp

-----------------------------------------------------------------------------
(* Session: the control chain *)

(* The error branch of every handler: NotConnected, RemoveSession. *)
DropButStay(s) ==                                                   \* mutant
  /\ conState' = [conState EXCEPT ![s] = "NotConnected"]
  /\ UNCHANGED room
DropOnce(s) ==                                                      \* mutant
  /\ conState' = IF s \in room THEN [conState EXCEPT ![s] = "NotConnected"]
                 ELSE conState
  /\ room' = room \ {s}
Drop(s) ==
  /\ conState' = [conState EXCEPT ![s] = "NotConnected"]
  /\ room' = room \ {s}

(* A read or the handshake completes with an error. *)
ControlError(s) ==
  /\ alive
  /\ \/ pc[s] = "handshake"
     \/ pc[s] = "readAuth" /\ ~link[s] /\ readBuffer[s] = <<>>
     \/ pc[s] = "readChat" /\ ~link[s]
  /\ Drop(s)
  /\ pc' = [pc EXCEPT ![s] = "end"]
  /\ UNCHANGED <<alive, authInfo, username, readBuffer, answer, queue, tlsVars,
                 clientVars, historyVars>>

(* The handshake is done: ReadLoginScMessage.  If the writer was started   *)
(* meanwhile, its bytes are taken now, from a string that WriteScMessage-  *)
(* Helper has already destroyed; the write then sends, or finds the last   *)
(* flight of the handshake being sent and completes after it.              *)
HandshakeDone(s) ==
  /\ alive /\ pc[s] = "handshake" /\ link[s]
  /\ pc' = [pc EXCEPT ![s] = "readAuth"]
  /\ IF queueOp[s] = "deferred"
     THEN /\ \E f \in {ChatFrame(Head(queue[s])), Garbage} :
               engine' = [engine EXCEPT ![s] = Append(@, f)]
          /\ \/ /\ queueOp' = [queueOp EXCEPT ![s] = "owner"]
                /\ flight' = [flight EXCEPT ![s] = Len(engine[s]) + 1]
             \/ /\ queueOp' = [queueOp EXCEPT ![s] = "released"]
                /\ UNCHANGED flight
     ELSE UNCHANGED <<engine, queueOp, flight>>
  /\ UNCHANGED <<alive, authInfo, room, conState, username, readBuffer, answer,
                 queue, answerOp, clientVars, historyVars>>

(* async_read_until finds a whole message in read_buffer_ and completes    *)
(* without reading, or reads the next one.  It does not remove anything.   *)
CanRead(s) == readBuffer[s] # <<>> \/ inbox[s] # <<>>
NextRequest(s) ==
  IF readBuffer[s] # <<>> THEN Head(readBuffer[s]) ELSE Head(inbox[s])
ReadUntil(s) ==
  IF readBuffer[s] # <<>>
  THEN UNCHANGED <<readBuffer, inbox>>
  ELSE /\ readBuffer' = [readBuffer EXCEPT ![s] = <<Head(inbox[s])>>]
       /\ inbox' = [inbox EXCEPT ![s] = Tail(@)]

(* async_write of the answer. *)
WriteAnswerNot(s, type) ==                                          \* mutant
  /\ answer' = [answer EXCEPT ![s] = type]
  /\ answerOp' = [answerOp EXCEPT ![s] = StartedBeside(queueOp[s])]
  /\ UNCHANGED <<engine, flight>>
  /\ pc' = [pc EXCEPT ![s] = "answer"]
WriteAnswer(s, type) ==
  /\ answer' = [answer EXCEPT ![s] = type]
  /\ answerOp' = [answerOp EXCEPT ![s] = StartedBeside(queueOp[s])]
  /\ engine' = [engine EXCEPT ![s] = Append(@, AnswerFrame(type))]
  /\ flight' = [flight EXCEPT
       ![s] = IF queueOp[s] = "owner" THEN @ ELSE Len(engine[s]) + 1]
  /\ pc' = [pc EXCEPT ![s] = "answer"]

(* A successful authentication names the session. *)
NameNobody(s, ok, user) == UNCHANGED username                       \* mutant
NameSession(s, ok, user) ==
  username' = IF ok THEN [username EXCEPT ![s] = user] ELSE username

(* HandleAuthScMessage, by the type of the message. *)
HandleLogin(s) ==
  LET req == NextRequest(s)
      ok  == LoginOk(authInfo, req.user, req.pass)
  IN  /\ alive /\ pc[s] = "readAuth" /\ CanRead(s) /\ req.type = "LOGIN"
      /\ ReadUntil(s)
      /\ NameSession(s, ok, req.user)
      /\ WriteAnswer(s, IF ok THEN "LOGIN_SUCCESS" ELSE "LOGIN_FAILURE")
      /\ UNCHANGED <<alive, authInfo, room, conState, queue, queueOp, wire,
                     link, sends, historyVars>>

HandleRegister(s) ==
  LET req == NextRequest(s)
      ok  == RegisterOk(authInfo, req.user)
  IN  /\ alive /\ pc[s] = "readAuth" /\ CanRead(s) /\ req.type = "REGISTER"
      /\ ReadUntil(s)
      /\ authInfo' = IF ok THEN WithAccount(authInfo, req.user, req.pass)
                     ELSE authInfo
      /\ NameSession(s, ok, req.user)
      /\ WriteAnswer(s, IF ok THEN "REGISTER_SUCCESS" ELSE "REGISTER_FAILURE")
      /\ UNCHANGED <<alive, room, conState, queue, queueOp, wire, link, sends,
                     historyVars>>

HandleFormatFailure(s) ==
  /\ alive /\ pc[s] = "readAuth" /\ CanRead(s)
  /\ NextRequest(s).type \in {"MESSAGE", "BADBODY", "OTHER"}
  /\ ReadUntil(s)
  /\ WriteAnswer(s, "FORMAT_FAILURE")
  /\ UNCHANGED <<alive, authInfo, room, conState, username, queue, queueOp,
                 wire, link, sends, historyVars>>

(* Deserialize or GetProperty throws and nothing on the way up catches it: *)
(* the exception leaves run() and main().                                  *)
UncaughtException(s) ==
  /\ alive /\ pc[s] \in {"readAuth", "readChat"} /\ CanRead(s)
  /\ NextRequest(s).type = "MALFORMED"
  /\ alive' = FALSE
  /\ ReadUntil(s)
  /\ UNCHANGED <<authInfo, room, pc, conState, username, answer, queue,
                 tlsVars, wire, link, sends, historyVars>>

(* The answer is written.  After a failure, ReadLoginScMessage leaves      *)
(* read_buffer_ as it is; after a success the session is LoggedIn and      *)
(* ReadScMessage clears it.                                                *)
AnswerDone(s) ==
  /\ alive /\ pc[s] = "answer" /\ MayComplete(s, answerOp[s])
  /\ answerOp' = [answerOp EXCEPT ![s] = "none"]
  /\ queueOp' = [queueOp EXCEPT ![s] = Released(@)]
  /\ IF answer[s] \in SuccessAnswers
     THEN /\ conState' = [conState EXCEPT ![s] = "LoggedIn"]
          /\ readBuffer' = [readBuffer EXCEPT ![s] = <<>>]
          /\ pc' = [pc EXCEPT ![s] = "readChat"]
     ELSE /\ pc' = [pc EXCEPT ![s] = "readAuth"]
          /\ UNCHANGED <<conState, readBuffer>>
  /\ UNCHANGED <<alive, authInfo, room, username, answer, queue, engine,
                 flight, clientVars, historyVars>>

(* The write of the answer fails: both continuations end in Drop. *)
AnswerError(s) ==
  /\ alive /\ pc[s] = "answer" /\ answerOp[s] = "owner" /\ ~link[s]
  /\ Drop(s)
  /\ pc' = [pc EXCEPT ![s] = "end"]
  /\ answerOp' = [answerOp EXCEPT ![s] = "none"]
  /\ queueOp' = [queueOp EXCEPT ![s] = Released(@)]
  /\ engine' = [engine EXCEPT ![s] = <<>>]
  /\ flight' = [flight EXCEPT ![s] = 0]
  /\ UNCHANGED <<alive, authInfo, username, readBuffer, answer, queue,
                 clientVars, historyVars>>

(* HandleScMessage: a MESSAGE is delivered to the room under the name of   *)
(* the session; everything else is skipped.  Then the next read.           *)
HandleChatMessage(s) ==
  /\ alive /\ pc[s] = "readChat" /\ inbox[s] # <<>>
  /\ Head(inbox[s]).type = "MESSAGE"
  /\ inbox' = [inbox EXCEPT ![s] = Tail(@)]
  /\ DeliverScMessage([user |-> username[s], text |-> Head(inbox[s]).text])
  /\ UNCHANGED <<alive, authInfo, room, controlVars, wire, link, sends,
                 joinedAt, delivered>>

SkipChatMessage(s) ==
  /\ alive /\ pc[s] = "readChat" /\ inbox[s] # <<>>
  /\ Head(inbox[s]).type \in {"LOGIN", "REGISTER", "BADBODY", "OTHER"}
  /\ inbox' = [inbox EXCEPT ![s] = Tail(@)]
  /\ UNCHANGED <<alive, authInfo, room, controlVars, queue, tlsVars, wire,
                 link, sends, historyVars>>

-----------------------------------------------------------------------------
(* Session: the writer, WriteScMessageHelper and its completion handler *)

(* Write the front of what is left, if anything is. *)
WriteNextNot(s, rest) ==                                            \* mutant
  /\ queueOp' = [queueOp EXCEPT ![s] = "none"]
  /\ UNCHANGED <<engine, flight>>
WriteNext(s, rest) ==
  IF rest = <<>>
  THEN /\ queueOp' = [queueOp EXCEPT ![s] = "none"]
       /\ UNCHANGED <<engine, flight>>
  ELSE /\ queueOp' = [queueOp EXCEPT ![s] = StartedBeside(answerOp[s])]
       /\ engine' = [engine EXCEPT ![s] = Append(@, ChatFrame(Head(rest)))]
       /\ flight' = [flight EXCEPT
            ![s] = IF answerOp[s] = "owner" THEN @ ELSE Len(engine[s]) + 1]

(* The front is written: pop it and write the next one. *)
QueueWriteDone(s) ==
  /\ alive /\ MayComplete(s, queueOp[s])
  /\ delivered' = [delivered EXCEPT ![s] = Append(@, Head(queue[s]))]
  /\ queue' = [queue EXCEPT ![s] = Tail(@)]
  /\ answerOp' = [answerOp EXCEPT ![s] = Released(@)]
  /\ WriteNext(s, Tail(queue[s]))
  /\ UNCHANGED <<alive, authInfo, room, controlVars, clientVars, log,
                 joinedAt>>

(* The write fails: NotConnected, RemoveSession.  The queue keeps its      *)
(* front and the control chain is left as it is.                           *)
QueueWriteError(s) ==
  /\ alive
  /\ \/ queueOp[s] = "owner" /\ ~link[s]
     \/ queueOp[s] = "deferred" /\ pc[s] = "end"
  /\ Drop(s)
  /\ queueOp' = [queueOp EXCEPT ![s] = "none"]
  /\ answerOp' = [answerOp EXCEPT ![s] = Released(@)]
  /\ engine' = [engine EXCEPT ![s] = <<>>]
  /\ flight' = [flight EXCEPT ![s] = 0]
  /\ UNCHANGED <<alive, authInfo, pc, username, readBuffer, answer, queue,
                 clientVars, historyVars>>

-----------------------------------------------------------------------------
(* Next-state relation.  Dispatch is what io_service::run() owes a session *)
(* whose operation is complete; the rest is up to clients and network.     *)
Dispatch(s) ==
  \/ HandleLogin(s) \/ HandleRegister(s) \/ HandleFormatFailure(s)
  \/ AnswerDone(s) \/ AnswerError(s)
  \/ HandleChatMessage(s) \/ SkipChatMessage(s)
  \/ UncaughtException(s)

Setup(s) ==
  \/ HandleAccept(s) \/ HandleAcceptError(s)
  \/ HandshakeDone(s) \/ ControlError(s)

Writer(s) == QueueWriteDone(s) \/ QueueWriteError(s)

Client(s) ==
  \/ \E req \in Requests : ClientSend(s, req)
  \/ ClientReceive(s)
  \/ Disconnect(s)

Next == \E s \in Sessions :
          Setup(s) \/ Dispatch(s) \/ Writer(s) \/ Transmit(s) \/ Client(s)

Spec == Init /\ [][Next]_vars

(* A session that was dropped reads from a connection on which a write has *)
(* already failed.                                                         *)
ReadFails(s) == pc[s] # "handshake" /\ s \notin room /\ ControlError(s)

(* run() dispatches the handler of every completed operation, the network  *)
(* carries what it is given and clients keep reading (ChatRw::StartRead).  *)
(* No client has to finish its handshake, to send or to stay, and nothing  *)
(* has to fail, but for a read after a failed write.                       *)
Fairness == \A s \in Sessions :
  /\ WF_vars(Dispatch(s))
  /\ WF_vars(Writer(s))
  /\ WF_vars(Transmit(s))
  /\ WF_vars(ClientReceive(s))
  /\ WF_vars(ReadFails(s))

FairSpec == Spec /\ Fairness

-----------------------------------------------------------------------------
(* Properties of the room *)

(* "After accept we 'atomically' push session to sessions_ and switch      *)
(* session to connected state": nobody sees a session in the room that is  *)
(* not connected, whichever of its operations fails first.                 *)
RoomIsConnected == \A s \in room : conState[s] # "NotConnected"

(* The writer of a session in the room runs exactly while there is         *)
(* something to write.  WriteScMessage starts it only on an empty queue    *)
(* and the completion handler only goes on with a non-empty one: if the    *)
(* two ever disagreed the queue would never be drained again.              *)
WriterRuns == \A s \in room : queueOp[s] # "none" <=> queue[s] # <<>>

(* d and then q are a run of the list l that starts after its k-th element. *)
IsWindow(l, k, d, q) ==
  /\ k + Len(d) + Len(q) <= Len(l)
  /\ \A i \in 1..Len(d) : d[i] = l[k + i]
  /\ \A i \in 1..Len(q) : q[i] = l[k + Len(d) + i]

(* ... a run that goes to the end of l. *)
ReachesEnd(l, k, d, q) == k + Len(d) + Len(q) = Len(l)

(* What a session was given and what waits in its queue are together a run *)
(* of the log that starts where it entered the room, without gap, repeat   *)
(* or reordering; for a session still in the room it reaches the end.      *)
QueueIsWindow == \A s \in Sessions :
  /\ IsWindow(log, joinedAt[s], delivered[s], queue[s])
  /\ s \in room => ReachesEnd(log, joinedAt[s], delivered[s], queue[s])

(* The frames between the server and a client, oldest first, and which of  *)
(* them, behind the i-th, are not answers.                                 *)
Stream(s) == wire[s] \o engine[s]
ChatsAfter(f, i) == {j \in i + 1 .. Len(f) : f[j].kind # "answer"}

(* The frames of f that are no answers are a run of the list l after its   *)
(* k-th element that ends with its n-th.  Garbage is only the first.       *)
IsMessage(l, k, frame, n) ==
  /\ n > k
  /\ frame = ChatFrame(l[n]) \/ (frame = Garbage /\ n = k + 1)
StreamIsWindow(l, k, n, f) ==
  \A i \in 1..Len(f) :
    f[i].kind # "answer" =>
      IsMessage(l, k, f[i], n - Cardinality(ChatsAfter(f, i)))

(* Where in the log the last message is that the writer has begun with.    *)
Written(s) ==
  joinedAt[s] + Len(delivered[s])
    + (IF queueOp[s] \in {"owner", "waiter", "released"} THEN 1 ELSE 0)

(* On the wire, too, chat messages are a run of the log that ends with the *)
(* last message written, however the two writers of the stream interleave. *)
(* Only the first message of a session may be garbage: the one its writer  *)
(* was started with during the handshake.                                  *)
WireIsWindow == \A s \in room :
  link[s] => StreamIsWindow(log, joinedAt[s], Written(s), Stream(s))

(* The server implements the room of TotalOrderRoom: accepting a session   *)
(* is entering it, DeliverScMessage is posting, and the completion of a    *)
(* queued write is a delivery.                                             *)
Room == INSTANCE TotalOrderRoom WITH
  Members  <- Sessions,
  Messages <- ChatMessage,
  fresh    <- {s \in Sessions : pc[s] \in {"idle", "accept"}},
  present  <- room,
  owed     <- [s \in Sessions |->
                 joinedAt[s] + Len(delivered[s]) + Len(queue[s])]

ImplementsRoom == Room!Spec

-----------------------------------------------------------------------------
(* Properties of authentication *)

(* Two clients that register the same name at the same time do not both    *)
(* succeed.                                                                *)
OneRegistrant == \A s, t \in Sessions :
  /\ answer[s] = "REGISTER_SUCCESS" /\ answer[t] = "REGISTER_SUCCESS"
  /\ s # t
  => username[s] # username[t]

(* Everything in the room was said under the name of an account, and a     *)
(* session that reads chat messages is authenticated: authentication cannot*)
(* be skipped on any path through failed attempts, replayed requests and   *)
(* write errors.                                                           *)
AuthorsHaveAccounts ==
  /\ \A i \in 1..Len(log) : HasAccount(authInfo, log[i].user)
  /\ \A s \in Sessions :
       pc[s] = "readChat" => /\ username[s] # NoUser
                             /\ HasAccount(authInfo, username[s])

-----------------------------------------------------------------------------
(* The inductive invariant behind the theorems of ChatServerProofs *)

(* A Session object that was not accepted yet is untouched: in particular  *)
(* it is not in the room, so nothing is put on its queue.                  *)
NotEntered == \A s \in Sessions : pc[s] \in {"idle", "accept"} =>
  /\ s \notin room
  /\ queue[s] = <<>>
  /\ delivered[s] = <<>>

(* WriterRuns, and what is left of it after the session was dropped.       *)
WriterHasWork == \A s \in Sessions :
  /\ queueOp[s] # "none" => queue[s] # <<>>
  /\ s \in room /\ queue[s] # <<>> => queueOp[s] # "none"

(* A socket write carries frames the engine holds. *)
FlightInEngine == \A s \in Sessions : flight[s] <= Len(engine[s])

(* A session that was told it succeeded, and only such a session gets to   *)
(* read chat messages, has the name of an account and never authenticates  *)
(* again.                                                                  *)
Authenticated == \A s \in Sessions :
  /\ answer[s] \in SuccessAnswers =>
       /\ pc[s] \in {"answer", "readChat", "end"}
       /\ username[s] \in Users
       /\ HasAccount(authInfo, username[s])
  /\ pc[s] = "readChat" => answer[s] \in SuccessAnswers

(* The safety properties proved and what they need to be inductive. *)
IInv ==
  /\ TypeOK
  /\ NotEntered /\ WriterHasWork /\ FlightInEngine /\ Authenticated
  /\ RoomIsConnected /\ QueueIsWindow
  /\ OneRegistrant /\ AuthorsHaveAccounts

-----------------------------------------------------------------------------
(* Liveness *)

(* Where in the log a message can be: every session spends a request on    *)
(* its authentication.                                                     *)
LogPositions == 1 .. (MaxSends - 1) * Cardinality(Sessions)

(* A message posted while a session past its handshake is in the room gets *)
(* written to it, unless the session is dropped or its connection is lost. *)
EveryMemberIsServed == \A s \in Sessions : \A n \in LogPositions :
  (alive /\ s \in room /\ pc[s] # "handshake"
     /\ joinedAt[s] < n /\ n <= Len(log))
  ~> (joinedAt[s] + Len(delivered[s]) >= n \/ ~link[s] \/ ~alive)

(* "User is acknowledged about successful read if written messages arrives *)
(* on read" (ChatRw::WriteMessage): a message the server finds in the      *)
(* input of a logged in client comes back to that client.                  *)
AuthorIsAcknowledged == \A s \in Sessions : \A n \in LogPositions :
  (alive /\ link[s] /\ pc[s] = "readChat" /\ inbox[s] # <<>>
     /\ Head(inbox[s]).type = "MESSAGE" /\ Len(log) + 1 = n)
  ~> \/ /\ joinedAt[s] + Len(delivered[s]) >= n
        /\ engine[s] = <<>> /\ wire[s] = <<>>
     \/ ~link[s] \/ ~alive

(* A failed write takes a session out of the room while its control chain  *)
(* goes on, which may still complete an answer, set it to LoggedIn, and    *)
(* post what the client sent before.  It does not stay so: the chain ends, *)
(* too, and leaves the session NotConnected, not LoggedIn outside the room.*)
DroppedEnds == \A s \in Sessions :
  (alive /\ s \notin room /\ pc[s] \notin {"idle", "accept"})
  ~> \/ pc[s] = "end" /\ conState[s] = "NotConnected"
     \/ ~alive

-----------------------------------------------------------------------------
(* What the comments of the source say and the code does not do *)

(* "ReadLoginScMessage again on failure": a client whose attempt failed is *)
(* listened to again.                                                      *)
NextAttemptIsRead == \A s \in Sessions :
  (alive /\ link[s] /\ pc[s] = "readAuth" /\ inbox[s] # <<>>
     /\ sends[s] = MaxSends)
  ~> (inbox[s] = <<>> \/ ~link[s] \/ ~alive)

=============================================================================
