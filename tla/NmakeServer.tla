----------------------------- MODULE NmakeServer -----------------------------
(***************************************************************************)
(* The older chat server of src/nmake/tyfirc-server: IrcServerApp, Session *)
(* and SessionList.                                                        *)
(*                                                                         *)
(* Two threads.  The io thread runs io_service::run(): handlers of all     *)
(* sessions, one after the other.  The writer thread runs StartWrite: it   *)
(* walks once through the list of sessions for every message and writes    *)
(* it synchronously.  They share msg_queue_ (no lock), the list of         *)
(* sessions (locked when it is changed, not when it is walked), con_state_ *)
(* of every session (no lock) and a condition variable.                    *)
(*                                                                         *)
(* A handler is one action as long as it touches shared data once; one     *)
(* that touches it twice is two actions and holds the io thread between    *)
(* them (HoldingStates).  The unlocked accesses are data races.  The       *)
(* makefile compiles without optimization, so each one is one load or      *)
(* store of a pointer or an enumeration, and std::list links a new node    *)
(* only when it is complete: a reader sees the list before or after.       *)
(***************************************************************************)
EXTENDS Naturals, Sequences, FiniteSets, SequencesExt, Protocol

CONSTANTS
  Sessions,         \* Session objects, one for each async_accept
  NoText,           \* the text of a default constructed Message
  InitialAccounts,  \* auth_info_ after FileAuthManager::Setup
  Requests,         \* what clients send: a subset of AllRequests
  MaxSends          \* bound: requests one client sends

-----------------------------------------------------------------------------
(* Data *)

(* Inside a handler that has touched shared data and will do so again. *)
HoldingStates ==
  {"starting",  \* HandleAccept, between AddSession and Start
   "posting",   \* AddMessage, between push_back and notify_all
   "dropping"}  \* a failed answer, between LoggedIn and NotConnected

(* Where a session is on the io thread. *)
ControlStates == HoldingStates \cup
  {"idle",       \* the Session object does not exist yet
   "accept",     \* async_accept
   "handshake",  \* async_handshake
   "readAuth",   \* async_read_until, then HandleAuthScMessage
   "answer",     \* async_write of the answer to an authentication request
   "readChat",   \* async_read_until, then HandleScMessage
   "end"}        \* nothing

(* Where the writer thread is. *)
WriterStates ==
  {"check",       \* about to test for a next message
   "drowsy",      \* saw none, not waiting yet
   "asleep",      \* in new_msg_cv_.wait
   "pass",        \* about to look at the session under the iterator
   "clean",       \* saw it not connected, about to call CleanSession
   "write",       \* saw it logged in, in SyncWriteMessage
   "terminated"}  \* an exception left the thread: std::terminate

ASSUME NmakeAssumption ==
  /\ InitialAccounts \in Tables
  /\ Requests \subseteq AllRequests
  /\ MaxSends \in Nat

VARIABLES
  alive,        \* FALSE once an exception has ended the program
  authInfo,     \* FileAuthManager::auth_info_
  \* Session
  pc,           \* where the session is on the io thread
  conState,     \* con_state_
  username,     \* username_
  readBuffer,   \* read_buffer_: no message or one
  answer,       \* the last answer written
  \* shared by the threads
  sessionList,  \* SessionList::sessions_; its members' callbacks are bound
  msgQueue,     \* msg_queue_: nothing is ever removed
  \* the writer thread
  writer,       \* where it is
  curMsg,       \* cur_msg, as a position in msgQueue; 0 before the first
  curSession,   \* cur_session, as a position in sessionList; 0 is end()
  \* clients
  inbox,        \* requests sent by the client, not yet read
  link,         \* FALSE once the connection is lost
  sends,        \* requests the client sent so far
  \* history
  delivered     \* what was written to the session, as positions in msgQueue

sessionVars == <<pc, conState, username, readBuffer, answer>>
writerVars  == <<writer, curMsg, curSession>>
clientVars  == <<inbox, link, sends>>
vars == <<alive, authInfo, sessionVars, sessionList, msgQueue, writerVars,
          clientVars, delivered>>

(* What most handlers, and what the writer thread leaves alone. *)
writerSide == <<sessionList, msgQueue, writerVars, delivered>>
ioSide     == <<authInfo, sessionVars, msgQueue, clientVars>>

TypeOK ==
  /\ alive \in BOOLEAN
  /\ authInfo \in Tables
  /\ pc \in [Sessions -> ControlStates]
  /\ conState \in [Sessions -> ConnectionStates]
  /\ username \in [Sessions -> Users \cup {NoUser}]
  /\ readBuffer \in [Sessions -> Seq(Requests)]
  /\ answer \in [Sessions -> Answers \cup {"none"}]
  /\ sessionList \in Seq(Sessions)
  /\ msgQueue \in Seq(Texts \cup {NoText})
  /\ writer \in WriterStates
  /\ curMsg \in 0..Len(msgQueue)
  /\ curSession \in 0..Len(sessionList)
  /\ inbox \in [Sessions -> Seq(Requests)]
  /\ link \in [Sessions -> BOOLEAN]
  /\ sends \in [Sessions -> Nat]
  /\ delivered \in [Sessions -> Seq(Nat)]

(* The constructor, main's StartAccept, and Run, which starts the writer. *)
Init ==
  /\ alive = TRUE
  /\ authInfo = InitialAccounts
  /\ \E first \in Sessions :
       pc = [s \in Sessions |-> IF s = first THEN "accept" ELSE "idle"]
  /\ conState = [s \in Sessions |-> "NotConnected"]
  /\ username = [s \in Sessions |-> NoUser]
  /\ readBuffer = [s \in Sessions |-> <<>>]
  /\ answer = [s \in Sessions |-> "none"]
  /\ sessionList = <<>>
  /\ msgQueue = <<>>
  /\ writer = "check"
  /\ curMsg = 0
  /\ curSession = 0
  /\ inbox = [s \in Sessions |-> <<>>]
  /\ link = [s \in Sessions |-> FALSE]
  /\ sends = [s \in Sessions |-> 0]
  /\ delivered = [s \in Sessions |-> <<>>]

Listed(s) == \E i \in DOMAIN sessionList : sessionList[i] = s

(* No handler is half done: the io thread can take the next one. *)
IoFree == alive /\ \A s \in Sessions : pc[s] \notin HoldingStates

-----------------------------------------------------------------------------
(* The client's end of the connection (external) *)

(* The client sends a request; its own handshake is over by then. *)
ClientSend(s, req) ==
  /\ alive /\ link[s]
  /\ pc[s] \in {"readAuth", "answer", "readChat", "posting"}
  /\ sends[s] < MaxSends
  /\ inbox' = [inbox EXCEPT ![s] = Append(@, req)]
  /\ sends' = [sends EXCEPT ![s] = @ + 1]
  /\ UNCHANGED <<alive, authInfo, sessionVars, writerSide, link>>

(* The client goes away or the network does. *)
Disconnect(s) ==
  /\ alive /\ link[s]
  /\ link' = [link EXCEPT ![s] = FALSE]
  /\ UNCHANGED <<alive, authInfo, sessionVars, writerSide, inbox, sends>>

-----------------------------------------------------------------------------
(* The io thread: IrcServerApp *)

(* StartAccept: a new Session object and an async_accept for it.  The pool *)
(* of objects is finite here: nothing is accepted once it is used up.      *)
StartAccept(pcs) ==
  IF \E t \in Sessions : pcs[t] = "idle"
  THEN \E t \in Sessions : pcs[t] = "idle" /\ pc' = [pcs EXCEPT ![t] = "accept"]
  ELSE pc' = pcs

(* HandleAccept without error, first half.  AddSession binds the callback  *)
(* and pushes the session under the lock.                                  *)
AddSession(s) ==
  /\ IoFree /\ pc[s] = "accept"
  /\ sessionList' = Append(sessionList, s)
  /\ link' = [link EXCEPT ![s] = TRUE]
  /\ pc' = [pc EXCEPT ![s] = "starting"]
  /\ UNCHANGED <<alive, authInfo, conState, username, readBuffer, answer,
                 msgQueue, writerVars, inbox, sends, delivered>>

(* Second half: Session::Start, StartAccept. *)
Start(s) ==
  /\ alive /\ pc[s] = "starting"
  /\ conState' = [conState EXCEPT ![s] = "Connected"]
  /\ StartAccept([pc EXCEPT ![s] = "handshake"])
  /\ UNCHANGED <<alive, authInfo, username, readBuffer, answer, writerSide,
                 clientVars>>

(* HandleAccept with an error: the object is dropped, StartAccept. *)
HandleAcceptError(s) ==
  /\ IoFree /\ pc[s] = "accept"
  /\ StartAccept([pc EXCEPT ![s] = "end"])
  /\ UNCHANGED <<alive, authInfo, conState, username, readBuffer, answer,
                 writerSide, clientVars>>

-----------------------------------------------------------------------------
(* The io thread: Session *)

(* The error branch of every handler.  The session stays in the list until *)
(* the writer thread finds it there.                                       *)
EndSession(s) ==
  /\ conState' = [conState EXCEPT ![s] = "NotConnected"]
  /\ pc' = [pc EXCEPT ![s] = "end"]

(* A read or the handshake completes with an error, or the write of the    *)
(* answer to a failed attempt does.                                        *)
ControlError(s) ==
  /\ IoFree
  /\ \/ pc[s] = "handshake"
     \/ pc[s] = "readAuth" /\ ~link[s] /\ readBuffer[s] = <<>>
     \/ pc[s] = "readChat" /\ ~link[s]
     \/ pc[s] = "answer" /\ ~link[s] /\ answer[s] \in FailureAnswers
  /\ EndSession(s)
  /\ UNCHANGED <<alive, authInfo, username, readBuffer, answer, writerSide,
                 clientVars>>

(* ReadLoginScMessage after the handshake. *)
HandshakeDone(s) ==
  /\ IoFree /\ pc[s] = "handshake" /\ link[s]
  /\ pc' = [pc EXCEPT ![s] = "readAuth"]
  /\ UNCHANGED <<alive, authInfo, conState, username, readBuffer, answer,
                 writerSide, clientVars>>

(* async_read_until finds a whole message in read_buffer_ and completes    *)
(* without reading, or reads the next one.  It does not remove anything.   *)
CanRead(s) == readBuffer[s] # <<>> \/ inbox[s] # <<>>
NextRequest(s) ==
  IF readBuffer[s] # <<>> THEN Head(readBuffer[s]) ELSE Head(inbox[s])
ReadUntil(s) ==
  IF readBuffer[s] # <<>>
  THEN UNCHANGED <<readBuffer, inbox>>
  ELSE /\ readBuffer' = [readBuffer EXCEPT ![s] = <<Head(inbox[s])>>]
       /\ inbox' = [inbox EXCEPT ![s] = Tail(@)]

(* async_write of the answer. *)
WriteAnswerLoggedIn(s, type) ==                                     \* mutant
  /\ answer' = [answer EXCEPT ![s] = type]
  /\ conState' = IF type \in SuccessAnswers
                 THEN [conState EXCEPT ![s] = "LoggedIn"] ELSE conState
  /\ pc' = [pc EXCEPT ![s] = "answer"]
WriteAnswer(s, type) ==
  /\ answer' = [answer EXCEPT ![s] = type]
  /\ pc' = [pc EXCEPT ![s] = "answer"]
  /\ UNCHANGED conState

(* A successful authentication names the session. *)
NameSession(s, ok, user) ==
  username' = IF ok THEN [username EXCEPT ![s] = user] ELSE username

(* HandleAuthScMessage, by the type of the message. *)
HandleLogin(s) ==
  LET req == NextRequest(s)
      ok  == LoginOk(authInfo, req.user, req.pass)
  IN  /\ IoFree /\ pc[s] = "readAuth" /\ CanRead(s) /\ req.type = "LOGIN"
      /\ ReadUntil(s)
      /\ NameSession(s, ok, req.user)
      /\ WriteAnswer(s, IF ok THEN "LOGIN_SUCCESS" ELSE "LOGIN_FAILURE")
      /\ UNCHANGED <<alive, authInfo, writerSide, link, sends>>

(* Register returns false for a name that is taken.  It has no return on   *)
(* the path that adds the account: what the caller sees then is undefined. *)
HandleRegister(s) ==
  LET req   == NextRequest(s)
      added == RegisterOk(authInfo, req.user)
  IN  /\ IoFree /\ pc[s] = "readAuth" /\ CanRead(s) /\ req.type = "REGISTER"
      /\ ReadUntil(s)
      /\ authInfo' = IF added THEN WithAccount(authInfo, req.user, req.pass)
                     ELSE authInfo
      /\ \E ok \in IF added THEN BOOLEAN ELSE {FALSE} :
           /\ NameSession(s, ok, req.user)
           /\ WriteAnswer(s, IF ok THEN "REGISTER_SUCCESS"
                             ELSE "REGISTER_FAILURE")
      /\ UNCHANGED <<alive, writerSide, link, sends>>

HandleFormatFailure(s) ==
  /\ IoFree /\ pc[s] = "readAuth" /\ CanRead(s)
  /\ NextRequest(s).type \in {"MESSAGE", "BADBODY", "OTHER"}
  /\ ReadUntil(s)
  /\ WriteAnswer(s, "FORMAT_FAILURE")
  /\ UNCHANGED <<alive, authInfo, username, writerSide, link, sends>>

(* Deserialize or GetProperty throws and nothing on the way up catches it. *)
UncaughtException(s) ==
  /\ IoFree /\ pc[s] \in {"readAuth", "readChat"} /\ CanRead(s)
  /\ NextRequest(s).type = "MALFORMED"
  /\ alive' = FALSE
  /\ ReadUntil(s)
  /\ UNCHANGED <<authInfo, pc, conState, username, answer, writerSide, link,
                 sends>>

(* The answer is written.  After a failure, ReadLoginScMessage leaves      *)
(* read_buffer_ as it is; after a success the session is LoggedIn and      *)
(* ReadScMessage clears it.                                                *)
AnswerDone(s) ==
  /\ IoFree /\ pc[s] = "answer"
  /\ IF answer[s] \in SuccessAnswers
     THEN /\ conState' = [conState EXCEPT ![s] = "LoggedIn"]
          /\ readBuffer' = [readBuffer EXCEPT ![s] = <<>>]
          /\ pc' = [pc EXCEPT ![s] = "readChat"]
     ELSE /\ pc' = [pc EXCEPT ![s] = "readAuth"]
          /\ UNCHANGED <<conState, readBuffer>>
  /\ UNCHANGED <<alive, authInfo, username, answer, writerSide, clientVars>>

(* The write of a successful answer fails.  The handler sets LoggedIn all  *)
(* the same, and then ReadScMessage sets NotConnected.                     *)
AnswerError(s) ==
  /\ IoFree /\ pc[s] = "answer" /\ ~link[s] /\ answer[s] \in SuccessAnswers
  /\ conState' = [conState EXCEPT ![s] = "LoggedIn"]
  /\ pc' = [pc EXCEPT ![s] = "dropping"]
  /\ UNCHANGED <<alive, authInfo, username, readBuffer, answer, writerSide,
                 clientVars>>

AnswerDropped(s) ==
  /\ alive /\ pc[s] = "dropping"
  /\ EndSession(s)
  /\ UNCHANGED <<alive, authInfo, username, readBuffer, answer, writerSide,
                 clientVars>>

(* HandleScMessage with a MESSAGE.  on_message_ calls AddMessage if the    *)
(* callback is still bound: push_back now, notify_all next.  If the body   *)
(* is rejected, the default constructed Message is posted.                 *)
HandleChatMessage(s) ==
  LET req == Head(inbox[s])
  IN  /\ IoFree /\ pc[s] = "readChat" /\ inbox[s] # <<>>
      /\ req.type \in {"MESSAGE", "BADBODY"}
      /\ inbox' = [inbox EXCEPT ![s] = Tail(@)]
      /\ IF Listed(s)
         THEN /\ msgQueue' = Append(msgQueue,
                   IF req.type = "MESSAGE" THEN req.text ELSE NoText)
              /\ pc' = [pc EXCEPT ![s] = "posting"]
         ELSE UNCHANGED <<msgQueue, pc>>
      /\ UNCHANGED <<alive, authInfo, conState, username, readBuffer, answer,
                     sessionList, writerVars, link, sends, delivered>>

(* notify_all, without new_msg_mutex_: it wakes the writer if it waits and *)
(* is lost otherwise.                                                      *)
WokenNot == UNCHANGED writer                                        \* mutant
Woken == writer' = IF writer = "asleep" THEN "check" ELSE writer

NotifyWriter(s) ==
  /\ alive /\ pc[s] = "posting"
  /\ Woken
  /\ pc' = [pc EXCEPT ![s] = "readChat"]
  /\ UNCHANGED <<alive, authInfo, conState, username, readBuffer, answer,
                 sessionList, msgQueue, curMsg, curSession, clientVars,
                 delivered>>

SkipChatMessage(s) ==
  /\ IoFree /\ pc[s] = "readChat" /\ inbox[s] # <<>>
  /\ Head(inbox[s]).type \in {"LOGIN", "REGISTER", "OTHER"}
  /\ inbox' = [inbox EXCEPT ![s] = Tail(@)]
  /\ UNCHANGED <<alive, authInfo, sessionVars, writerSide, link, sends>>

-----------------------------------------------------------------------------
(* The writer thread: StartWrite.  The wait for the first message and the  *)
(* wait for the next one are the same here, with curMsg = 0 for "none yet".*)

(* The test of the wait loop, outside the lock.  If there is a message,    *)
(* cur_msg moves to it and a pass through the sessions begins.             *)
CheckQueue ==
  /\ alive /\ writer = "check"
  /\ IF curMsg = Len(msgQueue)
     THEN /\ writer' = "drowsy"
          /\ UNCHANGED <<curMsg, curSession>>
     ELSE /\ writer' = "pass"
          /\ curMsg' = curMsg + 1
          /\ curSession' = IF sessionList = <<>> THEN 0 ELSE 1
  /\ UNCHANGED <<alive, ioSide, sessionList, delivered>>

(* Lock, wait. *)
FallAsleep ==
  /\ alive /\ writer = "drowsy"
  /\ writer' = "asleep"
  /\ UNCHANGED <<alive, ioSide, sessionList, curMsg, curSession, delivered>>

(* A wait on a condition variable may return without a notification. *)
SpuriousWake ==
  /\ alive /\ writer = "asleep"
  /\ writer' = "check"
  /\ UNCHANGED <<alive, ioSide, sessionList, curMsg, curSession, delivered>>

(* cur_session == sessions_.end() *)
EndPass ==
  /\ alive /\ writer = "pass" /\ curSession = 0
  /\ writer' = "check"
  /\ UNCHANGED <<alive, ioSide, sessionList, curMsg, curSession, delivered>>

(* Look at con_state_.  A session that is Connected and not LoggedIn is    *)
(* neither cleaned nor written to nor passed by: the loop looks again.     *)
LookAtSession ==
  /\ alive /\ writer = "pass" /\ curSession # 0
  /\ LET state == conState[sessionList[curSession]]
     IN  \/ state = "NotConnected" /\ writer' = "clean"
         \/ state = "LoggedIn" /\ writer' = "write"
  /\ UNCHANGED <<alive, ioSide, sessionList, curMsg, curSession, delivered>>

(* CleanSession returns the next element; the list is locked meanwhile, so *)
(* what is next is decided when the element goes.                          *)
ErasedSkip ==                                                       \* mutant
  /\ sessionList' = RemoveAt(sessionList, curSession)
  /\ curSession' = IF curSession + 1 < Len(sessionList) THEN curSession + 1
                   ELSE 0
ErasedStale ==                                                      \* mutant
  /\ sessionList' = RemoveAt(sessionList, curSession)
  /\ UNCHANGED curSession
Erased ==
  /\ sessionList' = RemoveAt(sessionList, curSession)
  /\ curSession' = IF curSession < Len(sessionList) THEN curSession ELSE 0

CleanSession ==
  /\ alive /\ writer = "clean"
  /\ Erased
  /\ writer' = "pass"
  /\ UNCHANGED <<alive, ioSide, curMsg, delivered>>

(* SyncWriteMessage returns: the message is in the hands of the transport. *)
(* ++ reads the link to the next element now: a session that is added      *)
(* after the iterator reached end() is not part of the pass.               *)
WriteDone ==
  LET s == sessionList[curSession]
  IN  /\ alive /\ writer = "write"
      /\ delivered' = [delivered EXCEPT ![s] = Append(@, curMsg)]
      /\ curSession' = IF curSession < Len(sessionList) THEN curSession + 1
                       ELSE 0
      /\ writer' = "pass"
      /\ UNCHANGED <<alive, ioSide, sessionList, curMsg>>

(* boost::asio::write throws system_error; the handler is for error_code&. *)
WriteThrows ==
  /\ alive /\ writer = "write" /\ ~link[sessionList[curSession]]
  /\ writer' = "terminated"
  /\ alive' = FALSE
  /\ UNCHANGED <<ioSide, sessionList, curMsg, curSession, delivered>>

-----------------------------------------------------------------------------
(* Next-state relation.  Dispatch is what run() owes a session whose       *)
(* operation is complete; Setup and the client are up to the environment.  *)
Dispatch(s) ==
  \/ Start(s)
  \/ HandleLogin(s) \/ HandleRegister(s) \/ HandleFormatFailure(s)
  \/ AnswerDone(s) \/ AnswerError(s) \/ AnswerDropped(s)
  \/ HandleChatMessage(s) \/ NotifyWriter(s) \/ SkipChatMessage(s)
  \/ UncaughtException(s)

Setup(s) ==
  \/ AddSession(s) \/ HandleAcceptError(s)
  \/ HandshakeDone(s) \/ ControlError(s)

Client(s) == (\E req \in Requests : ClientSend(s, req)) \/ Disconnect(s)

(* What the scheduler owes the writer thread. *)
WriterRuns ==
  \/ CheckQueue \/ FallAsleep
  \/ EndPass \/ LookAtSession \/ CleanSession
  \/ WriteDone \/ WriteThrows

Next ==
  \/ \E s \in Sessions : Setup(s) \/ Dispatch(s) \/ Client(s)
  \/ WriterRuns
  \/ SpuriousWake

Spec == Init /\ [][Next]_vars

(* Both threads are scheduled and clients read what is written to them, so *)
(* that a synchronous write returns or fails.  Spurious wake-ups are       *)
(* allowed, not promised.                                                  *)
Fairness ==
  /\ \A s \in Sessions : WF_vars(Dispatch(s))
  /\ WF_vars(WriterRuns)

FairSpec == Spec /\ Fairness

-----------------------------------------------------------------------------
(* Properties *)

(* Safety of the walk through an unlocked list that the other thread adds  *)
(* to and this one removes from, one message after the other.  Nobody is   *)
(* skipped: who was given a message is given every later one, up to the    *)
(* current message if the iterator is past it in this pass and up to the   *)
(* one before if it is not; and who is behind the iterator has been given  *)
(* the current message.                                                    *)
LastGiven(s) == delivered[s][Len(delivered[s])]

NoGaps == \A s \in Sessions : \A i \in 1 .. Len(delivered[s]) - 1 :
  delivered[s][i + 1] = delivered[s][i] + 1

Frontier == \A i \in 1..Len(sessionList) :
  LET s == sessionList[i]
  IN  IF curSession # 0 /\ i < curSession
      THEN delivered[s] # <<>> /\ LastGiven(s) = curMsg
      ELSE delivered[s] # <<>> =>
             LastGiven(s) = IF curSession = 0 THEN curMsg ELSE curMsg - 1

ServedInOrder == NoGaps /\ Frontier

(* "Must be set to LoggedIn ONLY after success message sent to client.  If *)
(* state is LoggedIn, session guarantees not to write to socket" (Session):*)
(* con_state_ is all that keeps the two threads from writing to one TLS    *)
(* stream at the same time.  While the writer thread is in                 *)
(* SyncWriteMessage, the io thread has neither a handshake nor an answer   *)
(* outstanding on that stream, whatever happened since con_state_ was read.*)
StreamHasOneWriter ==
  writer = "write" =>
    pc[sessionList[curSession]] \in {"readChat", "posting", "dropping", "end"}

(* "Contains sequence of messages to be written to sessions with logged in *)
(* clients": nothing is written to anybody without an account, over failed *)
(* attempts, replayed requests and registrations whose result is garbage.  *)
OnlyUsersAreServed ==
  /\ \A s \in Sessions : delivered[s] # <<>> =>
       username[s] # NoUser /\ HasAccount(authInfo, username[s])
  /\ writer = "write" =>
       LET s == sessionList[curSession]
       IN  username[s] # NoUser /\ HasAccount(authInfo, username[s])

(* What the three safety properties need to be inductive. *)

(* An object that was not accepted yet is untouched, and a session is in   *)
(* the list once: what is written to one position changes no other.        *)
NotAccepted == \A s \in Sessions : pc[s] \in {"idle", "accept"} =>
  ~Listed(s) /\ delivered[s] = <<>>

ListedOnce == \A i, j \in 1..Len(sessionList) :
  sessionList[i] = sessionList[j] => i = j

(* The iterator is at end() between the passes and only there or at the    *)
(* end of one, and a pass is for a message.                                *)
IteratorInPass ==
  /\ writer \in {"check", "drowsy", "asleep"} => curSession = 0
  /\ writer \in {"clean", "write"} => curSession # 0
  /\ curSession # 0 => curMsg # 0

(* LoggedIn is what the chat part of the protocol has, and nobody comes    *)
(* back from there.                                                        *)
LoggedInReadsChat == \A s \in Sessions :
  conState[s] = "LoggedIn" => pc[s] \in {"readChat", "posting", "dropping"}

(* Who was told it succeeded has the name of an account and never          *)
(* authenticates again, and nobody else is served.                         *)
Authenticated == \A s \in Sessions :
  /\ answer[s] \in SuccessAnswers =>
       /\ pc[s] \in {"answer", "readChat", "posting", "dropping", "end"}
       /\ username[s] \in Users
       /\ HasAccount(authInfo, username[s])
  /\ \/ pc[s] \in {"readChat", "posting", "dropping"}
     \/ delivered[s] # <<>>
     \/ writer = "write" /\ s = sessionList[curSession]
     => answer[s] \in SuccessAnswers

IInv ==
  /\ TypeOK
  /\ NotAccepted /\ ListedOnce /\ IteratorInPass
  /\ LoggedInReadsChat /\ Authenticated
  /\ ServedInOrder /\ StreamHasOneWriter

(* The writer looks at a session that is Connected and not LoggedIn.       *)
HeldUp == curSession # 0 /\ conState[sessionList[curSession]] = "Connected"

(* A notification that finds the writer asleep gets everything served that *)
(* is in the queue by then, messages left there by lost notifications      *)
(* included.  Nothing keeps the writer from it but a client that it has    *)
(* come to and that does not log in or leave, ever.                        *)
QueuePositions == 1 .. (MaxSends - 1) * Cardinality(Sessions)

BacklogIsServed == <>[]HeldUp \/
  \A n \in QueuePositions :
    (writer = "asleep" /\ Len(msgQueue) = n
       /\ \E s \in Sessions : pc[s] = "posting")
    ~> (curMsg > n \/ (curMsg = n /\ curSession = 0) \/ ~alive)

-----------------------------------------------------------------------------
(* What the comments of the source say and the code does not do *)

(* "Adds message to msg_queue and notifies Write thread about new message" *)
(* (IrcServerApp::AddMessage): the writer does not sleep on a message that *)
(* was added and notified.                                                 *)
WriterIsNotified ==
  writer = "asleep" /\ curMsg < Len(msgQueue)
    => \E s \in Sessions : pc[s] = "posting"

(* "After accept we 'atomically' push session to sessions_ and switch      *)
(* session to connected state" (IrcServerApp::HandleAccept): the writer    *)
(* does not take a new session for one that is gone, and who is logged in  *)
(* is in the list.                                                         *)
LoggedInIsListed == \A s \in Sessions : conState[s] = "LoggedIn" => Listed(s)

=============================================================================
