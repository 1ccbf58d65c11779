-------------------------- MODULE ChatServerProofs --------------------------
(***************************************************************************)
(* Theorems about ChatServer, for any number of sessions, requests and     *)
(* messages: its safety properties are invariants of Spec, and Spec        *)
(* implements TotalOrderRoom.                                              *)
(*                                                                         *)
(* The argument: IInv (ChatServer) holds initially and every action        *)
(* preserves it, one lemma per handler.  The parts that are not properties *)
(* themselves are what the handlers rely on without checking it: a session *)
(* that was not accepted is untouched, a running writer has a message to   *)
(* write, a socket write carries frames that exist, and a session that     *)
(* reads chat messages has the name of an account.                         *)
(***************************************************************************)
EXTENDS ChatServer, SeqLemmas

-----------------------------------------------------------------------------
(* Windows of the log *)

(* A message posted to the room disturbs no window of the log: those who   *)
(* are not there do not notice it.                                         *)
LEMMA WindowGrows ==
  ASSUME NEW S, NEW l \in Seq(S), NEW x \in S, NEW k \in Nat,
         NEW d \in Seq(S), NEW q \in Seq(S), IsWindow(l, k, d, q)
  PROVE  IsWindow(Append(l, x), k, d, q)
BY DEF IsWindow

(* Queueing the message that is posted extends a window that reaches the   *)
(* end of the log to one that reaches the new end.                         *)
LEMMA WindowPush ==
  ASSUME NEW S, NEW l \in Seq(S), NEW x \in S, NEW k \in Nat,
         NEW d \in Seq(S), NEW q \in Seq(S),
         IsWindow(l, k, d, q), ReachesEnd(l, k, d, q)
  PROVE  /\ IsWindow(Append(l, x), k, d, Append(q, x))
         /\ ReachesEnd(Append(l, x), k, d, Append(q, x))
<1>1. /\ Len(Append(l, x)) = Len(l) + 1 /\ Len(Append(q, x)) = Len(q) + 1
      /\ Len(l) \in Nat /\ Len(q) \in Nat /\ Len(d) \in Nat
  BY PushSeq
<1>2. ReachesEnd(Append(l, x), k, d, Append(q, x))
  BY <1>1 DEF ReachesEnd
<1>3. \A i \in 1..Len(d) : d[i] = Append(l, x)[k + i]
  BY DEF IsWindow
<1>4. \A i \in 1..Len(q) : Append(q, x)[i] = Append(l, x)[k + Len(d) + i]
  BY <1>1, PushSeq DEF IsWindow, ReachesEnd
<1>5. Append(q, x)[Len(q) + 1] = Append(l, x)[k + Len(d) + (Len(q) + 1)]
  <2>1. k + Len(d) + (Len(q) + 1) = Len(l) + 1
    BY <1>1 DEF ReachesEnd
  <2> QED
    BY <2>1, PushSeq
<1>6. \A i \in 1..Len(q) + 1 : Append(q, x)[i] = Append(l, x)[k + Len(d) + i]
  <2> SUFFICES ASSUME NEW i \in 1..Len(q) + 1
               PROVE  Append(q, x)[i] = Append(l, x)[k + Len(d) + i]
    OBVIOUS
  <2>1. i \in 1..Len(q) \/ i = Len(q) + 1
    BY <1>1
  <2> QED
    BY <2>1, <1>4, <1>5
<1> QED
  BY <1>1, <1>2, <1>3, <1>6 DEF IsWindow, ReachesEnd

(* Moving the front of the queue to what was delivered keeps the window,   *)
(* and that front is the next entry of the log.                            *)
LEMMA WindowMoves ==
  ASSUME NEW S, NEW l \in Seq(S), NEW k \in Nat,
         NEW d \in Seq(S), NEW q \in Seq(S), q # <<>>, IsWindow(l, k, d, q)
  PROVE  /\ IsWindow(l, k, Append(d, Head(q)), Tail(q))
         /\ ReachesEnd(l, k, d, q) => ReachesEnd(l, k, Append(d, Head(q)), Tail(q))
         /\ Head(q) = l[k + Len(d) + 1]
         /\ k + Len(Append(d, Head(q))) + Len(Tail(q)) = k + Len(d) + Len(q)
<1>1. /\ Head(q) \in S /\ Head(q) = q[1] /\ Len(Tail(q)) = Len(q) - 1
      /\ Len(q) \in Nat \ {0} /\ Len(d) \in Nat
      /\ \A i \in 1..Len(q) - 1 : Tail(q)[i] = q[i + 1]
  BY PopSeq
<1>2. Len(Append(d, Head(q))) = Len(d) + 1
  BY <1>1, PushSeq
<1>3. Head(q) = l[k + Len(d) + 1]
  BY <1>1 DEF IsWindow
<1>4. k + Len(Append(d, Head(q))) + Len(Tail(q)) = k + Len(d) + Len(q)
  BY <1>1, <1>2
<1>5. \A i \in 1..Len(d) + 1 : Append(d, Head(q))[i] = l[k + i]
  BY <1>1, <1>3 DEF IsWindow
<1>6. \A i \in 1..Len(q) - 1 : Tail(q)[i] = l[k + (Len(d) + 1) + i]
  <2> SUFFICES ASSUME NEW i \in 1..Len(q) - 1 PROVE Tail(q)[i] = l[k + (Len(d) + 1) + i]
    OBVIOUS
  <2>1. q[i + 1] = l[k + Len(d) + (i + 1)]
    BY <1>1 DEF IsWindow
  <2>2. k + Len(d) + (i + 1) = k + (Len(d) + 1) + i
    BY <1>1
  <2> QED BY <1>1, <2>1, <2>2
<1> QED
  BY <1>1, <1>2, <1>3, <1>4, <1>5, <1>6 DEF IsWindow, ReachesEnd

-----------------------------------------------------------------------------
(* The inductive invariant *)

USE DEF controlVars, tlsVars, clientVars, historyVars

(* IInv holds when the server has just been constructed.                   *)
LEMMA InitInv == Init => IInv
<1> SUFFICES ASSUME Init PROVE IInv
  OBVIOUS
<1> USE DEF Init
<1>1. TypeOK
  BY ServerAssumption, NoUserAssumption DEF TypeOK, ControlStates, ConnectionStates, WriteStates, Tables
<1>2. NotEntered /\ WriterHasWork /\ FlightInEngine /\ Authenticated
  BY DEF NotEntered, WriterHasWork, FlightInEngine, Authenticated, SuccessAnswers
<1>3. RoomIsConnected /\ QueueIsWindow
  BY DEF RoomIsConnected, QueueIsWindow, IsWindow
<1>4. OneRegistrant /\ AuthorsHaveAccounts
  BY DEF OneRegistrant, AuthorsHaveAccounts
<1> QED
  BY <1>1, <1>2, <1>3, <1>4 DEF IInv

(* Frames, requests and disconnections between client and server.          *)
LEMMA TransportInv ==
  ASSUME IInv, NEW s \in Sessions, Transmit(s) \/ Client(s) PROVE IInv'
<1>1. CASE Transmit(s)
  <2> USE <1>1 DEF Transmit, IInv
  <2>1. engine[s] \in Seq(Frame) /\ engine[s] # <<>> /\ flight[s] - 1 \in Nat
    BY DEF TypeOK, FlightInEngine
  <2>2. Head(engine[s]) \in Frame /\ Tail(engine[s]) \in Seq(Frame)
    <3> HIDE DEF Transmit, IInv
    <3> QED
      BY <2>1, PopSeq
  <2>3. engine' \in [Sessions -> Seq(Frame)] /\ flight' \in [Sessions -> Nat]
    BY <2>1, <2>2 DEF TypeOK
  <2>4. wire' \in [Sessions -> Seq(Frame)]
    BY <2>1, <2>2, PushSeq DEF TypeOK
  <2>5. TypeOK'
    BY <2>3, <2>4 DEF TypeOK
  <2>6. FlightInEngine'
    BY DEF TypeOK, FlightInEngine
  <2> QED
    BY <2>5, <2>6 DEF NotEntered, WriterHasWork, Authenticated, RoomIsConnected,
                      QueueIsWindow, OneRegistrant, AuthorsHaveAccounts
<1>2. CASE Client(s)
  <2> USE DEF IInv
  <2>1. UNCHANGED <<alive, authInfo, room, controlVars, queue, tlsVars, historyVars>>
    BY <1>2 DEF Client, ClientSend, ClientReceive, Disconnect
  <2>2. /\ wire' \in [Sessions -> Seq(Frame)] /\ inbox' \in [Sessions -> Seq(Requests)]
        /\ link' \in [Sessions -> BOOLEAN] /\ sends' \in [Sessions -> Nat]
    <3>1. ASSUME NEW req \in Requests, ClientSend(s, req) PROVE <2>2!:
      BY <3>1 DEF ClientSend, TypeOK
    <3>2. ASSUME ClientReceive(s) PROVE <2>2!:
      BY <3>2 DEF ClientReceive, TypeOK
    <3>3. ASSUME Disconnect(s) PROVE <2>2!:
      BY <3>3 DEF Disconnect, TypeOK
    <3> QED
      BY <3>1, <3>2, <3>3, <1>2 DEF Client
  <2>3. TypeOK'
    BY <2>1, <2>2 DEF TypeOK
  <2> QED
    BY <2>1, <2>3 DEF NotEntered, WriterHasWork, FlightInEngine, Authenticated, RoomIsConnected,
                      QueueIsWindow, OneRegistrant, AuthorsHaveAccounts
<1> QED
  BY <1>1, <1>2

(* What async_read_until leaves in the buffer and in the input.            *)
LEMMA ReadTypes ==
  ASSUME TypeOK, NEW s \in Sessions, CanRead(s), ReadUntil(s)
  PROVE  /\ NextRequest(s) \in Requests
         /\ readBuffer' \in [Sessions -> Seq(Requests)]
         /\ inbox' \in [Sessions -> Seq(Requests)]
<1>1. readBuffer[s] \in Seq(Requests) /\ inbox[s] \in Seq(Requests)
  BY DEF TypeOK
<1>2. CASE readBuffer[s] # <<>>
  BY <1>1, <1>2, PopSeq DEF TypeOK, NextRequest, ReadUntil
<1>3. CASE readBuffer[s] = <<>>
  <2>1. Head(inbox[s]) \in Requests /\ Tail(inbox[s]) \in Seq(Requests)
    BY <1>1, <1>3, PopSeq DEF CanRead
  <2>2. NextRequest(s) = Head(inbox[s])
    BY <1>3 DEF NextRequest
  <2>3. /\ readBuffer' = [readBuffer EXCEPT ![s] = <<Head(inbox[s])>>]
        /\ inbox' = [inbox EXCEPT ![s] = Tail(inbox[s])]
    BY <1>3 DEF ReadUntil
  <2>4. <<Head(inbox[s])>> \in Seq(Requests)
    BY <2>1
  <2> QED
    BY <2>1, <2>2, <2>3, <2>4 DEF TypeOK
<1> QED
  BY <1>2, <1>3

(* Writing an answer keeps the types and hands the engine the frame that   *)
(* the socket write carries.                                               *)
LEMMA AnswerTypes ==
  ASSUME TypeOK, FlightInEngine, NEW s \in Sessions, NEW type \in Answers, WriteAnswer(s, type)
  PROVE  /\ answer' \in [Sessions -> Answers \cup {"none"}]
         /\ answerOp' \in [Sessions -> WriteStates]
         /\ engine' \in [Sessions -> Seq(Frame)]
         /\ flight' \in [Sessions -> Nat]
         /\ pc' \in [Sessions -> ControlStates]
         /\ FlightInEngine'
<1>1. AnswerFrame(type) \in Frame
  BY DEF AnswerFrame, Frame
<1>2. /\ answer' \in [Sessions -> Answers \cup {"none"}]
      /\ answerOp' \in [Sessions -> WriteStates]
      /\ pc' \in [Sessions -> ControlStates]
  BY DEF TypeOK, WriteAnswer, StartedBeside, WriteStates, ControlStates
<1>3. /\ engine' \in [Sessions -> Seq(Frame)]
      /\ flight' \in [Sessions -> Nat]
  BY <1>1, PushSeq DEF TypeOK, WriteAnswer
<1>4. FlightInEngine'
  <2> SUFFICES ASSUME NEW t \in Sessions PROVE flight'[t] <= Len(engine'[t])
    BY DEF FlightInEngine
  <2>1. engine[t] \in Seq(Frame) /\ flight[t] \in Nat /\ flight[t] <= Len(engine[t])
    BY DEF TypeOK, FlightInEngine
  <2> QED
    BY <2>1, <1>1, PushSeq DEF WriteAnswer, TypeOK
<1> QED
  BY <1>2, <1>3, <1>4

(* A login attempt, successful or not.                                     *)
LEMMA LoginInv ==
  ASSUME IInv, NEW s \in Sessions, HandleLogin(s) PROVE IInv'
<1> DEFINE req == NextRequest(s)
           ok  == LoginOk(authInfo, req.user, req.pass)
<1> USE DEF IInv
<1>1. /\ pc[s] = "readAuth"
      /\ username' = IF ok THEN [username EXCEPT ![s] = req.user] ELSE username
      /\ WriteAnswer(s, IF ok THEN "LOGIN_SUCCESS" ELSE "LOGIN_FAILURE")
      /\ UNCHANGED <<alive, authInfo, room, conState, queue, queueOp, wire, link, sends, historyVars>>
      /\ req \in Requests /\ req.type = "LOGIN"
      /\ readBuffer' \in [Sessions -> Seq(Requests)] /\ inbox' \in [Sessions -> Seq(Requests)]
  BY ReadTypes DEF HandleLogin, NameSession
<1>2. req.user \in Users
  BY <1>1, ServerAssumption, NoUserAssumption DEF AllRequests, AuthRequest, ChatRequest, OddRequest
<1>3. ok => HasAccount(authInfo, req.user)
  BY DEF LoginOk
<1> HIDE DEF ok, req
<1> DEFINE type == IF ok THEN "LOGIN_SUCCESS" ELSE "LOGIN_FAILURE"
<1>4. type \in Answers
  BY DEF Answers, SuccessAnswers, FailureAnswers
<1>5. TypeOK' /\ FlightInEngine'
  <2>1. username' \in [Sessions -> Users \cup {NoUser}]
    BY <1>1, <1>2 DEF TypeOK
  <2> QED
    BY <2>1, <1>1, <1>4, AnswerTypes DEF TypeOK
<1>6. (NotEntered /\ WriterHasWork /\ RoomIsConnected /\ QueueIsWindow)'
  BY <1>1 DEF WriteAnswer, TypeOK, NotEntered, WriterHasWork, RoomIsConnected, QueueIsWindow
<1>7. (Authenticated /\ OneRegistrant /\ AuthorsHaveAccounts)'
  BY <1>1, <1>2, <1>3 DEF WriteAnswer, TypeOK, Authenticated, OneRegistrant, AuthorsHaveAccounts, SuccessAnswers
<1> QED
  BY <1>5, <1>6, <1>7

(* A registration: the name was free, so no other session has it.          *)
LEMMA RegisterInv ==
  ASSUME IInv, NEW s \in Sessions, HandleRegister(s) PROVE IInv'
<1> DEFINE req == NextRequest(s)
           ok  == RegisterOk(authInfo, req.user)
           type == IF ok THEN "REGISTER_SUCCESS" ELSE "REGISTER_FAILURE"
<1> USE DEF IInv
<1>1. /\ pc[s] = "readAuth"
      /\ authInfo' = IF ok THEN WithAccount(authInfo, req.user, req.pass) ELSE authInfo
      /\ username' = IF ok THEN [username EXCEPT ![s] = req.user] ELSE username
      /\ WriteAnswer(s, type)
      /\ UNCHANGED <<alive, room, conState, queue, queueOp, wire, link, sends,
                     historyVars>>
      /\ req \in Requests /\ req.type = "REGISTER"
      /\ readBuffer' \in [Sessions -> Seq(Requests)]
      /\ inbox' \in [Sessions -> Seq(Requests)]
  BY ReadTypes DEF HandleRegister, NameSession
<1>2. req.user \in Users /\ req.pass \in Passwords
  BY <1>1, ServerAssumption, NoUserAssumption DEF AllRequests, AuthRequest, ChatRequest, OddRequest
<1>3. /\ authInfo' \in Tables
      /\ ok => HasAccount(authInfo', req.user) /\ ~HasAccount(authInfo, req.user)
      /\ \A u \in Users : HasAccount(authInfo, u) => HasAccount(authInfo', u)
  BY <1>1, <1>2, NoPasswordAssumption
     DEF TypeOK, Tables, HasAccount, RegisterOk, WithAccount
<1> HIDE DEF ok, req
<1>4. type \in Answers
  BY DEF Answers, SuccessAnswers, FailureAnswers
<1>5. TypeOK' /\ FlightInEngine'
  <2>1. username' \in [Sessions -> Users \cup {NoUser}]
    BY <1>1, <1>2 DEF TypeOK
  <2> QED
    BY <2>1, <1>1, <1>3, <1>4, AnswerTypes DEF TypeOK
<1>6. (NotEntered /\ WriterHasWork /\ RoomIsConnected /\ QueueIsWindow)'
  BY <1>1 DEF WriteAnswer, TypeOK, NotEntered, WriterHasWork, RoomIsConnected,
              QueueIsWindow
<1>7. Authenticated'
  BY <1>1, <1>2, <1>3 DEF WriteAnswer, TypeOK, Authenticated, SuccessAnswers
<1>8. OneRegistrant'
  BY <1>1, <1>2, <1>3
     DEF WriteAnswer, TypeOK, Authenticated, OneRegistrant, SuccessAnswers
<1>9. AuthorsHaveAccounts'
  <2>1. \A i \in 1..Len(log) : log[i].user \in Users /\ HasAccount(authInfo', log[i].user)
    <3> SUFFICES ASSUME NEW i \in 1..Len(log)
                 PROVE  log[i].user \in Users /\ HasAccount(authInfo', log[i].user)
      OBVIOUS
    <3>1. log[i] \in ChatMessage
      BY DEF TypeOK
    <3>2. log[i].user \in Users
      BY <3>1 DEF ChatMessage
    <3> QED
      BY <3>2, <1>3 DEF AuthorsHaveAccounts
  <2>2. \A t \in Sessions : pc'[t] = "readChat" =>
          username'[t] \in Users /\ HasAccount(authInfo', username'[t])
    BY <1>7 DEF Authenticated
  <2> QED
    BY <2>1, <2>2, <1>1, NoUserAssumption DEF AuthorsHaveAccounts
<1> QED
  BY <1>5, <1>6, <1>7, <1>8, <1>9

(* An authentication message of the wrong type.                            *)
LEMMA FormatFailureInv ==
  ASSUME IInv, NEW s \in Sessions, HandleFormatFailure(s) PROVE IInv'
<1> USE DEF IInv
<1>1. /\ pc[s] = "readAuth"
      /\ WriteAnswer(s, "FORMAT_FAILURE")
      /\ UNCHANGED <<alive, authInfo, room, conState, username, queue, queueOp,
                     wire, link, sends, historyVars>>
      /\ readBuffer' \in [Sessions -> Seq(Requests)]
      /\ inbox' \in [Sessions -> Seq(Requests)]
  BY ReadTypes DEF HandleFormatFailure
<1>2. "FORMAT_FAILURE" \in Answers
  BY DEF Answers, FailureAnswers
<1>3. TypeOK' /\ FlightInEngine'
  BY <1>1, <1>2, AnswerTypes DEF TypeOK
<1>4. (NotEntered /\ WriterHasWork /\ RoomIsConnected /\ QueueIsWindow)'
  BY <1>1 DEF WriteAnswer, TypeOK, NotEntered, WriterHasWork, RoomIsConnected,
              QueueIsWindow
<1>5. (Authenticated /\ OneRegistrant /\ AuthorsHaveAccounts)'
  BY <1>1 DEF WriteAnswer, TypeOK, Authenticated, OneRegistrant,
              AuthorsHaveAccounts, SuccessAnswers
<1> QED
  BY <1>3, <1>4, <1>5

(* A message that is skipped, and one that ends the process.               *)
LEMMA SkipInv ==
  ASSUME IInv, NEW s \in Sessions, SkipChatMessage(s) \/ UncaughtException(s)
  PROVE  IInv'
<1> USE DEF IInv
<1>1. /\ UNCHANGED <<authInfo, room, pc, conState, username, answer, queue, tlsVars,
                     wire, link, sends, historyVars>>
      /\ alive' \in BOOLEAN
      /\ readBuffer' \in [Sessions -> Seq(Requests)]
      /\ inbox' \in [Sessions -> Seq(Requests)]
  <2>1. CASE SkipChatMessage(s)
    <3>1. inbox[s] \in Seq(Requests) /\ inbox[s] # <<>>
      BY <2>1 DEF SkipChatMessage, TypeOK
    <3>2. Tail(inbox[s]) \in Seq(Requests)
      BY <3>1, PopSeq
    <3> QED
      BY <2>1, <3>2 DEF SkipChatMessage, TypeOK
  <2>2. CASE UncaughtException(s)
    BY <2>2, ReadTypes DEF UncaughtException
  <2> QED
    BY <2>1, <2>2
<1>2. TypeOK'
  BY <1>1 DEF TypeOK
<1> QED
  BY <1>1, <1>2 DEF NotEntered, WriterHasWork, FlightInEngine, Authenticated,
        RoomIsConnected, QueueIsWindow, OneRegistrant, AuthorsHaveAccounts

(* The completion of the write of an answer.                               *)
LEMMA AnswerDoneInv ==
  ASSUME IInv, NEW s \in Sessions, AnswerDone(s) PROVE IInv'
<1> USE DEF IInv
<1>1. TypeOK'
  <2>1. answerOp' \in [Sessions -> WriteStates] /\ queueOp' \in [Sessions -> WriteStates]
    BY DEF AnswerDone, TypeOK, WriteStates, Released
  <2>2. /\ conState' \in [Sessions -> ConnectionStates]
        /\ readBuffer' \in [Sessions -> Seq(Requests)]
        /\ pc' \in [Sessions -> ControlStates]
    <3>1. CASE answer[s] \in SuccessAnswers
      <4>1. /\ conState' = [conState EXCEPT ![s] = "LoggedIn"]
            /\ readBuffer' = [readBuffer EXCEPT ![s] = <<>>]
            /\ pc' = [pc EXCEPT ![s] = "readChat"]
        BY <3>1 DEF AnswerDone
      <4>2. /\ conState \in [Sessions -> ConnectionStates]
            /\ readBuffer \in [Sessions -> Seq(Requests)]
            /\ pc \in [Sessions -> ControlStates]
        BY DEF TypeOK
      <4>3. /\ <<>> \in Seq(Requests)
            /\ "LoggedIn" \in ConnectionStates /\ "readChat" \in ControlStates
        BY DEF ConnectionStates, ControlStates
      <4> QED
        BY <4>1, <4>2, <4>3, UpdateType
    <3>2. CASE answer[s] \notin SuccessAnswers
      BY <3>2 DEF AnswerDone, TypeOK, ControlStates
    <3> QED
      BY <3>1, <3>2
  <2> QED
    BY <2>1, <2>2 DEF AnswerDone, TypeOK
<1>2. (NotEntered /\ WriterHasWork /\ FlightInEngine)'
  BY DEF AnswerDone, TypeOK, NotEntered, WriterHasWork, FlightInEngine, Released
<1>3. (RoomIsConnected /\ QueueIsWindow)'
  BY DEF AnswerDone, TypeOK, RoomIsConnected, QueueIsWindow
<1>4. (Authenticated /\ OneRegistrant)'
  BY DEF AnswerDone, TypeOK, Authenticated, OneRegistrant
<1>5. AuthorsHaveAccounts'
  BY <1>4, NoUserAssumption DEF AnswerDone, AuthorsHaveAccounts, Authenticated
<1> QED
  BY <1>1, <1>2, <1>3, <1>4, <1>5

(* The error branches: whatever fails, the session leaves the room with    *)
(* its state set to NotConnected.                                          *)
LEMMA ErrorInv ==
  ASSUME IInv, NEW s \in Sessions,
         ControlError(s) \/ AnswerError(s) \/ QueueWriteError(s)
  PROVE  IInv'
<1> USE DEF IInv
<1>1. /\ conState' = [conState EXCEPT ![s] = "NotConnected"]
      /\ room' = room \ {s}
      /\ UNCHANGED <<alive, authInfo, username, readBuffer, answer, queue,
                     clientVars, historyVars>>
  BY DEF ControlError, AnswerError, QueueWriteError, Drop
<1>2. pc' = pc \/ pc' = [pc EXCEPT ![s] = "end"]
  BY DEF ControlError, AnswerError, QueueWriteError
<1>3. /\ queueOp' \in [Sessions -> WriteStates] /\ answerOp' \in [Sessions -> WriteStates]
      /\ \A t \in Sessions : queueOp'[t] # "none" => queueOp[t] # "none"
      /\ \A t \in Sessions \ {s} : queueOp'[t] = queueOp[t]
  BY DEF ControlError, AnswerError, QueueWriteError, TypeOK, WriteStates, Released
<1>4. \/ UNCHANGED <<engine, flight>>
      \/ /\ engine' = [engine EXCEPT ![s] = <<>>]
         /\ flight' = [flight EXCEPT ![s] = 0]
  BY DEF ControlError, AnswerError, QueueWriteError
<1>5. TypeOK'
  <2>1. /\ engine' \in [Sessions -> Seq(Frame)] /\ flight' \in [Sessions -> Nat]
    <3>1. <<>> \in Seq(Frame) /\ 0 \in Nat
      OBVIOUS
    <3>2. engine \in [Sessions -> Seq(Frame)] /\ flight \in [Sessions -> Nat]
      BY DEF TypeOK
    <3>3. CASE UNCHANGED <<engine, flight>>
      BY <3>2, <3>3
    <3>4. CASE /\ engine' = [engine EXCEPT ![s] = <<>>]
               /\ flight' = [flight EXCEPT ![s] = 0]
      <4>1. engine' \in [Sessions -> Seq(Frame)]
        BY <3>1, <3>2, <3>4, UpdateType
      <4>2. flight' \in [Sessions -> Nat]
        BY <3>2, <3>4
      <4> QED
        BY <4>1, <4>2
    <3> QED
      BY <1>4, <3>3, <3>4
  <2>2. /\ pc' \in [Sessions -> ControlStates] /\ conState' \in [Sessions -> ConnectionStates]
    BY <1>1, <1>2 DEF TypeOK, ControlStates, ConnectionStates
  <2> QED
    BY <2>1, <2>2, <1>1, <1>3 DEF TypeOK
<1>6. (NotEntered /\ WriterHasWork)'
  BY <1>1, <1>2, <1>3 DEF TypeOK, NotEntered, WriterHasWork
<1>7. FlightInEngine'
  <2> SUFFICES ASSUME NEW t \in Sessions PROVE flight'[t] <= Len(engine'[t])
    BY DEF FlightInEngine
  <2>1. \/ engine'[t] = engine[t] /\ flight'[t] = flight[t]
        \/ engine'[t] = <<>> /\ flight'[t] = 0
    BY <1>4 DEF TypeOK
  <2> QED
    BY <2>1 DEF FlightInEngine
<1>8. (RoomIsConnected /\ QueueIsWindow)'
  BY <1>1 DEF TypeOK, RoomIsConnected, QueueIsWindow
<1>9. (Authenticated /\ OneRegistrant /\ AuthorsHaveAccounts)'
  BY <1>1, <1>2 DEF TypeOK, Authenticated, OneRegistrant, AuthorsHaveAccounts
<1> QED
  BY <1>5, <1>6, <1>7, <1>8, <1>9

(* The completion of a queued write.                                       *)
LEMMA QueueWriteDoneInv ==
  ASSUME IInv, NEW s \in Sessions, QueueWriteDone(s) PROVE IInv'
<1> USE DEF IInv
<1>1. /\ queue[s] \in Seq(ChatMessage) /\ queue[s] # <<>>
      /\ delivered[s] \in Seq(ChatMessage)
  BY DEF QueueWriteDone, MayComplete, TypeOK, WriterHasWork
<1>2. Head(queue[s]) \in ChatMessage /\ Tail(queue[s]) \in Seq(ChatMessage)
  BY <1>1, PopSeq
<1>3. /\ delivered' = [delivered EXCEPT ![s] = Append(delivered[s], Head(queue[s]))]
      /\ queue' = [queue EXCEPT ![s] = Tail(queue[s])]
      /\ UNCHANGED <<alive, authInfo, room, controlVars, clientVars, log, joinedAt>>
      /\ answerOp' = [answerOp EXCEPT ![s] = Released(answerOp[s])]
      /\ WriteNext(s, Tail(queue[s]))
  BY DEF QueueWriteDone
<1> DEFINE next == ChatFrame(Head(Tail(queue[s])))
<1>4. Tail(queue[s]) # <<>> => next \in Frame
  <2> SUFFICES ASSUME Tail(queue[s]) # <<>> PROVE next \in Frame
    OBVIOUS
  <2>1. Head(Tail(queue[s])) \in ChatMessage
    BY <1>2, PopSeq
  <2> QED
    BY <2>1 DEF ChatFrame, Frame
<1>5. /\ answerOp' \in [Sessions -> WriteStates] /\ queueOp' \in [Sessions -> WriteStates]
      /\ \A t \in Sessions \ {s} : queueOp'[t] = queueOp[t]
      /\ queueOp'[s] = "none" <=> Tail(queue[s]) = <<>>
  <2>1. answerOp' \in [Sessions -> WriteStates]
    BY <1>3 DEF TypeOK, WriteStates, Released
  <2>2. CASE Tail(queue[s]) = <<>>
    <3>1. queueOp' = [queueOp EXCEPT ![s] = "none"] /\ "none" \in WriteStates
      BY <1>3, <2>2 DEF WriteNext, WriteStates
    <3>2. queueOp \in [Sessions -> WriteStates]
      BY DEF TypeOK
    <3> QED
      BY <2>1, <2>2, <3>1, <3>2
  <2>3. CASE Tail(queue[s]) # <<>>
    <3>1. /\ queueOp' = [queueOp EXCEPT ![s] = StartedBeside(answerOp[s])]
          /\ StartedBeside(answerOp[s]) \in WriteStates \ {"none"}
      BY <1>3, <2>3 DEF WriteNext, StartedBeside, WriteStates
    <3>2. queueOp \in [Sessions -> WriteStates]
      BY DEF TypeOK
    <3> QED
      BY <2>1, <2>3, <3>1, <3>2
  <2> QED
    BY <2>2, <2>3
<1>6. /\ engine' \in [Sessions -> Seq(Frame)] /\ flight' \in [Sessions -> Nat]
      /\ FlightInEngine'
  <2>1. CASE Tail(queue[s]) = <<>>
    BY <2>1, <1>3 DEF WriteNext, TypeOK, FlightInEngine
  <2>2. CASE Tail(queue[s]) # <<>>
    <3> HIDE DEF next
    <3>1. /\ engine' = [engine EXCEPT ![s] = Append(engine[s], next)]
          /\ \/ flight' = flight
             \/ flight' = [flight EXCEPT ![s] = Len(engine[s]) + 1]
      BY <2>2, <1>3 DEF WriteNext, next, TypeOK
    <3>2. engine' \in [Sessions -> Seq(Frame)] /\ flight' \in [Sessions -> Nat]
      <4>1. engine \in [Sessions -> Seq(Frame)] /\ flight \in [Sessions -> Nat]
        BY DEF TypeOK
      <4>2. Append(engine[s], next) \in Seq(Frame) /\ Len(engine[s]) + 1 \in Nat
        BY <4>1, <2>2, <1>4, PushSeq
      <4> QED
        BY <3>1, <4>1, <4>2, UpdateType
    <3>3. FlightInEngine'
      <4> SUFFICES ASSUME NEW t \in Sessions PROVE flight'[t] <= Len(engine'[t])
        BY DEF FlightInEngine
      <4>1. engine[t] \in Seq(Frame) /\ flight[t] \in Nat /\ flight[t] <= Len(engine[t])
        BY DEF TypeOK, FlightInEngine
      <4>2. CASE t = s
        <5>1. /\ engine'[t] = Append(engine[t], next)
              /\ flight'[t] = flight[t] \/ flight'[t] = Len(engine[t]) + 1
          BY <4>2, <3>1 DEF TypeOK
        <5>2. Len(engine'[t]) = Len(engine[t]) + 1
          BY <5>1, <4>1, <2>2, <1>4, PushSeq
        <5> QED
          BY <5>1, <5>2, <4>1
      <4>3. CASE t # s
        BY <4>1, <4>3, <3>1 DEF TypeOK
      <4> QED
        BY <4>2, <4>3
    <3> QED
      BY <3>2, <3>3
  <2> QED
    BY <2>1, <2>2
<1>7. TypeOK'
  <2>1. delivered' \in [Sessions -> Seq(ChatMessage)]
    BY <1>1, <1>2, <1>3, PushSeq DEF TypeOK
  <2>2. queue' \in [Sessions -> Seq(ChatMessage)]
    BY <1>2, <1>3 DEF TypeOK
  <2> QED
    BY <2>1, <2>2, <1>3, <1>5, <1>6 DEF TypeOK
<1>8. NotEntered'
  BY <1>1, <1>3 DEF TypeOK, NotEntered
<1>9. WriterHasWork'
  BY <1>3, <1>5 DEF TypeOK, WriterHasWork
<1>10. QueueIsWindow'
  <2> SUFFICES ASSUME NEW t \in Sessions
               PROVE  /\ IsWindow(log, joinedAt[t], delivered'[t], queue'[t])
                      /\ t \in room => ReachesEnd(log, joinedAt[t], delivered'[t], queue'[t])
    BY <1>3 DEF QueueIsWindow
  <2>1. /\ IsWindow(log, joinedAt[t], delivered[t], queue[t])
        /\ t \in room => ReachesEnd(log, joinedAt[t], delivered[t], queue[t])
    BY DEF QueueIsWindow
  <2>2. CASE t = s
    <3>1. /\ delivered'[t] = Append(delivered[t], Head(queue[t]))
          /\ queue'[t] = Tail(queue[t])
      BY <2>2, <1>3 DEF TypeOK
    <3>2. log \in Seq(ChatMessage) /\ joinedAt[t] \in Nat
      BY DEF TypeOK
    <3> QED
      BY <2>1, <2>2, <3>1, <3>2, <1>1, WindowMoves
  <2>3. CASE t # s
    BY <2>1, <2>3, <1>3 DEF TypeOK
  <2> QED
    BY <2>2, <2>3
<1>11. (RoomIsConnected /\ Authenticated /\ OneRegistrant /\ AuthorsHaveAccounts)'
  BY <1>3 DEF RoomIsConnected, Authenticated, OneRegistrant, AuthorsHaveAccounts
<1> QED
  BY <1>6, <1>7, <1>8, <1>9, <1>10, <1>11

(* The end of the handshake, with or without a write waiting for it.       *)
LEMMA HandshakeDoneInv ==
  ASSUME IInv, NEW s \in Sessions, HandshakeDone(s) PROVE IInv'
<1> USE DEF IInv
<1>1. /\ pc[s] = "handshake"
      /\ pc' = [pc EXCEPT ![s] = "readAuth"]
      /\ UNCHANGED <<alive, authInfo, room, conState, username, readBuffer, answer,
                     queue, answerOp, clientVars, historyVars>>
  BY DEF HandshakeDone
<1>2. CASE queueOp[s] = "deferred"
  <2>1. queue[s] \in Seq(ChatMessage) /\ queue[s] # <<>>
    BY <1>2 DEF TypeOK, WriterHasWork
  <2>2. Head(queue[s]) \in ChatMessage
    BY <2>1, PopSeq
  <2>3. PICK f \in {ChatFrame(Head(queue[s])), Garbage} :
          engine' = [engine EXCEPT ![s] = Append(engine[s], f)]
    BY <1>2 DEF HandshakeDone
  <2>4. f \in Frame
    BY <2>2 DEF ChatFrame, Garbage, Frame
  <2>5. /\ queueOp' \in [Sessions -> WriteStates]
        /\ \A t \in Sessions \ {s} : queueOp'[t] = queueOp[t]
        /\ queueOp'[s] # "none"
    BY <1>2 DEF HandshakeDone, TypeOK, WriteStates
  <2>6. \/ flight' = flight
        \/ flight' = [flight EXCEPT ![s] = Len(engine[s]) + 1]
    BY <1>2 DEF HandshakeDone
  <2>7. engine' \in [Sessions -> Seq(Frame)] /\ flight' \in [Sessions -> Nat]
    <3>1. engine \in [Sessions -> Seq(Frame)] /\ flight \in [Sessions -> Nat]
      BY DEF TypeOK
    <3>2. Append(engine[s], f) \in Seq(Frame) /\ Len(engine[s]) + 1 \in Nat
      BY <3>1, <2>4, PushSeq
    <3> QED
      BY <3>1, <3>2, <2>3, <2>6, UpdateType
  <2>8. TypeOK'
    BY <1>1, <2>5, <2>7 DEF TypeOK, ControlStates
  <2>9. FlightInEngine'
    <3> SUFFICES ASSUME NEW t \in Sessions PROVE flight'[t] <= Len(engine'[t])
      BY DEF FlightInEngine
    <3>1. engine[t] \in Seq(Frame) /\ flight[t] \in Nat /\ flight[t] <= Len(engine[t])
      BY DEF TypeOK, FlightInEngine
    <3>2. CASE t = s
      <4>1. /\ engine'[t] = Append(engine[t], f)
            /\ flight'[t] = flight[t] \/ flight'[t] = Len(engine[t]) + 1
        BY <3>2, <2>3, <2>6 DEF TypeOK
      <4>2. Len(engine'[t]) = Len(engine[t]) + 1
        BY <4>1, <3>1, <2>4, PushSeq
      <4> QED
        BY <4>1, <4>2, <3>1
    <3>3. CASE t # s
      BY <3>1, <3>3, <2>3, <2>6 DEF TypeOK
    <3> QED
      BY <3>2, <3>3
  <2>10. (NotEntered /\ WriterHasWork)'
    BY <1>1, <2>5, <2>1 DEF TypeOK, NotEntered, WriterHasWork
  <2>11. (RoomIsConnected /\ QueueIsWindow)'
    BY <1>1 DEF RoomIsConnected, QueueIsWindow
  <2>12. Authenticated'
    BY <1>1 DEF TypeOK, Authenticated
  <2>13. (OneRegistrant /\ AuthorsHaveAccounts)'
    BY <1>1 DEF TypeOK, OneRegistrant, AuthorsHaveAccounts
  <2> QED
    BY <2>8, <2>9, <2>10, <2>11, <2>12, <2>13
<1>3. CASE queueOp[s] # "deferred"
  <2>1. UNCHANGED <<engine, queueOp, flight>>
    BY <1>3 DEF HandshakeDone
  <2>2. TypeOK'
    BY <1>1, <2>1 DEF TypeOK, ControlStates
  <2>3. (NotEntered /\ WriterHasWork /\ FlightInEngine)'
    BY <1>1, <2>1 DEF TypeOK, NotEntered, WriterHasWork, FlightInEngine
  <2>4. (RoomIsConnected /\ QueueIsWindow)'
    BY <1>1 DEF RoomIsConnected, QueueIsWindow
  <2>5. Authenticated'
    BY <1>1 DEF TypeOK, Authenticated
  <2>6. (OneRegistrant /\ AuthorsHaveAccounts)'
    BY <1>1 DEF TypeOK, OneRegistrant, AuthorsHaveAccounts
  <2> QED
    BY <2>2, <2>3, <2>4, <2>5, <2>6
<1> QED
  BY <1>2, <1>3

(* StartAccept only turns an unused session into the accepting one.        *)
LEMMA StartAcceptStep ==
  ASSUME NEW pcs \in [Sessions -> ControlStates], StartAccept(pcs)
  PROVE  /\ pc' \in [Sessions -> ControlStates]
         /\ \A t \in Sessions : \/ pc'[t] = pcs[t]
                                \/ pcs[t] = "idle" /\ pc'[t] = "accept"
BY DEF StartAccept, ControlStates

(* A session is accepted.                                                  *)
LEMMA HandleAcceptInv ==
  ASSUME IInv, NEW s \in Sessions, HandleAccept(s) PROVE IInv'
<1> USE DEF IInv
<1>1. /\ pc[s] = "accept"
      /\ room' = room \cup {s}
      /\ conState' = [conState EXCEPT ![s] = "Connected"]
      /\ link' = [link EXCEPT ![s] = TRUE]
      /\ joinedAt' = [joinedAt EXCEPT ![s] = Len(log)]
      /\ UNCHANGED <<alive, authInfo, username, readBuffer, answer, queue, tlsVars,
                     wire, inbox, sends, log, delivered>>
  BY DEF HandleAccept
<1>2. /\ pc' \in [Sessions -> ControlStates]
      /\ pc'[s] = "handshake"
      /\ \A t \in Sessions \ {s} : \/ pc'[t] = pc[t]
                                   \/ pc[t] = "idle" /\ pc'[t] = "accept"
  <2>1. [pc EXCEPT ![s] = "handshake"] \in [Sessions -> ControlStates]
    BY DEF TypeOK, ControlStates
  <2> QED
    BY <2>1, StartAcceptStep DEF HandleAccept, TypeOK
<1>3. s \notin room /\ queue[s] = <<>> /\ delivered[s] = <<>>
  BY <1>1 DEF NotEntered
<1>4. Len(log) \in Nat
  BY DEF TypeOK
<1>5. TypeOK'
  BY <1>1, <1>2, <1>4 DEF TypeOK, ConnectionStates
<1>6. (NotEntered /\ WriterHasWork /\ FlightInEngine)'
  BY <1>1, <1>2, <1>3 DEF TypeOK, NotEntered, WriterHasWork, FlightInEngine
<1>7. RoomIsConnected'
  BY <1>1 DEF TypeOK, RoomIsConnected
<1>8. QueueIsWindow'
  <2>1. IsWindow(log, Len(log), <<>>, <<>>) /\ ReachesEnd(log, Len(log), <<>>, <<>>)
    BY <1>4 DEF IsWindow, ReachesEnd
  <2> QED
    BY <2>1, <1>1, <1>3 DEF TypeOK, QueueIsWindow
<1>9. (Authenticated /\ OneRegistrant)'
  BY <1>1, <1>2 DEF TypeOK, Authenticated, OneRegistrant, SuccessAnswers
<1>10. AuthorsHaveAccounts'
  BY <1>1, <1>2 DEF AuthorsHaveAccounts
<1> QED
  BY <1>5, <1>6, <1>7, <1>8, <1>9, <1>10

(* Accepting fails.                                                        *)
LEMMA HandleAcceptErrorInv ==
  ASSUME IInv, NEW s \in Sessions, HandleAcceptError(s) PROVE IInv'
<1> USE DEF IInv
<1>1. /\ pc[s] = "accept"
      /\ UNCHANGED <<alive, authInfo, room, conState, username, readBuffer, answer,
                     queue, tlsVars, clientVars, historyVars>>
  BY DEF HandleAcceptError
<1>2. /\ pc' \in [Sessions -> ControlStates]
      /\ pc'[s] = "end"
      /\ \A t \in Sessions \ {s} : \/ pc'[t] = pc[t]
                                   \/ pc[t] = "idle" /\ pc'[t] = "accept"
  <2>1. [pc EXCEPT ![s] = "end"] \in [Sessions -> ControlStates]
    BY DEF TypeOK, ControlStates
  <2> QED
    BY <2>1, StartAcceptStep DEF HandleAcceptError, TypeOK
<1>3. TypeOK'
  BY <1>1, <1>2 DEF TypeOK
<1>4. (NotEntered /\ WriterHasWork /\ FlightInEngine)'
  BY <1>1, <1>2 DEF TypeOK, NotEntered, WriterHasWork, FlightInEngine
<1>5. (RoomIsConnected /\ QueueIsWindow)'
  BY <1>1 DEF RoomIsConnected, QueueIsWindow
<1>6. (Authenticated /\ OneRegistrant)'
  BY <1>1, <1>2 DEF TypeOK, Authenticated, OneRegistrant, SuccessAnswers
<1>7. AuthorsHaveAccounts'
  BY <1>1, <1>2 DEF AuthorsHaveAccounts
<1> QED
  BY <1>3, <1>4, <1>5, <1>6, <1>7

(* HandleScMessage delivers a well-formed message of an existing account.  *)
LEMMA ChatMessageFacts ==
  ASSUME IInv, NEW s \in Sessions, HandleChatMessage(s)
  PROVE  LET m == [user |-> username[s], text |-> Head(inbox[s]).text]
         IN  /\ m \in ChatMessage
             /\ HasAccount(authInfo, m.user)
             /\ inbox' = [inbox EXCEPT ![s] = Tail(inbox[s])]
             /\ inbox' \in [Sessions -> Seq(Requests)]
             /\ DeliverScMessage(m)
             /\ log' = Append(log, m)
             /\ queue' = [t \in Sessions |->
                            IF t \in room THEN Append(queue[t], m) ELSE queue[t]]
             /\ UNCHANGED <<alive, authInfo, room, controlVars, wire, link, sends,
                            joinedAt, delivered>>
<1> DEFINE m == [user |-> username[s], text |-> Head(inbox[s]).text]
<1>1. /\ inbox' = [inbox EXCEPT ![s] = Tail(inbox[s])]
      /\ DeliverScMessage(m)
      /\ UNCHANGED <<alive, authInfo, room, controlVars, wire, link, sends,
                     joinedAt, delivered>>
      /\ Head(inbox[s]).type = "MESSAGE"
  BY DEF HandleChatMessage
<1>2. inbox \in [Sessions -> Seq(Requests)] /\ inbox[s] # <<>>
  BY DEF HandleChatMessage, IInv, TypeOK
<1>3. Head(inbox[s]) \in Requests /\ Tail(inbox[s]) \in Seq(Requests)
  BY <1>2, PopSeq
<1>4. inbox' \in [Sessions -> Seq(Requests)]
  BY <1>1, <1>2, <1>3, UpdateType
<1>5. Head(inbox[s]).text \in Texts
  BY <1>1, <1>3, ServerAssumption DEF AllRequests, ChatRequest, AuthRequest, OddRequest
<1>6. username[s] \in Users /\ HasAccount(authInfo, username[s])
  BY DEF HandleChatMessage, IInv, Authenticated
<1>7. m \in ChatMessage /\ m.user = username[s]
  BY <1>5, <1>6 DEF ChatMessage
<1> HIDE DEF m
<1>8. /\ log' = Append(log, m)
      /\ queue' = [t \in Sessions |->
                     IF t \in room THEN Append(queue[t], m) ELSE queue[t]]
  BY <1>1 DEF DeliverScMessage, Recipients
<1> QED
  BY <1>1, <1>4, <1>6, <1>7, <1>8 DEF m

(* A message is delivered to the room.                                     *)
LEMMA HandleChatMessageInv ==
  ASSUME IInv, NEW s \in Sessions, HandleChatMessage(s) PROVE IInv'
<1> USE DEF IInv
<1>1. PICK m \in ChatMessage :
        /\ HasAccount(authInfo, m.user)
        /\ inbox' \in [Sessions -> Seq(Requests)]
        /\ DeliverScMessage(m)
        /\ log' = Append(log, m)
        /\ queue' = [t \in Sessions |->
                       IF t \in room THEN Append(queue[t], m) ELSE queue[t]]
        /\ UNCHANGED <<alive, authInfo, room, controlVars, wire, link, sends,
                       joinedAt, delivered>>
  BY ChatMessageFacts
<1>2. ChatFrame(m) \in Frame
  BY DEF ChatFrame, Frame
<1>3. log \in Seq(ChatMessage) /\ queue \in [Sessions -> Seq(ChatMessage)]
  BY DEF TypeOK
<1>4. TypeOK'
  <2>1. log' \in Seq(ChatMessage)
    BY <1>1, <1>3, PushSeq
  <2>2. queue' \in [Sessions -> Seq(ChatMessage)]
    BY <1>1, <1>3, PushSeq
  <2>3. queueOp' \in [Sessions -> WriteStates] /\ answerOp' = answerOp
    BY <1>1 DEF TypeOK, DeliverScMessage, StartedBeside, WriteStates
  <2>4. engine' \in [Sessions -> Seq(Frame)] /\ flight' \in [Sessions -> Nat]
    <3>1. engine \in [Sessions -> Seq(Frame)] /\ flight \in [Sessions -> Nat]
      BY DEF TypeOK
    <3>2. ASSUME NEW t \in Sessions
          PROVE  /\ Append(engine[t], ChatFrame(m)) \in Seq(Frame)
                 /\ Len(engine[t]) + 1 \in Nat
      BY <3>1, <1>2, PushSeq
    <3> QED
      BY <3>1, <3>2, <1>1 DEF DeliverScMessage
  <2> QED
    BY <2>1, <2>2, <2>3, <2>4, <1>1 DEF TypeOK
<1>5. NotEntered'
  BY <1>1 DEF NotEntered
<1>6. WriterHasWork'
  <2>1. ASSUME NEW t \in Sessions PROVE queueOp'[t] # "none" => queue'[t] # <<>>
    <3>1. CASE t \in room
      <4>1. queue'[t] = Append(queue[t], m) /\ queue[t] \in Seq(ChatMessage)
        BY <3>1, <1>1, <1>3
      <4> QED
        BY <4>1, PushSeq
    <3>2. CASE t \notin room
      BY <3>2, <1>1 DEF WriterHasWork, DeliverScMessage, Recipients, NotWriting
    <3> QED
      BY <3>1, <3>2
  <2>2. ASSUME NEW t \in room PROVE queueOp'[t] # "none"
    BY <1>1 DEF TypeOK, WriterHasWork, DeliverScMessage, Recipients, NotWriting,
                StartedBeside
  <2> QED
    BY <2>1, <2>2, <1>1 DEF WriterHasWork
<1>7. FlightInEngine'
  <2> SUFFICES ASSUME NEW t \in Sessions PROVE flight'[t] <= Len(engine'[t])
    BY DEF FlightInEngine
  <2>1. engine[t] \in Seq(Frame) /\ flight[t] \in Nat /\ flight[t] <= Len(engine[t])
    BY DEF TypeOK, FlightInEngine
  <2> QED
    BY <2>1, <1>1, <1>2, PushSeq DEF DeliverScMessage
<1>8. QueueIsWindow'
  <2> SUFFICES ASSUME NEW t \in Sessions
               PROVE  /\ IsWindow(log', joinedAt[t], delivered[t], queue'[t])
                      /\ t \in room => ReachesEnd(log', joinedAt[t], delivered[t],
                                                  queue'[t])
    BY <1>1 DEF QueueIsWindow
  <2>1. /\ IsWindow(log, joinedAt[t], delivered[t], queue[t])
        /\ t \in room => ReachesEnd(log, joinedAt[t], delivered[t], queue[t])
    BY DEF QueueIsWindow
  <2>2. /\ joinedAt[t] \in Nat
        /\ delivered[t] \in Seq(ChatMessage) /\ queue[t] \in Seq(ChatMessage)
    BY DEF TypeOK
  <2>3. CASE t \in room
    <3>1. queue'[t] = Append(queue[t], m)
      BY <2>3, <1>1
    <3> QED
      BY <3>1, <2>1, <2>2, <2>3, <1>1, <1>3, WindowPush
  <2>4. CASE t \notin room
    <3>1. queue'[t] = queue[t]
      BY <2>4, <1>1
    <3> QED
      BY <3>1, <2>1, <2>2, <2>4, <1>1, <1>3, WindowGrows
  <2> QED
    BY <2>3, <2>4
<1>9. (RoomIsConnected /\ Authenticated /\ OneRegistrant)'
  BY <1>1 DEF RoomIsConnected, Authenticated, OneRegistrant
<1>10. AuthorsHaveAccounts'
  <2>1. \A i \in 1..Len(log') : HasAccount(authInfo, log'[i].user)
    <3> SUFFICES ASSUME NEW i \in 1..Len(log')
                 PROVE  HasAccount(authInfo, log'[i].user)
      OBVIOUS
    <3>1. /\ Len(log') = Len(log) + 1 /\ Len(log) \in Nat
          /\ log'[Len(log) + 1] = m
          /\ \A j \in 1..Len(log) : log'[j] = log[j]
      BY <1>1, <1>3, PushSeq
    <3>2. i \in 1..Len(log) \/ i = Len(log) + 1
      BY <3>1
    <3> QED
      BY <3>1, <3>2, <1>1 DEF AuthorsHaveAccounts
  <2> QED
    BY <2>1, <1>1 DEF AuthorsHaveAccounts
<1> QED
  BY <1>4, <1>5, <1>6, <1>7, <1>8, <1>9, <1>10

(* Every step preserves IInv.                                              *)
LEMMA NextInv == IInv /\ [Next]_vars => IInv'
<1> SUFFICES ASSUME IInv, [Next]_vars PROVE IInv'
  OBVIOUS
<1>1. ASSUME NEW s \in Sessions, Setup(s) PROVE IInv'
  BY <1>1, HandleAcceptInv, HandleAcceptErrorInv, HandshakeDoneInv, ErrorInv DEF Setup
<1>2. ASSUME NEW s \in Sessions, Dispatch(s) PROVE IInv'
  BY <1>2, LoginInv, RegisterInv, FormatFailureInv, AnswerDoneInv, ErrorInv,
     HandleChatMessageInv, SkipInv DEF Dispatch
<1>3. ASSUME NEW s \in Sessions, Writer(s) PROVE IInv'
  BY <1>3, QueueWriteDoneInv, ErrorInv DEF Writer
<1>4. ASSUME NEW s \in Sessions, Transmit(s) \/ Client(s) PROVE IInv'
  BY <1>4, TransportInv
<1>5. CASE UNCHANGED vars
  BY <1>5 DEF vars, IInv, TypeOK, NotEntered, WriterHasWork, FlightInEngine,
       Authenticated, RoomIsConnected, QueueIsWindow, OneRegistrant,
       AuthorsHaveAccounts
<1> QED
  BY <1>1, <1>2, <1>3, <1>4, <1>5 DEF Next

-----------------------------------------------------------------------------
(* The safety theorems *)

(* IInv is an invariant of the server.                                     *)
THEOREM Invariance == Spec => []IInv
<1>1. Init => IInv
  BY InitInv
<1>2. IInv /\ [Next]_vars => IInv'
  BY NextInv
<1> QED
  BY <1>1, <1>2, PTL DEF Spec

(* Every variable of the server keeps its type: in particular only names   *)
(* of users get into the log, and no handler takes the front of an empty   *)
(* queue.                                                                  *)
THEOREM TypeCorrect == Spec => []TypeOK
<1>1. IInv => TypeOK
  BY DEF IInv
<1> QED
  BY <1>1, Invariance, PTL

(* No session in the room is NotConnected, whichever of the handlers of    *)
(* HandleAccept, ReadLoginScMessage, HandleAuthScMessage, ReadScMessage,   *)
(* HandleScMessage and WriteScMessageHelper saw an error first.            *)
THEOREM RoomConnected == Spec => []RoomIsConnected
<1>1. IInv => RoomIsConnected
  BY DEF IInv
<1> QED
  BY <1>1, Invariance, PTL

(* For a session in the room a write is outstanding exactly when           *)
(* msg_queue_ is not empty: WriteScMessage and the completion handler of   *)
(* WriteScMessageHelper never both leave the writer to the other, and      *)
(* never both start it.                                                    *)
THEOREM WriterRunning == Spec => []WriterRuns
<1>1. IInv => WriterRuns
  BY DEF IInv, TypeOK, WriterHasWork, WriterRuns
<1> QED
  BY <1>1, Invariance, PTL

(* What a session was given, followed by its msg_queue_, is a gapless run  *)
(* of the messages of DeliverScMessage that starts where the session was   *)
(* added to the room.                                                      *)
THEOREM QueueWindow == Spec => []QueueIsWindow
<1>1. IInv => QueueIsWindow
  BY DEF IInv
<1> QED
  BY <1>1, Invariance, PTL

(* At most one session is told REGISTER_SUCCESS for a name.                *)
THEOREM Registrants == Spec => []OneRegistrant
<1>1. IInv => OneRegistrant
  BY DEF IInv
<1> QED
  BY <1>1, Invariance, PTL

(* HandleScMessage only delivers messages under the name of an account,    *)
(* and only authenticated sessions get that far.                           *)
THEOREM Authors == Spec => []AuthorsHaveAccounts
<1>1. IInv => AuthorsHaveAccounts
  BY DEF IInv
<1> QED
  BY <1>1, Invariance, PTL

-----------------------------------------------------------------------------
(* Refinement *)

(* DeliverScMessage posts to the abstract room.                            *)
LEMMA PostStep ==
  ASSUME IInv, NEW s \in Sessions, HandleChatMessage(s)
  PROVE  \E m \in ChatMessage : Room!Post(m)
<1> DEFINE o == [t \in Sessions |-> joinedAt[t] + Len(delivered[t]) + Len(queue[t])]
<1> USE DEF IInv
<1>1. PICK m \in ChatMessage :
        /\ log' = Append(log, m)
        /\ queue' = [t \in Sessions |->
                       IF t \in room THEN Append(queue[t], m) ELSE queue[t]]
        /\ UNCHANGED <<room, controlVars, joinedAt, delivered>>
  BY ChatMessageFacts
<1>2. ASSUME NEW t \in Sessions
      PROVE  joinedAt[t] + Len(delivered[t]) + Len(queue'[t])
               = IF t \in room THEN Len(log) + 1
                 ELSE joinedAt[t] + Len(delivered[t]) + Len(queue[t])
  <2>1. CASE t \in room
    <3>1. queue'[t] = Append(queue[t], m) /\ queue[t] \in Seq(ChatMessage)
      BY <2>1, <1>1 DEF TypeOK
    <3>2. Len(queue'[t]) = Len(queue[t]) + 1 /\ Len(queue[t]) \in Nat
      BY <3>1, PushSeq
    <3>3. joinedAt[t] \in Nat /\ Len(delivered[t]) \in Nat
      BY DEF TypeOK
    <3>4. joinedAt[t] + Len(delivered[t]) + Len(queue[t]) = Len(log)
      BY <2>1 DEF QueueIsWindow, ReachesEnd
    <3>5. joinedAt[t] + Len(delivered[t]) + (Len(queue[t]) + 1) = Len(log) + 1
      <4> DEFINE k == joinedAt[t] + Len(delivered[t])
                 n == Len(queue[t])
      <4>1. k \in Nat /\ n \in Nat /\ k + n = Len(log)
        BY <3>2, <3>3, <3>4
      <4> HIDE DEF k, n
      <4>2. k + (n + 1) = (k + n) + 1
        BY <4>1
      <4> QED
        BY <4>1, <4>2 DEF k, n
    <3> QED
      BY <2>1, <3>2, <3>5
  <2>2. CASE t \notin room
    BY <2>2, <1>1
  <2> QED
    BY <2>1, <2>2
<1>3. o' = [t \in Sessions |-> IF t \in room THEN Len(log) + 1 ELSE o[t]]
  BY <1>1, <1>2
<1> QED
  BY <1>1, <1>3 DEF Room!Post

(* The front of a queue is the next log entry owed to its session, and     *)
(* moving it to what was delivered leaves the sum of both as it was.       *)
LEMMA FrontIsNext ==
  ASSUME NEW s \in Sessions, log \in Seq(ChatMessage), joinedAt[s] \in Nat,
         delivered[s] \in Seq(ChatMessage), queue[s] \in Seq(ChatMessage),
         queue[s] # <<>>, IsWindow(log, joinedAt[s], delivered[s], queue[s])
  PROVE  /\ Head(queue[s]) = log[joinedAt[s] + Len(delivered[s]) + 1]
         /\ joinedAt[s] + Len(Append(delivered[s], Head(queue[s]))) + Len(Tail(queue[s]))
              = joinedAt[s] + Len(delivered[s]) + Len(queue[s])
<1> DEFINE k == joinedAt[s]
           d == delivered[s]
           q == queue[s]
<1>1. /\ k \in Nat /\ d \in Seq(ChatMessage) /\ q \in Seq(ChatMessage)
      /\ q # <<>> /\ IsWindow(log, k, d, q)
  OBVIOUS
<1> HIDE DEF k, d, q
<1>2. /\ Head(q) = q[1] /\ Len(Tail(q)) = Len(q) - 1
      /\ Len(q) \in Nat \ {0} /\ Len(d) \in Nat /\ Head(q) \in ChatMessage
  BY <1>1, PopSeq
<1>3. Len(Append(d, Head(q))) = Len(d) + 1
  BY <1>1, <1>2, PushSeq
<1>4. Head(q) = log[k + Len(d) + 1]
  BY <1>1, <1>2 DEF IsWindow
<1>5. k + Len(Append(d, Head(q))) + Len(Tail(q)) = k + Len(d) + Len(q)
  BY <1>1, <1>2, <1>3
<1> QED
  BY <1>4, <1>5 DEF k, d, q

(* The completion of a queued write is a delivery: the front of msg_queue_ *)
(* is the next log entry owed to the session.                              *)
LEMMA DeliverStep ==
  ASSUME IInv, NEW s \in Sessions, QueueWriteDone(s) PROVE Room!Deliver(s)
<1> DEFINE o == [t \in Sessions |-> joinedAt[t] + Len(delivered[t]) + Len(queue[t])]
<1> USE DEF IInv
<1>1. /\ queue[s] \in Seq(ChatMessage) /\ queue[s] # <<>>
      /\ delivered[s] \in Seq(ChatMessage)
      /\ log \in Seq(ChatMessage) /\ joinedAt[s] \in Nat
  BY DEF QueueWriteDone, MayComplete, TypeOK, WriterHasWork
<1>2. /\ delivered' = [delivered EXCEPT ![s] = Append(delivered[s], Head(queue[s]))]
      /\ queue' = [queue EXCEPT ![s] = Tail(queue[s])]
      /\ UNCHANGED <<room, controlVars, log, joinedAt>>
  BY DEF QueueWriteDone
<1>3. IsWindow(log, joinedAt[s], delivered[s], queue[s])
  BY DEF QueueIsWindow
<1>4. /\ Head(queue[s]) = log[joinedAt[s] + Len(delivered[s]) + 1]
      /\ joinedAt[s] + Len(Append(delivered[s], Head(queue[s]))) + Len(Tail(queue[s]))
           = joinedAt[s] + Len(delivered[s]) + Len(queue[s])
  BY <1>1, <1>3, FrontIsNext
<1>5. o' = o
  BY <1>2, <1>4 DEF TypeOK
<1>6. joinedAt[s] + Len(delivered[s]) + 1 <= o[s]
  BY <1>1, PopSeq
<1> QED
  BY <1>2, <1>4, <1>5, <1>6 DEF Room!Deliver

(* HandleAccept is entering the room.                                      *)
LEMMA JoinStep ==
  ASSUME IInv, NEW s \in Sessions, HandleAccept(s) PROVE Room!Join(s)
<1> DEFINE o == [t \in Sessions |-> joinedAt[t] + Len(delivered[t]) + Len(queue[t])]
           f == {t \in Sessions : pc[t] \in {"idle", "accept"}}
<1> USE DEF IInv
<1>1. /\ pc[s] = "accept"
      /\ room' = room \cup {s}
      /\ joinedAt' = [joinedAt EXCEPT ![s] = Len(log)]
      /\ UNCHANGED <<log, delivered, queue>>
      /\ delivered[s] = <<>> /\ queue[s] = <<>>
  BY DEF HandleAccept, NotEntered
<1>2. /\ pc'[s] = "handshake"
      /\ \A t \in Sessions \ {s} : \/ pc'[t] = pc[t]
                                   \/ pc[t] = "idle" /\ pc'[t] = "accept"
  <2>1. [pc EXCEPT ![s] = "handshake"] \in [Sessions -> ControlStates]
    BY DEF TypeOK, ControlStates
  <2> QED
    BY <2>1, StartAcceptStep DEF HandleAccept, TypeOK
<1>3. s \in f /\ f' = f \ {s}
  BY <1>1, <1>2
<1>4. o' = [o EXCEPT ![s] = Len(log)]
  <2>1. Len(log) \in Nat /\ Len(<<>>) = 0
    BY DEF TypeOK
  <2>2. joinedAt'[s] + Len(delivered'[s]) + Len(queue'[s]) = Len(log)
    BY <2>1, <1>1 DEF TypeOK
  <2> QED
    BY <2>2, <1>1 DEF TypeOK
<1> QED
  BY <1>1, <1>3, <1>4 DEF Room!Join

(* Every error branch is leaving the room, or nothing if the session has   *)
(* left it before.                                                         *)
LEMMA LeaveStep ==
  ASSUME IInv, NEW s \in Sessions,
         \/ HandleAcceptError(s)
         \/ ControlError(s) \/ AnswerError(s) \/ QueueWriteError(s)
  PROVE  Room!Leave(s) \/ UNCHANGED Room!roomVars
<1> DEFINE f == {t \in Sessions : pc[t] \in {"idle", "accept"}}
<1> USE DEF IInv
<1>1. CASE HandleAcceptError(s)
  <2>1. pc[s] = "accept" /\ UNCHANGED <<room, log, joinedAt, delivered, queue>>
    BY <1>1 DEF HandleAcceptError
  <2>2. /\ pc'[s] = "end"
        /\ \A t \in Sessions \ {s} : \/ pc'[t] = pc[t]
                                     \/ pc[t] = "idle" /\ pc'[t] = "accept"
    <3>1. [pc EXCEPT ![s] = "end"] \in [Sessions -> ControlStates]
      BY DEF TypeOK, ControlStates
    <3> QED
      BY <1>1, <3>1, StartAcceptStep DEF HandleAcceptError, TypeOK
  <2>3. s \in f /\ f' = f \ {s}
    BY <2>1, <2>2
  <2>4. room' = room \ {s}
    BY <2>1 DEF NotEntered
  <2> QED
    BY <2>1, <2>3, <2>4 DEF Room!Leave
<1>2. CASE ControlError(s) \/ AnswerError(s) \/ QueueWriteError(s)
  <2>1. room' = room \ {s} /\ UNCHANGED <<log, joinedAt, delivered, queue>>
    BY <1>2 DEF ControlError, AnswerError, QueueWriteError, Drop
  <2>2. \/ pc' = pc
        \/ pc' = [pc EXCEPT ![s] = "end"] /\ pc[s] \notin {"idle", "accept"}
    BY <1>2 DEF ControlError, AnswerError, QueueWriteError
  <2>3. f' = f
    BY <2>2 DEF TypeOK
  <2>4. CASE s \in room
    <3>1. s \notin f
      BY <2>4 DEF NotEntered
    <3> QED
      BY <2>1, <2>3, <2>4, <3>1 DEF Room!Leave
  <2>5. CASE s \notin room
    BY <2>1, <2>3, <2>5 DEF Room!roomVars
  <2> QED
    BY <2>4, <2>5
<1> QED
  BY <1>1, <1>2

(* The other handlers do not touch the room.                               *)
LEMMA StutterStep ==
  ASSUME IInv, NEW s \in Sessions,
         \/ HandshakeDone(s) \/ Transmit(s) \/ Client(s)
         \/ HandleLogin(s) \/ HandleRegister(s) \/ HandleFormatFailure(s)
         \/ AnswerDone(s) \/ SkipChatMessage(s) \/ UncaughtException(s)
  PROVE  UNCHANGED Room!roomVars
<1> DEFINE f == {t \in Sessions : pc[t] \in {"idle", "accept"}}
<1>1. UNCHANGED <<room, log, joinedAt, delivered, queue>>
  BY DEF HandshakeDone, Transmit, Client, ClientSend, ClientReceive, Disconnect,
         HandleLogin, HandleRegister, HandleFormatFailure, AnswerDone,
         SkipChatMessage, UncaughtException
<1>2. \/ pc' = pc
      \/ /\ pc[s] \notin {"idle", "accept"}
         /\ \E p \in {"readAuth", "answer", "readChat"} : pc' = [pc EXCEPT ![s] = p]
  BY DEF HandshakeDone, Transmit, Client, ClientSend, ClientReceive, Disconnect,
         HandleLogin, HandleRegister, HandleFormatFailure, AnswerDone,
         SkipChatMessage, UncaughtException, WriteAnswer
<1>3. f' = f
  BY <1>2 DEF IInv, TypeOK
<1> QED
  BY <1>1, <1>3 DEF Room!roomVars

(* The server implements TotalOrderRoom: all present see one sequence of   *)
(* messages, from where they entered, without gap, repeat or reordering.   *)
THEOREM RoomImplemented == Spec => ImplementsRoom
<1>1. Init => Room!Init
  <2> SUFFICES ASSUME Init PROVE Room!Init
    OBVIOUS
  <2> USE DEF Init
  <2>1. Sessions = {s \in Sessions : pc[s] \in {"idle", "accept"}}
    OBVIOUS
  <2>2. ASSUME NEW s \in Sessions
        PROVE  joinedAt[s] + Len(delivered[s]) + Len(queue[s]) = 0
    <3>1. Len(<<>>) = 0
      OBVIOUS
    <3> QED
      BY <3>1
  <2> QED
    BY <2>1, <2>2 DEF Room!Init
<1>2. IInv /\ [Next]_vars => [Room!Next]_(Room!roomVars)
  <2> SUFFICES ASSUME IInv, [Next]_vars PROVE [Room!Next]_(Room!roomVars)
    OBVIOUS
  <2>1. ASSUME NEW s \in Sessions, Setup(s) PROVE [Room!Next]_(Room!roomVars)
    BY <2>1, JoinStep, LeaveStep, StutterStep DEF Setup, Room!Next
  <2>2. ASSUME NEW s \in Sessions, Dispatch(s) PROVE [Room!Next]_(Room!roomVars)
    BY <2>2, LeaveStep, StutterStep, PostStep DEF Dispatch, Room!Next
  <2>3. ASSUME NEW s \in Sessions, Writer(s) PROVE [Room!Next]_(Room!roomVars)
    BY <2>3, DeliverStep, LeaveStep DEF Writer, Room!Next
  <2>4. ASSUME NEW s \in Sessions, Transmit(s) \/ Client(s)
        PROVE  [Room!Next]_(Room!roomVars)
    BY <2>4, StutterStep
  <2>5. CASE UNCHANGED vars
    BY <2>5 DEF vars, Room!roomVars
  <2> QED
    BY <2>1, <2>2, <2>3, <2>4, <2>5 DEF Next
<1> QED
  BY <1>1, <1>2, Invariance, PTL DEF Spec, ImplementsRoom, Room!Spec

=============================================================================
