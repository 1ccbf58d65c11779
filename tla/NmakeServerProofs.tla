-------------------------- MODULE NmakeServerProofs --------------------------
(***************************************************************************)
(* Theorems about NmakeServer, for any number of sessions, requests and    *)
(* messages: its safety properties are invariants of Spec.                 *)
(*                                                                         *)
(* The argument: IInv (NmakeServer) holds initially and every action       *)
(* preserves it.  What is shared by the two threads is the point.  The io  *)
(* thread only appends to the list, so positions before the iterator keep  *)
(* their sessions; it only moves a session that was LoggedIn forward in    *)
(* the protocol, to states in which it does not write; and the writer is   *)
(* the only one that removes sessions and moves the iterator.              *)
(***************************************************************************)
EXTENDS NmakeServer, SeqLemmas, SequenceTheorems

-----------------------------------------------------------------------------
(* Operators of the specification *)

(* What std::list::erase does to the list of sessions: who was behind the  *)
(* removed element moves up by one.                                        *)
LEMMA RemoveAtProperties ==
  ASSUME NEW S, NEW q \in Seq(S), NEW i \in 1..Len(q)
  PROVE  /\ RemoveAt(q, i) \in Seq(S)
         /\ Len(RemoveAt(q, i)) = Len(q) - 1
         /\ \A j \in 1 .. Len(q) - 1 :
              RemoveAt(q, i)[j] = IF j < i THEN q[j] ELSE q[j + 1]
<1> DEFINE a == SubSeq(q, 1, i - 1)
           b == SubSeq(q, i + 1, Len(q))
<1>1. Len(q) \in Nat /\ i \in Nat /\ i >= 1 /\ i <= Len(q)
  OBVIOUS
<1>2. a \in Seq(S) /\ Len(a) = i - 1 /\ \A j \in 1 .. i - 1 : a[j] = q[j]
  BY <1>1
<1>3. b \in Seq(S) /\ Len(b) = Len(q) - i /\ \A j \in 1 .. Len(q) - i : b[j] = q[i + j]
  BY <1>1
<1>4. RemoveAt(q, i) = a \o b
  BY DEF RemoveAt
<1> HIDE DEF a, b
<1>5. /\ (a \o b) \in Seq(S)
      /\ Len(a \o b) = Len(a) + Len(b)
      /\ \A j \in 1 .. Len(a) + Len(b) :
           (a \o b)[j] = IF j <= Len(a) THEN a[j] ELSE b[j - Len(a)]
  BY <1>2, <1>3, ConcatProperties
<1>6. ASSUME NEW j \in 1 .. Len(q) - 1
      PROVE  (a \o b)[j] = IF j < i THEN q[j] ELSE q[j + 1]
  <2>1. CASE j < i
    BY <2>1, <1>1, <1>2, <1>3, <1>5
  <2>2. CASE ~(j < i)
    <3>0. j \in 1 .. Len(a) + Len(b) /\ ~(j <= Len(a)) /\ j - Len(a) = j - (i - 1)
      BY <2>2, <1>1, <1>2, <1>3
    <3>1. (a \o b)[j] = b[j - (i - 1)]
      BY <3>0, <1>5
    <3>2. j - (i - 1) \in 1 .. Len(q) - i
      BY <2>2, <1>1
    <3>3. b[j - (i - 1)] = q[i + (j - (i - 1))]
      BY <3>2, <1>3
    <3>4. i + (j - (i - 1)) = j + 1
      BY <1>1
    <3> QED
      BY <2>2, <3>1, <3>3, <3>4
  <2> QED
    BY <2>1, <2>2
<1> QED
  BY <1>1, <1>2, <1>3, <1>4, <1>5, <1>6

(* StartAccept starts an unused object at most and touches no other.       *)
LEMMA StartAcceptEffect ==
  ASSUME NEW pcs \in [Sessions -> ControlStates], StartAccept(pcs)
  PROVE  /\ pc' \in [Sessions -> ControlStates]
         /\ \A t \in Sessions : \/ pc'[t] = pcs[t]
                                \/ pcs[t] = "idle" /\ pc'[t] = "accept"
<1>1. CASE pc' = pcs
  BY <1>1
<1>2. CASE \E t \in Sessions : pcs[t] = "idle" /\ pc' = [pcs EXCEPT ![t] = "accept"]
  <2>1. PICK t \in Sessions : pcs[t] = "idle" /\ pc' = [pcs EXCEPT ![t] = "accept"]
    BY <1>2
  <2>2. "accept" \in ControlStates
    BY DEF ControlStates
  <2> QED
    BY <2>1, <2>2
<1> QED
  BY <1>1, <1>2 DEF StartAccept

(* async_read_until keeps the types of what it reads from and to, and      *)
(* finds a request.                                                        *)
LEMMA ReadUntilEffect ==
  ASSUME TypeOK, NEW s \in Sessions, CanRead(s), ReadUntil(s)
  PROVE  /\ NextRequest(s) \in Requests
         /\ readBuffer' \in [Sessions -> Seq(Requests)]
         /\ inbox' \in [Sessions -> Seq(Requests)]
<1>1. readBuffer[s] \in Seq(Requests) /\ inbox[s] \in Seq(Requests)
  BY DEF TypeOK
<1>2. CASE readBuffer[s] # <<>>
  BY <1>1, <1>2, PopSeq DEF TypeOK, ReadUntil, NextRequest
<1>3. CASE readBuffer[s] = <<>>
  <2>1. Head(inbox[s]) \in Requests /\ Tail(inbox[s]) \in Seq(Requests)
    BY <1>1, <1>3, PopSeq DEF CanRead
  <2>2. <<Head(inbox[s])>> \in Seq(Requests)
    BY <2>1
  <2>3. /\ readBuffer' = [readBuffer EXCEPT ![s] = <<Head(inbox[s])>>]
        /\ inbox' = [inbox EXCEPT ![s] = Tail(inbox[s])]
        /\ NextRequest(s) = Head(inbox[s])
    BY <1>3 DEF ReadUntil, NextRequest
  <2>4. /\ readBuffer \in [Sessions -> Seq(Requests)]
        /\ inbox \in [Sessions -> Seq(Requests)]
    BY DEF TypeOK
  <2>5. readBuffer' \in [Sessions -> Seq(Requests)]
    BY <2>2, <2>3, <2>4, UpdateType
  <2>6. inbox' \in [Sessions -> Seq(Requests)]
    BY <2>1, <2>3, <2>4, UpdateType
  <2> QED
    BY <2>1, <2>3, <2>5, <2>6
<1> QED
  BY <1>2, <1>3

(* The session under the iterator is a session.                            *)
LEMMA UnderIterator ==
  ASSUME IInv, curSession # 0
  PROVE  curSession \in 1..Len(sessionList) /\ sessionList[curSession] \in Sessions
<1>1. sessionList \in Seq(Sessions) /\ curSession \in 0..Len(sessionList)
  BY DEF IInv, TypeOK
<1> QED
  BY <1>1

-----------------------------------------------------------------------------
(* The inductive invariant *)

USE DEF sessionVars, writerVars, clientVars, writerSide, ioSide

(* IInv holds when the server has just been constructed.                   *)
LEMMA InitInv == Init => IInv
<1> SUFFICES ASSUME Init PROVE IInv
  OBVIOUS
<1> USE DEF Init
<1>1. TypeOK
  BY NmakeAssumption
  DEF TypeOK, ControlStates, HoldingStates, ConnectionStates, WriterStates, Tables
<1>2. NotAccepted /\ ListedOnce /\ IteratorInPass
  BY DEF NotAccepted, ListedOnce, IteratorInPass, Listed
<1>3. LoggedInReadsChat /\ Authenticated /\ StreamHasOneWriter
  BY DEF LoggedInReadsChat, Authenticated, StreamHasOneWriter, SuccessAnswers
<1>4. ServedInOrder
  BY DEF ServedInOrder, NoGaps, Frontier
<1> QED
  BY <1>1, <1>2, <1>3, <1>4 DEF IInv

(* The parts of IInv about the list and the iterator depend on nothing a   *)
(* handler of the io thread changes, unless it adds a session.             *)
LEMMA ListUntouched ==
  ASSUME IInv, UNCHANGED <<sessionList, curSession, curMsg, writer, delivered>>
  PROVE  ListedOnce' /\ IteratorInPass' /\ ServedInOrder'
BY DEF IInv, ListedOnce, IteratorInPass, ServedInOrder, NoGaps, Frontier, LastGiven

(* What clients do only reaches the server when it is read.                *)
LEMMA ClientInv ==
  ASSUME IInv, NEW s \in Sessions, Client(s) PROVE IInv'
<1>1. UNCHANGED <<alive, authInfo, sessionVars, sessionList, msgQueue,
                  writerVars, delivered>>
  BY DEF Client, ClientSend, Disconnect
<1>2. /\ inbox' \in [Sessions -> Seq(Requests)]
      /\ link' \in [Sessions -> BOOLEAN]
      /\ sends' \in [Sessions -> Nat]
  <2>1. CASE Disconnect(s)
    BY <2>1 DEF IInv, TypeOK, Disconnect
  <2>2. CASE \E req \in Requests : ClientSend(s, req)
    <3>1. PICK req \in Requests : ClientSend(s, req)
      BY <2>2
    <3>2. inbox[s] \in Seq(Requests) /\ sends[s] + 1 \in Nat
      BY DEF IInv, TypeOK
    <3>3. Append(inbox[s], req) \in Seq(Requests)
      BY <3>2, PushSeq
    <3> QED
      BY <3>1, <3>2, <3>3, UpdateType DEF IInv, TypeOK, ClientSend
  <2> QED
    BY <2>1, <2>2 DEF Client
<1>3. TypeOK'
  BY <1>1, <1>2 DEF IInv, TypeOK
<1>4. NotAccepted' /\ LoggedInReadsChat' /\ Authenticated' /\ StreamHasOneWriter'
  BY <1>1
  DEF IInv, NotAccepted, Listed, LoggedInReadsChat, Authenticated, StreamHasOneWriter
<1> QED
  BY <1>1, <1>3, <1>4, ListUntouched DEF IInv

-----------------------------------------------------------------------------
(* The io thread: IrcServerApp *)

(* AddSession: the new session comes after everybody, the iterator         *)
(* included, and was given nothing yet.                                    *)
LEMMA AddSessionInv ==
  ASSUME IInv, NEW s \in Sessions, AddSession(s) PROVE IInv'
<1> USE DEF AddSession
<1>1. /\ sessionList \in Seq(Sessions) /\ Len(sessionList) \in Nat
      /\ curSession \in 0..Len(sessionList)
      /\ sessionList' \in Seq(Sessions)
      /\ Len(sessionList') = Len(sessionList) + 1
      /\ \A i \in 1..Len(sessionList) : sessionList'[i] = sessionList[i]
      /\ sessionList'[Len(sessionList) + 1] = s
  BY PushSeq DEF IInv, TypeOK
<1>2. ~Listed(s) /\ delivered[s] = <<>> /\ pc[s] = "accept"
  BY DEF IInv, NotAccepted
<1>3. pc' \in [Sessions -> ControlStates] /\ pc'[s] = "starting"
      /\ \A t \in Sessions : t # s => pc'[t] = pc[t]
  BY DEF IInv, TypeOK, ControlStates, HoldingStates
<1>4. TypeOK'
  <2>1. curSession' \in 0..Len(sessionList')
    BY <1>1
  <2>2. link' \in [Sessions -> BOOLEAN]
    BY DEF IInv, TypeOK
  <2> QED
    BY <1>1, <1>3, <2>1, <2>2 DEF IInv, TypeOK
<1>5. \A t \in Sessions : Listed(t)' => Listed(t) \/ t = s
  BY <1>1 DEF Listed
<1>6. NotAccepted'
  BY <1>2, <1>3, <1>5 DEF IInv, NotAccepted
<1>7. ListedOnce'
  <2>1. \A i \in 1..Len(sessionList) : sessionList[i] # s
    BY <1>1, <1>2 DEF Listed
  <2>2. \A i \in 1 .. Len(sessionList) + 1 :
          i \in 1..Len(sessionList) \/ i = Len(sessionList) + 1
    BY <1>1
  <2> QED
    BY <1>1, <2>1, <2>2 DEF IInv, ListedOnce
<1>8. IteratorInPass' /\ NoGaps'
  BY DEF IInv, IteratorInPass, ServedInOrder, NoGaps
<1>9. Frontier'
  <2> SUFFICES ASSUME NEW i \in 1..Len(sessionList')
               PROVE  LET t == sessionList'[i]
                      IN  IF curSession # 0 /\ i < curSession
                          THEN delivered[t] # <<>> /\ LastGiven(t) = curMsg
                          ELSE delivered[t] # <<>> =>
                                 LastGiven(t) = IF curSession = 0 THEN curMsg
                                                ELSE curMsg - 1
    BY DEF Frontier, LastGiven
  <2>1. CASE i \in 1..Len(sessionList)
    BY <1>1, <2>1 DEF IInv, ServedInOrder, Frontier
  <2>2. CASE i = Len(sessionList) + 1
    BY <1>1, <1>2, <2>2
  <2> QED
    BY <1>1, <2>1, <2>2
<1>10. LoggedInReadsChat'
  BY <1>2, <1>3 DEF IInv, LoggedInReadsChat
<1>11. writer = "write" => /\ sessionList'[curSession] = sessionList[curSession]
                           /\ sessionList[curSession] \in Sessions
  BY <1>1 DEF IInv, IteratorInPass
<1>12. Authenticated'
  BY <1>2, <1>3, <1>11 DEF IInv, Authenticated, SuccessAnswers
<1>13. StreamHasOneWriter'
  BY <1>2, <1>3, <1>11 DEF IInv, StreamHasOneWriter
<1> QED
  BY <1>4, <1>6, <1>7, <1>8, <1>9, <1>10, <1>12, <1>13 DEF IInv, ServedInOrder

(* Start and HandleAcceptError: the list is left alone.                    *)
LEMMA AcceptInv ==
  ASSUME IInv, NEW s \in Sessions, Start(s) \/ HandleAcceptError(s) PROVE IInv'
<1> DEFINE pcs == [pc EXCEPT ![s] = IF Start(s) THEN "handshake" ELSE "end"]
<1>1. /\ pcs \in [Sessions -> ControlStates]
      /\ pcs[s] \in {"handshake", "end"}
      /\ \A t \in Sessions : t # s => pcs[t] = pc[t]
  BY DEF IInv, TypeOK, ControlStates
<1>2. StartAccept(pcs)
  BY DEF Start, HandleAcceptError
<1> HIDE DEF pcs
<1>3. /\ pc' \in [Sessions -> ControlStates]
      /\ \A t \in Sessions : t # s =>
           \/ pc'[t] = pc[t]
           \/ pc[t] = "idle" /\ pc'[t] = "accept"
      /\ pc'[s] \in {"handshake", "end"}
  <2>1. /\ pc' \in [Sessions -> ControlStates]
        /\ \A t \in Sessions : \/ pc'[t] = pcs[t]
                               \/ pcs[t] = "idle" /\ pc'[t] = "accept"
    BY <1>1, <1>2, StartAcceptEffect
  <2> QED
    BY <1>1, <2>1
<1>4. pc[s] \in {"starting", "accept"}
  BY DEF Start, HandleAcceptError
<1>5. /\ UNCHANGED <<alive, authInfo, username, readBuffer, answer, sessionList,
                     msgQueue, writerVars, clientVars, delivered>>
      /\ conState' \in [Sessions -> ConnectionStates]
      /\ conState'[s] # "LoggedIn"
      /\ \A t \in Sessions : t # s => conState'[t] = conState[t]
  <2>1. CASE Start(s)
    BY <2>1 DEF Start, IInv, TypeOK, ConnectionStates
  <2>2. CASE HandleAcceptError(s)
    BY <2>2 DEF HandleAcceptError, IInv, TypeOK, LoggedInReadsChat
  <2> QED
    BY <2>1, <2>2
<1>6. TypeOK'
  BY <1>3, <1>5 DEF IInv, TypeOK
<1>7. NotAccepted' /\ LoggedInReadsChat'
  BY <1>3, <1>4, <1>5 DEF IInv, NotAccepted, Listed, LoggedInReadsChat
<1>8. Authenticated'
  BY <1>3, <1>4, <1>5 DEF IInv, Authenticated
<1>9. StreamHasOneWriter'
  BY <1>3, <1>4, <1>5, UnderIterator DEF IInv, StreamHasOneWriter, IteratorInPass
<1> QED
  BY <1>5, <1>6, <1>7, <1>8, <1>9, ListUntouched DEF IInv

-----------------------------------------------------------------------------
(* The io thread: Session *)

ChatStates == {"readChat", "posting", "dropping"}

(* What a handler of session s owes to the invariant: it leaves the list,  *)
(* the iterator and the other sessions alone, removes no account, and      *)
(* moves s through the protocol so that LoggedIn and the success of an     *)
(* authentication are never lost sight of.                                 *)
LEMMA SessionStep ==
  ASSUME IInv, TypeOK', NEW s \in Sessions,
         UNCHANGED <<sessionList, curMsg, curSession, delivered>>,
         writer' = writer,
         \A t \in Sessions : t # s =>
            /\ pc'[t] = pc[t] /\ conState'[t] = conState[t]
            /\ username'[t] = username[t] /\ answer'[t] = answer[t],
         \A u \in Users : HasAccount(authInfo, u) => HasAccount(authInfo', u),
         pc'[s] \notin {"idle", "accept"},
         conState'[s] = "LoggedIn" => pc'[s] \in ChatStates,
         pc[s] \in ChatStates \cup {"end"} => pc'[s] \in ChatStates \cup {"end"},
         answer[s] \in SuccessAnswers => answer'[s] \in SuccessAnswers,
         pc'[s] \in ChatStates => answer'[s] \in SuccessAnswers,
         answer'[s] \in SuccessAnswers =>
            /\ pc'[s] \in ChatStates \cup {"answer", "end"}
            /\ username'[s] \in Users
            /\ HasAccount(authInfo', username'[s])
  PROVE  IInv'
<1> USE DEF ChatStates
<1>1. NotAccepted'
  BY DEF IInv, NotAccepted, Listed
<1>2. LoggedInReadsChat'
  BY DEF IInv, LoggedInReadsChat
<1>3. Authenticated'
  <2> SUFFICES ASSUME NEW t \in Sessions
      PROVE  /\ answer'[t] \in SuccessAnswers =>
                  /\ pc'[t] \in {"answer", "readChat", "posting", "dropping", "end"}
                  /\ username'[t] \in Users
                  /\ HasAccount(authInfo', username'[t])
             /\ \/ pc'[t] \in {"readChat", "posting", "dropping"}
                \/ delivered[t] # <<>>
                \/ writer = "write" /\ t = sessionList[curSession]
                => answer'[t] \in SuccessAnswers
    BY DEF Authenticated
  <2>1. CASE t = s
    BY <2>1 DEF IInv, Authenticated
  <2>2. CASE t # s
    BY <2>2 DEF IInv, Authenticated
  <2> QED
    BY <2>1, <2>2
<1>4. StreamHasOneWriter'
  BY UnderIterator DEF IInv, StreamHasOneWriter, IteratorInPass
<1> QED
  BY <1>1, <1>2, <1>3, <1>4, ListUntouched DEF IInv

(* A session that is not LoggedIn yet: the handshake and its end, errors,  *)
(* answers.                                                                *)
LEMMA ControlInv ==
  ASSUME IInv, NEW s \in Sessions,
         \/ ControlError(s) \/ HandshakeDone(s)
         \/ AnswerDone(s) \/ AnswerError(s) \/ AnswerDropped(s)
  PROVE  IInv'
<1>1. UNCHANGED <<alive, authInfo, username, answer, sessionList, msgQueue,
                  writerVars, clientVars, delivered>>
  BY DEF ControlError, HandshakeDone, AnswerDone, AnswerError, AnswerDropped
<1>2. /\ pc[s] \in {"handshake", "readAuth", "readChat", "answer", "dropping"}
      /\ answer[s] \in SuccessAnswers => pc[s] \in {"answer", "readChat", "dropping"}
      /\ pc[s] \in {"readChat", "dropping"} => answer[s] \in SuccessAnswers
  BY DEF ControlError, HandshakeDone, AnswerDone, AnswerError, AnswerDropped,
         IInv, Authenticated
<1>3. /\ pc' \in [Sessions -> ControlStates]
      /\ conState' \in [Sessions -> ConnectionStates]
      /\ readBuffer' \in [Sessions -> Seq(Requests)]
      /\ \A t \in Sessions : t # s => pc'[t] = pc[t] /\ conState'[t] = conState[t]
      /\ pc'[s] \in {"readAuth", "readChat", "dropping", "end"}
      /\ conState'[s] = "LoggedIn" => pc'[s] \in {"readChat", "dropping"}
      /\ pc'[s] \in {"readChat", "dropping"} =>
           answer[s] \in SuccessAnswers
      /\ answer[s] \in SuccessAnswers => pc'[s] \in {"readChat", "dropping", "end"}
      /\ pc[s] \in {"readChat", "dropping"} => pc'[s] = "end"
  <2> USE DEF ControlStates, HoldingStates, ConnectionStates, IInv, TypeOK
  <2>1. CASE ControlError(s) \/ AnswerDropped(s)
    BY <2>1 DEF ControlError, AnswerDropped, EndSession
  <2>2. CASE HandshakeDone(s)
    BY <2>2, <1>2 DEF HandshakeDone, LoggedInReadsChat
  <2>3. CASE AnswerDone(s)
    <3>1. CASE answer[s] \in SuccessAnswers
      <4>1. /\ conState' = [conState EXCEPT ![s] = "LoggedIn"]
            /\ readBuffer' = [readBuffer EXCEPT ![s] = <<>>]
            /\ pc' = [pc EXCEPT ![s] = "readChat"]
            /\ pc[s] = "answer"
        BY <2>3, <3>1 DEF AnswerDone
      <4>2. readBuffer' \in [Sessions -> Seq(Requests)]
        BY <4>1
      <4> QED
        BY <3>1, <4>1, <4>2
    <3>2. CASE answer[s] \notin SuccessAnswers
      BY <2>3, <3>2 DEF AnswerDone, LoggedInReadsChat
    <3> QED
      BY <3>1, <3>2
  <2>4. CASE AnswerError(s)
    BY <2>4 DEF AnswerError
  <2> QED
    BY <2>1, <2>2, <2>3, <2>4
<1>4. TypeOK'
  BY <1>1, <1>3 DEF IInv, TypeOK
<1>5. answer[s] \in SuccessAnswers =>
        username[s] \in Users /\ HasAccount(authInfo, username[s])
  BY DEF IInv, Authenticated
<1> QED
  BY <1>1, <1>2, <1>3, <1>4, <1>5, SessionStep DEF ChatStates

(* HandleAuthScMessage: an account is added before its owner is told.      *)
LEMMA AuthInv ==
  ASSUME IInv, NEW s \in Sessions,
         HandleLogin(s) \/ HandleRegister(s) \/ HandleFormatFailure(s)
  PROVE  IInv'
<1> DEFINE req == NextRequest(s)
<1>1. /\ UNCHANGED <<alive, sessionList, msgQueue, writerVars, link, sends,
                     delivered>>
      /\ pc[s] = "readAuth" /\ CanRead(s) /\ ReadUntil(s)
  BY DEF HandleLogin, HandleRegister, HandleFormatFailure
<1>2. /\ req \in Requests
      /\ readBuffer' \in [Sessions -> Seq(Requests)]
      /\ inbox' \in [Sessions -> Seq(Requests)]
  BY <1>1, ReadUntilEffect DEF IInv
<1>3. req.type \in {"LOGIN", "REGISTER"} => req.user \in Users /\ req.pass \in Passwords
  BY <1>2, NmakeAssumption DEF AllRequests, AuthRequest, ChatRequest, OddRequest
<1>4. PICK type \in Answers :
        /\ WriteAnswer(s, type)
        /\ authInfo' \in Tables
        /\ \A u \in Users : HasAccount(authInfo, u) => HasAccount(authInfo', u)
        /\ username' \in [Sessions -> Users \cup {NoUser}]
        /\ \A t \in Sessions : t # s => username'[t] = username[t]
        /\ type \in SuccessAnswers =>
             username'[s] \in Users /\ HasAccount(authInfo', username'[s])
  <2> USE DEF IInv, TypeOK, Answers, SuccessAnswers, FailureAnswers
  <2>1. CASE HandleLogin(s)
    <3> DEFINE ok == LoginOk(authInfo, req.user, req.pass)
    <3>1. ok => HasAccount(authInfo, req.user)
      BY DEF LoginOk
    <3>2. /\ WriteAnswer(s, IF ok THEN "LOGIN_SUCCESS" ELSE "LOGIN_FAILURE")
          /\ NameSession(s, ok, req.user)
          /\ authInfo' = authInfo /\ req.user \in Users
      BY <2>1, <1>3 DEF HandleLogin
    <3> HIDE DEF ok
    <3>3. CASE ok
      BY <3>1, <3>2, <3>3 DEF NameSession
    <3>4. CASE ~ok
      BY <3>2, <3>4 DEF NameSession
    <3> QED
      BY <3>3, <3>4
  <2>2. CASE HandleRegister(s)
    <3>1. PICK ok \in BOOLEAN :
            /\ ok => RegisterOk(authInfo, req.user)
            /\ NameSession(s, ok, req.user)
            /\ WriteAnswer(s, IF ok THEN "REGISTER_SUCCESS" ELSE "REGISTER_FAILURE")
      BY <2>2 DEF HandleRegister
    <3>2. /\ req.user \in Users /\ req.pass \in Passwords
          /\ authInfo' = IF RegisterOk(authInfo, req.user)
                         THEN WithAccount(authInfo, req.user, req.pass) ELSE authInfo
      BY <2>2, <1>3 DEF HandleRegister
    <3>3. /\ authInfo' \in Tables
          /\ \A u \in Users : HasAccount(authInfo, u) => HasAccount(authInfo', u)
          /\ RegisterOk(authInfo, req.user) => HasAccount(authInfo', req.user)
      BY <3>2, NoPasswordAssumption
      DEF Tables, RegisterOk, HasAccount, WithAccount
    <3>4. CASE ok
      BY <3>1, <3>2, <3>3, <3>4 DEF NameSession
    <3>5. CASE ~ok
      BY <3>1, <3>2, <3>3, <3>5 DEF NameSession
    <3> QED
      BY <3>4, <3>5
  <2>3. CASE HandleFormatFailure(s)
    BY <2>3 DEF HandleFormatFailure
  <2> QED
    BY <2>1, <2>2, <2>3
<1> HIDE DEF req
<1>5. /\ answer' = [answer EXCEPT ![s] = type]
      /\ pc' = [pc EXCEPT ![s] = "answer"]
      /\ conState' = conState
  BY <1>4 DEF WriteAnswer
<1>6. TypeOK'
  BY <1>1, <1>2, <1>4, <1>5 DEF IInv, TypeOK, ControlStates
<1>7. conState[s] # "LoggedIn" /\ answer[s] \notin SuccessAnswers
  BY <1>1 DEF IInv, LoggedInReadsChat, Authenticated
<1>8. pc'[s] = "answer" /\ answer'[s] = type
  BY <1>5 DEF IInv, TypeOK
<1> QED
  BY <1>1, <1>4, <1>5, <1>6, <1>7, <1>8, SessionStep DEF ChatStates

(* Only the reader and the end of the program are concerned.               *)
LEMMA ExceptionInv ==
  ASSUME IInv, NEW s \in Sessions, UncaughtException(s) PROVE IInv'
<1>1. /\ UNCHANGED <<authInfo, pc, conState, username, answer, sessionList,
                     msgQueue, writerVars, link, sends, delivered>>
      /\ alive' = FALSE /\ CanRead(s) /\ ReadUntil(s)
  BY DEF UncaughtException
<1>2. TypeOK'
  BY <1>1, ReadUntilEffect DEF IInv, TypeOK
<1>3. NotAccepted' /\ LoggedInReadsChat' /\ Authenticated' /\ StreamHasOneWriter'
  BY <1>1
  DEF IInv, NotAccepted, Listed, LoggedInReadsChat, Authenticated, StreamHasOneWriter
<1> QED
  BY <1>1, <1>2, <1>3, ListUntouched DEF IInv

(* HandleScMessage and AddMessage: the queue only grows, and the writer is *)
(* woken when no pass is going on.                                         *)
LEMMA ChatInv ==
  ASSUME IInv, NEW s \in Sessions, HandleChatMessage(s) \/ SkipChatMessage(s)
  PROVE  IInv'
<1>1. /\ UNCHANGED <<alive, authInfo, conState, username, readBuffer, answer,
                     sessionList, writerVars, link, sends, delivered>>
      /\ pc[s] = "readChat" /\ inbox[s] # <<>>
      /\ inbox' = [inbox EXCEPT ![s] = Tail(@)]
  BY DEF HandleChatMessage, SkipChatMessage
<1>2. /\ pc' \in [Sessions -> ControlStates]
      /\ \A t \in Sessions : t # s => pc'[t] = pc[t]
      /\ pc'[s] \in {"readChat", "posting"}
  BY <1>1
  DEF HandleChatMessage, SkipChatMessage, IInv, TypeOK, ControlStates, HoldingStates
<1>3. inbox[s] \in Seq(Requests) /\ Head(inbox[s]) \in Requests
      /\ inbox' \in [Sessions -> Seq(Requests)]
  BY <1>1, PopSeq, UpdateType DEF IInv, TypeOK
<1>4. msgQueue' \in Seq(Texts \cup {NoText}) /\ curMsg \in 0..Len(msgQueue')
  <2>1. msgQueue \in Seq(Texts \cup {NoText}) /\ curMsg \in 0..Len(msgQueue)
    BY DEF IInv, TypeOK
  <2>2. CASE msgQueue' = msgQueue
    BY <2>1, <2>2
  <2>3. ASSUME NEW text \in Texts \cup {NoText}, msgQueue' = Append(msgQueue, text)
        PROVE  msgQueue' \in Seq(Texts \cup {NoText}) /\ curMsg \in 0..Len(msgQueue')
    <3>1. /\ msgQueue' \in Seq(Texts \cup {NoText})
          /\ Len(msgQueue') = Len(msgQueue) + 1 /\ Len(msgQueue) \in Nat
      BY <2>1, <2>3, PushSeq
    <3> QED
      BY <2>1, <3>1
  <2>4. CASE HandleChatMessage(s)
    <3>1. Head(inbox[s]).type = "MESSAGE" => Head(inbox[s]).text \in Texts
      BY <1>3, NmakeAssumption DEF AllRequests, AuthRequest, ChatRequest, OddRequest
    <3> QED
      BY <2>2, <2>3, <2>4, <3>1 DEF HandleChatMessage
  <2>5. CASE SkipChatMessage(s)
    BY <2>2, <2>5 DEF SkipChatMessage
  <2> QED
    BY <2>4, <2>5
<1>5. TypeOK'
  BY <1>1, <1>2, <1>3, <1>4 DEF IInv, TypeOK
<1>6. answer[s] \in SuccessAnswers
      /\ username[s] \in Users /\ HasAccount(authInfo, username[s])
  BY <1>1 DEF IInv, Authenticated
<1> QED
  BY <1>1, <1>2, <1>5, <1>6, SessionStep DEF ChatStates

LEMMA NotifyInv ==
  ASSUME IInv, NEW s \in Sessions, NotifyWriter(s) PROVE IInv'
<1>1. /\ UNCHANGED <<alive, authInfo, conState, username, readBuffer, answer,
                     sessionList, msgQueue, curMsg, curSession, clientVars,
                     delivered>>
      /\ pc[s] = "posting"
      /\ pc' = [pc EXCEPT ![s] = "readChat"]
      /\ writer' = writer \/ (writer = "asleep" /\ writer' = "check")
  BY DEF NotifyWriter, Woken
<1>2. pc' \in [Sessions -> ControlStates] /\ pc'[s] = "readChat"
      /\ \A t \in Sessions : t # s => pc'[t] = pc[t]
  BY <1>1 DEF IInv, TypeOK, ControlStates
<1>3. TypeOK'
  BY <1>1, <1>2 DEF IInv, TypeOK, WriterStates
<1>4. NotAccepted' /\ LoggedInReadsChat'
  BY <1>1, <1>2 DEF IInv, NotAccepted, Listed, LoggedInReadsChat
<1>5. ListedOnce' /\ IteratorInPass' /\ ServedInOrder'
  BY <1>1
  DEF IInv, ListedOnce, IteratorInPass, ServedInOrder, NoGaps, Frontier, LastGiven
<1>6. Authenticated'
  BY <1>1, <1>2 DEF IInv, Authenticated
<1>7. StreamHasOneWriter'
  BY <1>1, <1>2, UnderIterator DEF IInv, StreamHasOneWriter, IteratorInPass
<1> QED
  BY <1>3, <1>4, <1>5, <1>6, <1>7 DEF IInv

-----------------------------------------------------------------------------
(* The writer thread *)

(* The steps that wait or look, and the begin and the end of a pass.       *)
LEMMA WaitInv ==
  ASSUME IInv,
         FallAsleep \/ SpuriousWake \/ EndPass \/ LookAtSession \/ CheckQueue
  PROVE  IInv'
<1>1. UNCHANGED <<alive, authInfo, sessionVars, sessionList, msgQueue,
                  clientVars, delivered>>
  BY DEF FallAsleep, SpuriousWake, EndPass, LookAtSession, CheckQueue
<1>2. /\ sessionList \in Seq(Sessions) /\ Len(sessionList) \in Nat
      /\ Len(msgQueue) \in Nat
      /\ curMsg \in 0..Len(msgQueue) /\ curSession \in 0..Len(sessionList)
      /\ sessionList # <<>> => Len(sessionList) >= 1
      /\ sessionList = <<>> => Len(sessionList) = 0
  BY DEF IInv, TypeOK
<1>3. CASE /\ UNCHANGED <<curMsg, curSession>>
           /\ writer' \in {"drowsy", "asleep", "check", "clean"}
           /\ writer' = "clean" => curSession # 0
           /\ writer' # "clean" => curSession = 0
  <2>1. TypeOK'
    BY <1>1, <1>3 DEF IInv, TypeOK, WriterStates
  <2>2. ListedOnce' /\ IteratorInPass' /\ ServedInOrder'
    BY <1>1, <1>3
    DEF IInv, ListedOnce, IteratorInPass, ServedInOrder, NoGaps, Frontier, LastGiven
  <2>3. NotAccepted' /\ LoggedInReadsChat' /\ Authenticated' /\ StreamHasOneWriter'
    BY <1>1, <1>3
    DEF IInv, NotAccepted, Listed, LoggedInReadsChat, Authenticated, StreamHasOneWriter
  <2> QED
    BY <2>1, <2>2, <2>3 DEF IInv
<1>4. CASE /\ UNCHANGED <<curMsg, curSession>>
           /\ writer' = "write" /\ curSession # 0
           /\ conState[sessionList[curSession]] = "LoggedIn"
  <2>1. TypeOK'
    BY <1>1, <1>4 DEF IInv, TypeOK, WriterStates
  <2>2. ListedOnce' /\ IteratorInPass' /\ ServedInOrder'
    BY <1>1, <1>4
    DEF IInv, ListedOnce, IteratorInPass, ServedInOrder, NoGaps, Frontier, LastGiven
  <2>3. pc[sessionList[curSession]] \in {"readChat", "posting", "dropping"}
    BY <1>4, UnderIterator DEF IInv, LoggedInReadsChat
  <2>4. NotAccepted' /\ LoggedInReadsChat' /\ StreamHasOneWriter'
    BY <1>1, <1>4, <2>3
    DEF IInv, NotAccepted, Listed, LoggedInReadsChat, StreamHasOneWriter
  <2>5. Authenticated'
    BY <1>1, <1>4, <2>3, UnderIterator DEF IInv, Authenticated
  <2> QED
    BY <2>1, <2>2, <2>4, <2>5 DEF IInv
<1>5. CASE /\ writer' = "pass" /\ curSession = 0
           /\ curMsg # Len(msgQueue) /\ curMsg' = curMsg + 1
           /\ curSession' = IF sessionList = <<>> THEN 0 ELSE 1
  <2>1. curMsg' \in 0..Len(msgQueue) /\ curSession' \in 0..Len(sessionList)
    BY <1>2, <1>5
  <2>2. TypeOK'
    BY <1>1, <1>5, <2>1 DEF IInv, TypeOK, WriterStates
  <2>3. ListedOnce' /\ IteratorInPass' /\ NoGaps'
    BY <1>1, <1>2, <1>5 DEF IInv, ListedOnce, IteratorInPass, ServedInOrder, NoGaps
  <2>4. Frontier'
    <3> SUFFICES ASSUME NEW i \in 1..Len(sessionList)
        PROVE  LET t == sessionList[i]
               IN  IF curSession' # 0 /\ i < curSession'
                   THEN delivered[t] # <<>> /\ LastGiven(t) = curMsg'
                   ELSE delivered[t] # <<>> =>
                          LastGiven(t) = IF curSession' = 0 THEN curMsg'
                                         ELSE curMsg' - 1
      BY <1>1 DEF Frontier, LastGiven
    <3>1. delivered[sessionList[i]] # <<>> => LastGiven(sessionList[i]) = curMsg
      BY <1>5 DEF IInv, ServedInOrder, Frontier
    <3>2. curSession' = 1 /\ ~(i < curSession') /\ curMsg' - 1 = curMsg
      BY <1>2, <1>5
    <3> QED
      BY <3>1, <3>2
  <2>5. NotAccepted' /\ LoggedInReadsChat' /\ Authenticated' /\ StreamHasOneWriter'
    BY <1>1, <1>5
    DEF IInv, NotAccepted, Listed, LoggedInReadsChat, Authenticated, StreamHasOneWriter
  <2> QED
    BY <2>2, <2>3, <2>4, <2>5 DEF IInv, ServedInOrder
<1>6. CASE FallAsleep \/ SpuriousWake \/ EndPass
  BY <1>3, <1>6 DEF FallAsleep, SpuriousWake, EndPass, IInv, IteratorInPass
<1>7. CASE LookAtSession
  BY <1>3, <1>4, <1>7 DEF LookAtSession
<1>8. CASE CheckQueue
  BY <1>3, <1>5, <1>8 DEF CheckQueue, IInv, IteratorInPass
<1> QED
  BY <1>6, <1>7, <1>8

(* CleanSession: everybody behind the removed session moves up by one, the *)
(* iterator stays where the next one arrives.                              *)
LEMMA CleanInv == ASSUME IInv, CleanSession PROVE IInv'
<1> DEFINE n == Len(sessionList)
<1>1. /\ UNCHANGED <<alive, authInfo, sessionVars, msgQueue, curMsg, clientVars,
                     delivered>>
      /\ writer = "clean" /\ writer' = "pass"
      /\ sessionList' = RemoveAt(sessionList, curSession)
      /\ curSession' = IF curSession < n THEN curSession ELSE 0
  BY DEF CleanSession, Erased
<1>2. curSession # 0
  BY <1>1 DEF IInv, IteratorInPass
<1>3. /\ sessionList \in Seq(Sessions) /\ n \in Nat
      /\ curSession \in 1..n
  BY <1>2, UnderIterator DEF IInv, TypeOK
<1>4. /\ sessionList' \in Seq(Sessions)
      /\ Len(sessionList') = n - 1
      /\ \A j \in 1 .. n - 1 :
           sessionList'[j] = IF j < curSession THEN sessionList[j] ELSE sessionList[j + 1]
  BY <1>1, <1>3, RemoveAtProperties
<1> HIDE DEF n
<1>5. TypeOK'
  <2>1. curSession' \in 0 .. n - 1
    BY <1>1, <1>3
  <2> QED
    BY <1>1, <1>4, <2>1 DEF IInv, TypeOK, WriterStates
<1>6. \A j \in 1 .. n - 1 : j \in 1..n /\ j + 1 \in 1..n
  BY <1>3
<1>7. NotAccepted'
  <2>1. \A t \in Sessions : Listed(t)' => Listed(t)
    <3>1. \A t \in Sessions : Listed(t) <=> \E i \in 1..n : sessionList[i] = t
      BY <1>3 DEF Listed, n
    <3>2. \A t \in Sessions : Listed(t)' <=> \E i \in 1 .. n - 1 : sessionList'[i] = t
      BY <1>4 DEF Listed
    <3> QED
      BY <3>1, <3>2, <1>4, <1>6
  <2> QED
    BY <1>1, <2>1 DEF IInv, NotAccepted
<1>8. ListedOnce'
  <2> SUFFICES ASSUME NEW i \in 1 .. n - 1, NEW j \in 1 .. n - 1,
                      sessionList'[i] = sessionList'[j]
               PROVE  i = j
    BY <1>4 DEF ListedOnce
  <2>1. \A k, l \in 1..n : sessionList[k] = sessionList[l] => k = l
    BY DEF IInv, ListedOnce, n
  <2>2. PICK k \in 1..n : /\ k = IF i < curSession THEN i ELSE i + 1
                         /\ sessionList'[i] = sessionList[k]
    BY <1>4, <1>6
  <2>3. PICK l \in 1..n : /\ l = IF j < curSession THEN j ELSE j + 1
                         /\ sessionList'[j] = sessionList[l]
    BY <1>4, <1>6
  <2>4. k = l
    BY <2>1, <2>2, <2>3
  <2> QED
    BY <1>3, <2>2, <2>3, <2>4
<1>9. IteratorInPass'
  BY <1>1, <1>2 DEF IInv, IteratorInPass
<1>10. NoGaps'
  BY <1>1 DEF IInv, ServedInOrder, NoGaps
<1>11. Frontier'
  <2> SUFFICES ASSUME NEW i \in 1 .. n - 1
      PROVE  LET t == sessionList'[i]
             IN  IF curSession' # 0 /\ i < curSession'
                 THEN delivered[t] # <<>> /\ LastGiven(t) = curMsg
                 ELSE delivered[t] # <<>> =>
                        LastGiven(t) = IF curSession' = 0 THEN curMsg
                                       ELSE curMsg - 1
    BY <1>1, <1>4 DEF Frontier, LastGiven
  <2>1. \A k \in 1..n :
          LET t == sessionList[k]
          IN  IF k < curSession
              THEN delivered[t] # <<>> /\ LastGiven(t) = curMsg
              ELSE delivered[t] # <<>> => LastGiven(t) = curMsg - 1
    BY <1>2 DEF IInv, ServedInOrder, Frontier, n
  <2>2. CASE i < curSession
    <3>1. sessionList'[i] = sessionList[i] /\ i \in 1..n
      BY <1>4, <1>6, <2>2
    <3>2. curSession' = 0 \/ i < curSession'
      BY <1>1, <1>3, <2>2
    <3> QED
      BY <2>1, <2>2, <3>1, <3>2
  <2>3. CASE ~(i < curSession)
    <3>1. sessionList'[i] = sessionList[i + 1] /\ i + 1 \in 1..n
      BY <1>4, <1>6, <2>3
    <3>2. curSession' = curSession /\ ~(i + 1 < curSession)
      BY <1>1, <1>3, <2>3
    <3> QED
      BY <1>2, <2>1, <2>3, <3>1, <3>2
  <2> QED
    BY <2>2, <2>3
<1>12. LoggedInReadsChat' /\ StreamHasOneWriter' /\ Authenticated'
  BY <1>1 DEF IInv, LoggedInReadsChat, StreamHasOneWriter, Authenticated
<1> QED
  BY <1>5, <1>7, <1>8, <1>9, <1>10, <1>11, <1>12 DEF IInv, ServedInOrder

(* SyncWriteMessage returns and the iterator moves on: the session it was  *)
(* at has now been given the current message, as those before it.          *)
LEMMA WriteInv == ASSUME IInv, WriteDone PROVE IInv'
<1> DEFINE n == Len(sessionList)
           s == sessionList[curSession]
<1>1. /\ UNCHANGED <<alive, authInfo, sessionVars, sessionList, msgQueue,
                     curMsg, clientVars>>
      /\ writer = "write" /\ writer' = "pass"
      /\ delivered' = [delivered EXCEPT ![s] = Append(@, curMsg)]
      /\ curSession' = IF curSession < n THEN curSession + 1 ELSE 0
  BY DEF WriteDone
<1>2. curSession # 0 /\ curMsg # 0
  BY <1>1 DEF IInv, IteratorInPass
<1>3. /\ sessionList \in Seq(Sessions) /\ n \in Nat
      /\ curSession \in 1..n /\ s \in Sessions
  <2>1. curSession \in 1..n /\ s \in Sessions
    BY <1>2, UnderIterator
  <2>2. sessionList \in Seq(Sessions)
    BY DEF IInv, TypeOK
  <2> QED
    BY <2>1, <2>2
<1>4. curMsg \in Nat /\ delivered[s] \in Seq(Nat)
  BY <1>3 DEF IInv, TypeOK
<1> HIDE DEF n, s
<1> DEFINE d == delivered[s]
<1>5. /\ Append(d, curMsg) \in Seq(Nat) /\ Len(Append(d, curMsg)) = Len(d) + 1
      /\ Append(d, curMsg) # <<>> /\ Len(d) \in Nat
      /\ \A i \in 1..Len(d) : Append(d, curMsg)[i] = d[i]
      /\ Append(d, curMsg)[Len(d) + 1] = curMsg
  BY <1>4, PushSeq
<1>6. /\ delivered'[s] = Append(d, curMsg)
      /\ \A t \in Sessions : t # s => delivered'[t] = delivered[t]
      /\ delivered' \in [Sessions -> Seq(Nat)]
  BY <1>1, <1>3, <1>5 DEF IInv, TypeOK
<1>7. TypeOK'
  <2>1. curSession' \in 0..n
    BY <1>1, <1>3
  <2> QED
    BY <1>1, <1>6, <2>1 DEF IInv, TypeOK, WriterStates, n
<1>8. \A k \in 1..n :
        LET t == sessionList[k]
        IN  IF k < curSession
            THEN delivered[t] # <<>> /\ LastGiven(t) = curMsg
            ELSE delivered[t] # <<>> => LastGiven(t) = curMsg - 1
  BY <1>2 DEF IInv, ServedInOrder, Frontier, n
<1>9. sessionList[curSession] = s
  BY DEF s
<1>10. NoGaps'
  <2>1. d # <<>> => d[Len(d)] = curMsg - 1
    BY <1>3, <1>8, <1>9 DEF LastGiven
  <2>2. \A i \in 1 .. Len(d) - 1 : d[i + 1] = d[i] + 1
    BY <1>3 DEF IInv, ServedInOrder, NoGaps
  <2> HIDE DEF d
  <2>3. \A i \in 1..Len(d) : Append(d, curMsg)[i + 1] = Append(d, curMsg)[i] + 1
    <3> SUFFICES ASSUME NEW i \in 1..Len(d)
                 PROVE  Append(d, curMsg)[i + 1] = Append(d, curMsg)[i] + 1
      OBVIOUS
    <3>1. CASE i = Len(d)
      <4>1. d # <<>> /\ Append(d, curMsg)[i] = curMsg - 1
        BY <1>5, <2>1, <3>1
      <4> QED
        BY <1>4, <1>5, <3>1, <4>1
    <3>2. CASE i # Len(d)
      <4>1. i \in 1 .. Len(d) - 1 /\ i + 1 \in 1..Len(d)
        BY <1>5, <3>2
      <4> QED
        BY <1>5, <2>2, <4>1
    <3> QED
      BY <3>1, <3>2
  <2>4. Len(delivered'[s]) - 1 = Len(d)
    BY <1>5, <1>6
  <2>5. \A i \in 1 .. Len(delivered'[s]) - 1 : delivered'[s][i + 1] = delivered'[s][i] + 1
    BY <1>6, <2>3, <2>4
  <2>6. ASSUME NEW t \in Sessions, t # s
        PROVE  \A i \in 1 .. Len(delivered'[t]) - 1 :
                 delivered'[t][i + 1] = delivered'[t][i] + 1
    BY <1>6, <2>6 DEF IInv, ServedInOrder, NoGaps
  <2> QED
    BY <2>5, <2>6 DEF NoGaps
<1>11. Frontier'
  <2> DEFINE newLast(t) == delivered'[t][Len(delivered'[t])]
  <2>1. delivered'[s] # <<>> /\ newLast(s) = curMsg
    BY <1>5, <1>6 DEF LastGiven
  <2>2. \A t \in Sessions : t # s => newLast(t) = LastGiven(t)
    BY <1>6 DEF LastGiven
  <2>3. \A k \in 1..n : sessionList[k] \in Sessions
                      /\ (sessionList[k] = s => k = curSession)
    BY <1>3, <1>9 DEF IInv, ListedOnce, n
  <2> SUFFICES ASSUME NEW i \in 1..n
      PROVE  LET t == sessionList[i]
             IN  IF curSession' # 0 /\ i < curSession'
                 THEN delivered'[t] # <<>> /\ newLast(t) = curMsg
                 ELSE delivered'[t] # <<>> =>
                        newLast(t) = IF curSession' = 0 THEN curMsg
                                        ELSE curMsg - 1
    BY <1>1 DEF Frontier, LastGiven, n
  <2>4. CASE i = curSession
    <3>1. curSession' = 0 \/ i < curSession'
      BY <1>1, <1>3, <2>4
    <3> QED
      BY <1>9, <2>1, <2>4, <3>1
  <2>5. CASE i < curSession
    <3>1. (curSession' = 0 \/ i < curSession') /\ i # curSession
      BY <1>1, <1>3, <2>5
    <3> QED
      BY <1>6, <1>8, <2>2, <2>3, <2>5, <3>1
  <2>6. CASE i > curSession
    <3>1. curSession' = curSession + 1 /\ ~(i < curSession') /\ curSession' # 0
          /\ i # curSession /\ ~(i < curSession)
      BY <1>1, <1>3, <2>6
    <3> QED
      BY <1>6, <1>8, <2>2, <2>3, <3>1
  <2> QED
    BY <1>3, <2>4, <2>5, <2>6
<1>12. answer[s] \in SuccessAnswers
       /\ pc[s] \in {"readChat", "posting", "dropping", "end"}
  BY <1>1, <1>3, <1>9 DEF IInv, Authenticated, StreamHasOneWriter
<1>13. NotAccepted'
  BY <1>1, <1>6, <1>12 DEF IInv, NotAccepted, Listed
<1>14. Authenticated'
  BY <1>1, <1>6, <1>12 DEF IInv, Authenticated
<1>15. ListedOnce' /\ IteratorInPass' /\ LoggedInReadsChat' /\ StreamHasOneWriter'
  BY <1>1, <1>2
  DEF IInv, ListedOnce, IteratorInPass, LoggedInReadsChat, StreamHasOneWriter
<1> QED
  BY <1>7, <1>10, <1>11, <1>13, <1>14, <1>15 DEF IInv, ServedInOrder

(* The end of the program.                                                 *)
LEMMA ThrowInv == ASSUME IInv, WriteThrows PROVE IInv'
<1>1. /\ UNCHANGED <<authInfo, sessionVars, sessionList, msgQueue, curMsg,
                     curSession, clientVars, delivered>>
      /\ writer' = "terminated" /\ alive' = FALSE
  BY DEF WriteThrows
<1>2. TypeOK'
  BY <1>1 DEF IInv, TypeOK, WriterStates
<1>3. NotAccepted' /\ LoggedInReadsChat' /\ Authenticated' /\ StreamHasOneWriter'
  BY <1>1
  DEF IInv, NotAccepted, Listed, LoggedInReadsChat, Authenticated, StreamHasOneWriter
<1>4. ListedOnce' /\ IteratorInPass' /\ ServedInOrder'
  BY <1>1
  DEF IInv, ListedOnce, IteratorInPass, ServedInOrder, NoGaps, Frontier, LastGiven
<1> QED
  BY <1>2, <1>3, <1>4 DEF IInv

-----------------------------------------------------------------------------
(* The theorems *)

LEMMA NextInv == IInv /\ [Next]_vars => IInv'
<1> SUFFICES ASSUME IInv, [Next]_vars PROVE IInv'
  OBVIOUS
<1>1. CASE UNCHANGED vars
  <2>1. UNCHANGED <<alive, authInfo, sessionVars, sessionList, msgQueue,
                    writerVars, clientVars, delivered>>
    BY <1>1 DEF vars
  <2> QED
    BY <2>1, ListUntouched
    DEF IInv, TypeOK, NotAccepted, Listed, LoggedInReadsChat, Authenticated,
        StreamHasOneWriter
<1>2. ASSUME NEW s \in Sessions, Setup(s) \/ Dispatch(s) \/ Client(s)
      PROVE  IInv'
  BY <1>2, ClientInv, AddSessionInv, AcceptInv, ControlInv, AuthInv,
     ExceptionInv, ChatInv, NotifyInv
  DEF Setup, Dispatch
<1>3. CASE WriterRuns \/ SpuriousWake
  BY <1>3, WaitInv, CleanInv, WriteInv, ThrowInv DEF WriterRuns
<1> QED
  BY <1>1, <1>2, <1>3 DEF Next

(* The inductive invariant holds in every state the older server reaches.  *)
THEOREM Invariance == Spec => []IInv
<1>1. Init => IInv
  BY InitInv
<1>2. IInv /\ [Next]_vars => IInv'
  BY NextInv
<1> QED
  BY <1>1, <1>2, PTL DEF Spec

(* Types: in particular the iterators of the writer thread are valid.      *)
THEOREM TypeCorrect == Spec => []TypeOK
<1>1. IInv => TypeOK
  BY DEF IInv
<1> QED
  BY <1>1, Invariance, PTL

(* Nobody in the list is skipped or served twice.                          *)
THEOREM EveryoneInOrder == Spec => []ServedInOrder
<1>1. IInv => ServedInOrder
  BY DEF IInv
<1> QED
  BY <1>1, Invariance, PTL

(* The two threads never write to one TLS stream at the same time.         *)
THEOREM OneWriter == Spec => []StreamHasOneWriter
<1>1. IInv => StreamHasOneWriter
  BY DEF IInv
<1> QED
  BY <1>1, Invariance, PTL

(* Nobody without an account is written to.                                *)
THEOREM UsersOnly == Spec => []OnlyUsersAreServed
<1>1. IInv => OnlyUsersAreServed
  <2> SUFFICES ASSUME IInv PROVE OnlyUsersAreServed
    OBVIOUS
  <2>1. writer = "write" => sessionList[curSession] \in Sessions
    BY UnderIterator DEF IInv, IteratorInPass
  <2> QED
    BY <2>1, NoUserAssumption DEF IInv, Authenticated, OnlyUsersAreServed
<1> QED
  BY <1>1, Invariance, PTL

=============================================================================
