-------------------------- MODULE NmakeSystemProofs --------------------------
(***************************************************************************)
(* Theorems about NmakeSystem, for any number of clients, requests and     *)
(* messages.                                                               *)
(*                                                                         *)
(* Answers and messages do not mix on a wire here: a message is written    *)
(* only to a session that is LoggedIn, and no answer is after that.  So    *)
(* the frames on the wire of a client are answers and then the last        *)
(* messages that were delivered, one position of delivered for each, and   *)
(* what the client has missed and handled is all that was before them.     *)
(***************************************************************************)
EXTENDS NmakeSystem, NmakeServerProofs

USE DEF sessionVars, writerVars, clientVars, writerSide, ioSide

-----------------------------------------------------------------------------
(* One client and its session *)

Decided(s) == answer[s] \in SuccessAnswers
Early(s) == pc[s] \in {"idle", "accept"}

(* A success on its way to a client was decided by its session.            *)
Honest(s) == \A i \in 1..Len(wire[s]) :
  wire[s][i].kind = "answer" /\ wire[s][i].type \in SuccessAnswers => Decided(s)

(* What the client believes. *)
Believes(s) ==
  /\ con[s] = "LoggedIn" => result[s] = "true"
  /\ result[s] = "true" => Decided(s)

(* Who waits for an answer has heard nothing yet and nobody reads for it.  *)
Waiting(s) ==
  /\ call[s] \in AuthRequest => result[s] # "true" /\ reader[s] \in {"none", "threw"}
  /\ reader[s] = "reading" => result[s] = "true"
  /\ handled[s] # <<>> => result[s] = "true"

(* What was delivered to the session are messages of the queue without     *)
(* gap.                                                                    *)
Numbered(s) == \A i \in 1..Len(delivered[s]) :
  /\ delivered[s][i] \in 1..Len(msgQueue)
  /\ delivered[s][i] = delivered[s][1] + (i - 1)

(* How much of it the client has received, and what it did with it.        *)
Taken(s) == missed[s] + Len(handled[s])
Heard(s) ==
  /\ Taken(s) <= Len(delivered[s])
  /\ \A i \in 1..Len(handled[s]) :
       handled[s][i] = msgQueue[delivered[s][missed[s] + i]]

(* The rest is on the wire, behind the answers.                            *)
IsFrame(f, k, r, d, q) ==
  IF k <= r THEN f.kind = "answer" ELSE f.kind = "chat" /\ f.msg = q[d[k]]
Pending(s) ==
  /\ Early(s) => ~link[s] /\ wire[s] = <<>>
  /\ link[s] =>
       /\ Len(delivered[s]) <= Taken(s) + Len(wire[s])
       /\ \A i \in 1..Len(wire[s]) :
            IsFrame(wire[s][i], Len(delivered[s]) - Len(wire[s]) + i, Taken(s),
                    delivered[s], msgQueue)

(* What clients send and the server keeps are requests of IrcClientApp.    *)
Regular == AuthRequest \cup ChatRequest
Proper ==
  /\ msgQueue \in Seq(Texts)
  /\ inbox \in [Sessions -> Seq(Regular)]
  /\ wire \in [Sessions -> Seq(Frames)]

SessionInv(s) ==
  /\ Honest(s) /\ Believes(s) /\ Waiting(s)
  /\ Numbered(s) /\ Heard(s) /\ Pending(s)

SysInv == IInv /\ C!TypeOK /\ Proper /\ \A s \in Sessions : SessionInv(s)

-----------------------------------------------------------------------------
(* Types *)

LEMMA SameProtocol ==
  /\ C!AuthRequest = AuthRequest /\ C!ConnectionStates = ConnectionStates
  /\ C!ConnectCall # C!NoCall
  /\ C!ConnectCall \in C!Calls /\ C!NoCall \in C!Calls /\ AuthRequest \subseteq C!Calls
  /\ C!ConnectCall \notin AuthRequest /\ C!NoCall \notin AuthRequest
<1>1. C!AuthRequest = AuthRequest /\ C!ConnectionStates = ConnectionStates
  BY DEF C!AuthRequest, AuthRequest, C!ConnectionStates, ConnectionStates
<1>2. C!ConnectCall.type = "CONNECT" /\ C!NoCall.type = "NONE"
  BY DEF C!ConnectCall, C!NoCall
<1>3. \A req \in AuthRequest : req.type \in {"LOGIN", "REGISTER"}
  BY DEF AuthRequest
<1>4. C!Calls = {C!NoCall, C!ConnectCall} \cup AuthRequest
  BY <1>1 DEF C!Calls
<1> QED
  BY <1>1, <1>2, <1>3, <1>4

LEMMA Programs ==
  ASSUME C!TypeOK
  PROVE  /\ con \in [Sessions -> ConnectionStates] /\ call \in [Sessions -> C!Calls]
         /\ result \in [Sessions -> C!Results] /\ reader \in [Sessions -> C!ReaderStates]
         /\ handled \in [Sessions -> Seq(Texts)] /\ missed \in [Sessions -> Nat]
BY SameProtocol DEF C!TypeOK

LEMMA Arrays ==
  ASSUME IInv
  PROVE  /\ pc \in [Sessions -> ControlStates]
         /\ answer \in [Sessions -> Answers \cup {"none"}]
         /\ link \in [Sessions -> BOOLEAN]
         /\ delivered \in [Sessions -> Seq(Nat)]
BY DEF IInv, TypeOK

-----------------------------------------------------------------------------
(* The server in the system *)

LEMMA SystemStep == [SysNext]_sysVars => [Next]_vars
<1> SUFFICES ASSUME [SysNext]_sysVars PROVE [Next]_vars
  OBVIOUS
<1>1. CASE UNCHANGED sysVars
  BY <1>1 DEF sysVars
<1>2. ASSUME NEW s \in Sessions, Handshake(s) PROVE Next
  BY <1>2 DEF Handshake, Next, Setup
<1>3. ASSUME NEW s \in Sessions, Reply(s) PROVE Next
  BY <1>3 DEF Reply, Next, Dispatch
<1>4. ASSUME NEW s \in Sessions, Control(s) PROVE Next
  BY <1>4 DEF Control, Next, Dispatch, Setup
<1>5. ASSUME NEW s \in Sessions, Request(s) PROVE Next
  BY <1>5 DEF Request, Next, Client
<1>6. ASSUME NEW s \in Sessions,
             Connected(s) \/ Failure(s) \/ Receive(s) \/ Reader(s) \/ User(s)
      PROVE  UNCHANGED vars
  BY <1>6 DEF Connected, Failure, Receive, Reader, User
<1>7. CASE Deliver \/ Writer \/ Environment
  BY <1>7 DEF Deliver, Writer, Environment, Next, WriterRuns, Client
<1> QED
  BY <1>1, <1>2, <1>3, <1>4, <1>5, <1>6, <1>7 DEF SysNext

(* The steps of the server that write nothing. *)
Quiet ==
  \/ \E s \in Sessions :
       \/ Setup(s) \/ Start(s) \/ AnswerDone(s) \/ AnswerError(s) \/ AnswerDropped(s)
       \/ HandleChatMessage(s) \/ NotifyWriter(s) \/ SkipChatMessage(s)
       \/ Client(s)
  \/ CheckQueue \/ FallAsleep \/ EndPass \/ LookAtSession \/ CleanSession
  \/ WriteThrows \/ SpuriousWake

LEMMA QueueStep ==
  ASSUME Quiet
  PROVE  /\ UNCHANGED <<answer, delivered>>
         /\ msgQueue' = msgQueue \/ \E x : msgQueue' = Append(msgQueue, x)
<1>1. ASSUME NEW s \in Sessions, HandleChatMessage(s)
      PROVE  /\ UNCHANGED <<answer, delivered>>
             /\ msgQueue' = msgQueue \/ \E x : msgQueue' = Append(msgQueue, x)
  BY <1>1 DEF HandleChatMessage
<1>2. ASSUME NEW s \in Sessions, Setup(s) \/ Client(s)
      PROVE  UNCHANGED <<answer, delivered, msgQueue>>
  BY <1>2 DEF Setup, AddSession, HandleAcceptError, ControlError, HandshakeDone,
              Client, ClientSend, Disconnect
<1>3. ASSUME NEW s \in Sessions,
             \/ Start(s) \/ AnswerDone(s) \/ AnswerError(s) \/ AnswerDropped(s)
             \/ NotifyWriter(s) \/ SkipChatMessage(s)
      PROVE  UNCHANGED <<answer, delivered, msgQueue>>
  BY <1>3 DEF Start, AnswerDone, AnswerError, AnswerDropped, NotifyWriter,
              SkipChatMessage
<1>4. CASE \/ CheckQueue \/ FallAsleep \/ EndPass \/ LookAtSession \/ CleanSession
           \/ WriteThrows \/ SpuriousWake
  BY <1>4 DEF CheckQueue, FallAsleep, EndPass, LookAtSession, CleanSession,
              WriteThrows, SpuriousWake
<1> QED
  BY <1>1, <1>2, <1>3, <1>4 DEF Quiet

(* A link comes up when the session is accepted. *)
LEMMA LinkStep ==
  ASSUME IInv, Quiet, NEW t \in Sessions, Early(t) => ~link[t]
  PROVE  /\ Early(t)' => Early(t) /\ ~link'[t]
         /\ link'[t] => link[t] \/ Early(t)
<1> DEFINE P == /\ Early(t)' => Early(t) /\ ~link'[t]
                /\ link'[t] => link[t] \/ Early(t)
<1> USE DEF Early
<1>1. ASSUME NEW s \in Sessions, AddSession(s) PROVE P
  <2>1. /\ pc[s] = "accept" /\ pc' = [pc EXCEPT ![s] = "starting"]
        /\ link' = [link EXCEPT ![s] = TRUE]
    BY <1>1 DEF AddSession
  <2> QED
    BY <2>1, Arrays
<1>2. ASSUME NEW s \in Sessions, Start(s) \/ HandleAcceptError(s) PROVE P
  <2>1. PICK p \in {"handshake", "end"} : StartAccept([pc EXCEPT ![s] = p])
    BY <1>2 DEF Start, HandleAcceptError
  <2>2. [pc EXCEPT ![s] = p] \in [Sessions -> ControlStates]
    BY Arrays DEF ControlStates
  <2>3. \/ pc'[t] = [pc EXCEPT ![s] = p][t]
        \/ [pc EXCEPT ![s] = p][t] = "idle"
    BY <2>1, <2>2, StartAcceptEffect
  <2>4. pc'[t] \in {"idle", "accept"} => pc[t] \in {"idle", "accept"}
    BY <2>3, Arrays
  <2>5. link' = link
    BY <1>2 DEF Start, HandleAcceptError, clientVars
  <2> QED
    BY <2>4, <2>5
<1>3. ASSUME NEW s \in Sessions,
             \/ ControlError(s) \/ HandshakeDone(s)
             \/ AnswerDone(s) \/ AnswerError(s) \/ AnswerDropped(s)
             \/ HandleChatMessage(s) \/ NotifyWriter(s) \/ SkipChatMessage(s)
      PROVE  P
  <2>1. link' = link
    BY <1>3 DEF ControlError, HandshakeDone, AnswerDone, AnswerError, AnswerDropped,
                HandleChatMessage, NotifyWriter, SkipChatMessage
  <2>2. pc' = pc \/ \E p \in {"readAuth", "readChat", "dropping", "posting", "end"} :
                       pc' = [pc EXCEPT ![s] = p]
    BY <1>3 DEF ControlError, HandshakeDone, AnswerDone, AnswerError, AnswerDropped,
                EndSession, HandleChatMessage, NotifyWriter, SkipChatMessage
  <2>3. pc'[t] \in {"idle", "accept"} => pc[t] \in {"idle", "accept"}
    BY <2>2, Arrays
  <2> QED
    BY <2>1, <2>3
<1>4. ASSUME NEW s \in Sessions, Client(s) PROVE P
  <2>1. pc' = pc /\ (link' = link \/ link' = [link EXCEPT ![s] = FALSE])
    BY <1>4 DEF Client, ClientSend, Disconnect
  <2> QED
    BY <2>1, Arrays
<1>5. ASSUME \/ CheckQueue \/ FallAsleep \/ EndPass \/ LookAtSession \/ CleanSession
             \/ WriteThrows \/ SpuriousWake
      PROVE P
  BY <1>5 DEF CheckQueue, FallAsleep, EndPass, LookAtSession, CleanSession,
              WriteThrows, SpuriousWake
<1> HIDE DEF P
<1>6. P
  BY <1>1, <1>2, <1>3, <1>4, <1>5 DEF Quiet, Setup
<1> QED
  BY <1>6 DEF P

(* The program of client t does nothing. *)
ProgramRests(t) ==
  /\ con'[t] = con[t] /\ call'[t] = call[t] /\ result'[t] = result[t]
  /\ reader'[t] = reader[t] /\ handled'[t] = handled[t] /\ missed'[t] = missed[t]

(* What was heard and delivered stays where it is when messages are posted.*)
LEMMA QueueGrows ==
  ASSUME NEW t \in Sessions, Numbered(t), Heard(t), Proper,
         handled[t] \in Seq(Texts), missed[t] \in Nat, delivered[t] \in Seq(Nat),
         delivered'[t] = delivered[t], handled'[t] = handled[t], missed'[t] = missed[t],
         msgQueue' = msgQueue \/ \E x : msgQueue' = Append(msgQueue, x)
  PROVE  /\ Numbered(t)' /\ Heard(t)'
         /\ \A k \in 1..Len(delivered[t]) :
              msgQueue'[delivered[t][k]] = msgQueue[delivered[t][k]]
<1> DEFINE d == delivered[t]
           h == handled[t]
           r == missed[t]
<1>1. /\ Len(msgQueue) \in Nat /\ Len(msgQueue') \in Nat
      /\ Len(msgQueue) <= Len(msgQueue')
      /\ \A n \in 1..Len(msgQueue) : msgQueue'[n] = msgQueue[n]
  <2>1. msgQueue \in Seq(Texts)
    BY DEF Proper
  <2>2. CASE msgQueue' = msgQueue
    BY <2>1, <2>2
  <2>3. ASSUME NEW x, msgQueue' = Append(msgQueue, x)
        PROVE  /\ Len(msgQueue') = Len(msgQueue) + 1 /\ Len(msgQueue) \in Nat
               /\ \A n \in 1..Len(msgQueue) : msgQueue'[n] = msgQueue[n]
    <3>1. msgQueue \in Seq(Texts \cup {x}) /\ x \in Texts \cup {x}
      BY <2>1
    <3> QED
      BY <2>3, <3>1, PushSeq
  <2> QED
    BY <2>2, <2>3
<1>2. \A k \in 1..Len(d) : d[k] \in 1..Len(msgQueue)
  BY DEF Numbered
<1>3. \A k \in 1..Len(d) : msgQueue'[d[k]] = msgQueue[d[k]]
  BY <1>1, <1>2
<1>4. Numbered(t)'
  BY <1>1, <1>2 DEF Numbered
<1>5. Heard(t)'
  <2> DEFINE p == Len(h)
             n == Len(d)
  <2>1. /\ r + p <= n
        /\ \A i \in 1..p : h[i] = msgQueue[d[r + i]]
    BY DEF Heard, Taken
  <2>2. \A i \in 1..p : r + i \in 1..n
    <3>1. p \in Nat /\ n \in Nat /\ r \in Nat
      OBVIOUS
    <3> HIDE DEF p, n, r
    <3> QED
      BY <2>1, <3>1
  <2>3. \A i \in 1..Len(h) : h[i] = msgQueue'[d[r + i]]
    BY <1>3, <2>1, <2>2
  <2> QED
    BY <2>1, <2>3 DEF Heard, Taken
<1> QED
  BY <1>3, <1>4, <1>5

(* Nothing is written, nothing is read. *)
LEMMA QuietStep ==
  ASSUME IInv, C!TypeOK, Proper, Quiet \/ UNCHANGED vars, wire' = wire,
         NEW t \in Sessions, SessionInv(t),
         handled'[t] = handled[t], missed'[t] = missed[t]
  PROVE  answer' = answer /\ Honest(t)' /\ Numbered(t)' /\ Heard(t)' /\ Pending(t)'
<1>1. /\ UNCHANGED <<answer, delivered>>
      /\ msgQueue' = msgQueue \/ \E x : msgQueue' = Append(msgQueue, x)
  BY QueueStep DEF vars
<1>2. Honest(t) /\ Numbered(t) /\ Heard(t) /\ Pending(t)
  BY DEF SessionInv
<1>3. /\ Early(t)' => Early(t) /\ ~link'[t]
      /\ link'[t] => link[t] \/ Early(t)
  <2>1. Early(t) => ~link[t]
    BY <1>2 DEF Pending
  <2>2. CASE UNCHANGED vars
    BY <2>1, <2>2 DEF vars, Early
  <2> QED
    BY <2>1, <2>2, LinkStep
<1>4. /\ handled[t] \in Seq(Texts) /\ missed[t] \in Nat /\ delivered[t] \in Seq(Nat)
      /\ wire[t] \in Seq(Frames)
  BY Programs, Arrays DEF Proper
<1>5. /\ Numbered(t)' /\ Heard(t)'
      /\ \A k \in 1..Len(delivered[t]) :
           msgQueue'[delivered[t][k]] = msgQueue[delivered[t][k]]
  BY <1>1, <1>2, <1>4, QueueGrows
<1>6. Honest(t)'
  BY <1>1, <1>2 DEF Honest, Decided
<1>7. Taken(t)' = Taken(t) /\ Taken(t) \in Nat /\ Taken(t) <= Len(delivered[t])
  BY <1>2, <1>4 DEF Taken, Heard
<1>8. Pending(t)'
  <2>1. Early(t)' => ~link'[t] /\ wire[t] = <<>>
    BY <1>2, <1>3 DEF Pending
  <2>2. CASE link'[t] /\ Early(t)
    <3>1. wire[t] = <<>> /\ delivered[t] = <<>>
      BY <1>2, <2>2 DEF Pending, Early, IInv, NotAccepted
    <3> QED
      BY <1>1, <1>7, <2>1, <3>1 DEF Pending
  <2>3. CASE link'[t] /\ ~Early(t)
    <3>1. link[t]
      BY <1>3, <2>3
    <3> DEFINE w == wire[t]
               d == delivered[t]
               n == Len(d) - Len(w)
    <3>2. /\ Len(d) <= Taken(t) + Len(w)
          /\ \A i \in 1..Len(w) : IsFrame(w[i], n + i, Taken(t), d, msgQueue)
      BY <1>2, <3>1 DEF Pending
    <3>3. \A i \in 1..Len(w) : IsFrame(w[i], n + i, Taken(t), d, msgQueue')
      <4> SUFFICES ASSUME NEW i \in 1..Len(w)
                   PROVE  IsFrame(w[i], n + i, Taken(t), d, msgQueue')
        OBVIOUS
      <4>1. Len(d) \in Nat /\ Len(w) \in Nat /\ Taken(t) \in Nat
        BY <1>4, <1>7
      <4> DEFINE k == n + i
                 r == Taken(t)
      <4> HIDE DEF d, w, r
      <4>2. k <= r \/ k \in 1..Len(d)
        BY <4>1 DEF r
      <4> HIDE DEF n
      <4>3. IsFrame(w[i], k, r, d, msgQueue)
        BY <3>2 DEF r
      <4> HIDE DEF k
      <4>4. IsFrame(w[i], k, r, d, msgQueue')
        BY <1>5, <4>2, <4>3 DEF IsFrame, d
      <4> QED
        BY <4>4 DEF r, k
    <3> QED
      BY <1>1, <1>7, <2>1, <3>2, <3>3 DEF Pending
  <2> QED
    BY <2>1, <2>2, <2>3 DEF Pending
<1> QED
  BY <1>1, <1>5, <1>6, <1>8

(* An answer is written: to a session that was delivered nothing and that  *)
(* was not told before that it succeeded.                                  *)
LEMMA ReplyEffect ==
  ASSUME IInv, NEW s \in Sessions, Reply(s)
  PROVE  /\ pc[s] = "readAuth" /\ pc' = [pc EXCEPT ![s] = "answer"]
         /\ ~Decided(s) /\ delivered[s] = <<>>
         /\ \E type \in Answers :
              /\ answer' = [answer EXCEPT ![s] = type]
              /\ Put(s, AnswerFrame(type))
         /\ UNCHANGED <<msgQueue, link, delivered, programVars>>
<1>1. /\ pc[s] = "readAuth" /\ pc' = [pc EXCEPT ![s] = "answer"]
      /\ UNCHANGED <<msgQueue, link, delivered, programVars>>
      /\ \E type \in Answers : answer' = [answer EXCEPT ![s] = type]
      /\ Put(s, AnswerFrame(answer'[s]))
  <2>1. CASE HandleLogin(s)
    BY <2>1 DEF Reply, HandleLogin, WriteAnswer, Answers, SuccessAnswers, FailureAnswers
  <2>2. CASE HandleRegister(s)
    BY <2>2 DEF Reply, HandleRegister, WriteAnswer, Answers, SuccessAnswers, FailureAnswers
  <2>3. CASE HandleFormatFailure(s)
    BY <2>3 DEF Reply, HandleFormatFailure, WriteAnswer, Answers, SuccessAnswers,
                FailureAnswers
  <2> QED
    BY <2>1, <2>2, <2>3 DEF Reply
<1>2. PICK type \in Answers : answer' = [answer EXCEPT ![s] = type]
  BY <1>1
<1>3. answer'[s] = type
  BY <1>2, Arrays
<1>4. ~Decided(s)
  BY <1>1 DEF IInv, Authenticated, Decided
<1>5. delivered[s] = <<>>
  BY <1>4 DEF IInv, Authenticated, Decided
<1> QED
  BY <1>1, <1>2, <1>3, <1>4, <1>5

(* Somebody else's step. *)
LEMMA OtherStep ==
  ASSUME NEW t \in Sessions, SessionInv(t), ProgramRests(t),
         answer'[t] = answer[t], wire'[t] = wire[t], pc'[t] = pc[t],
         delivered'[t] = delivered[t], UNCHANGED <<msgQueue, link>>
  PROVE  SessionInv(t)'
BY DEF SessionInv, ProgramRests, Honest, Believes, Waiting, Numbered, Heard, Pending,
       Decided, Early, Taken

LEMMA ReplyStep ==
  ASSUME IInv, C!TypeOK, Proper, NEW s \in Sessions, Reply(s),
         NEW t \in Sessions, SessionInv(t)
  PROVE  SessionInv(t)'
<1>1. PICK type \in Answers :
        answer' = [answer EXCEPT ![s] = type] /\ Put(s, AnswerFrame(type))
  BY ReplyEffect
<1>2. /\ pc[s] = "readAuth" /\ pc' = [pc EXCEPT ![s] = "answer"]
      /\ ~Decided(s) /\ delivered[s] = <<>>
      /\ UNCHANGED <<msgQueue, link, delivered>>
  BY ReplyEffect
<1>3. ProgramRests(t)
  BY ReplyEffect DEF programVars, ProgramRests
<1>4. wire \in [Sessions -> Seq(Frames)]
  BY DEF Proper
<1>5. CASE t # s
  <2>1. answer'[t] = answer[t] /\ pc'[t] = pc[t] /\ wire'[t] = wire[t]
    BY <1>1, <1>2, <1>4, <1>5, Arrays DEF Put
  <2> QED
    BY <1>2, <1>3, <2>1, OtherStep
<1>6. CASE t = s
  <2> DEFINE w == wire[s]
             x == AnswerFrame(type)
             v == wire'[s]
  <2>1. answer'[s] = type /\ pc'[s] = "answer"
    BY <1>1, <1>2, Arrays
  <2>2. w \in Seq(Frames) /\ x \in Frames /\ x.kind = "answer" /\ x.type = type
    BY <1>4 DEF AnswerFrame, Frames
  <2>3. v = IF link[s] THEN Append(w, x) ELSE w
    BY <1>1, <1>4 DEF Put
  <2>4. Honest(s) /\ Believes(s) /\ Waiting(s) /\ Heard(s) /\ Pending(s)
    BY <1>6 DEF SessionInv
  <2>5. Taken(s) = 0 /\ handled[s] = <<>> /\ missed[s] = 0
    BY <1>2, <2>4, Programs DEF Heard, Taken
  <2>6. /\ handled'[s] = <<>> /\ missed'[s] = 0 /\ Taken(s)' = 0
        /\ con'[s] = con[s] /\ call'[s] = call[s] /\ result'[s] = result[s]
        /\ reader'[s] = reader[s]
    BY <1>3, <1>6, <2>5 DEF ProgramRests, Taken
  <2>7. Believes(s)' /\ Waiting(s)'
    BY <1>2, <2>4, <2>6 DEF Believes, Waiting
  <2>8. Numbered(s)' /\ Heard(s)'
    BY <1>2, <2>6 DEF Numbered, Heard
  <2>9. \A i \in 1..Len(w) :
          w[i].kind = "answer" => w[i].type \notin SuccessAnswers
    BY <1>2, <2>4 DEF Honest
  <2>10. link[s] => \A i \in 1..Len(w) : w[i].kind = "answer"
    <3>1. ASSUME link[s], NEW i \in 1..Len(w) PROVE w[i].kind = "answer"
      <4>1. IsFrame(w[i], 0 - Len(w) + i, 0, delivered[s], msgQueue)
        BY <1>2, <2>4, <2>5, <3>1 DEF Pending
      <4>2. Len(w) \in Nat
        BY <2>2
      <4> HIDE DEF w
      <4>3. 0 - Len(w) + i <= 0
        BY <3>1, <4>2
      <4> QED
        BY <4>1, <4>3 DEF IsFrame
    <3> QED
      BY <3>1
  <2>11. /\ Len(Append(w, x)) = Len(w) + 1 /\ Len(w) \in Nat
         /\ \A i \in 1..Len(w) : Append(w, x)[i] = w[i]
         /\ Append(w, x)[Len(w) + 1] = x
    BY <2>2, PushSeq
  <2> HIDE DEF w, x, v
  <2>12. \A i \in 1..Len(v) : v[i].kind = "answer" => v[i] = x \/ v[i].type \notin SuccessAnswers
    <3>1. CASE link[s]
      BY <2>3, <2>9, <2>11, <3>1
    <3>2. CASE ~link[s]
      BY <2>3, <2>9, <3>2
    <3> QED
      BY <3>1, <3>2
  <2>13. Honest(s)'
    BY <2>1, <2>2, <2>12 DEF Honest, Decided, v
  <2>14. Pending(s)'
    <3>1. link[s] => \A i \in 1..Len(v) : v[i].kind = "answer"
      BY <2>2, <2>3, <2>10, <2>11
    <3>2. Len(v) \in Nat
      BY <2>3, <2>11
    <3>3. ASSUME link[s], NEW i \in 1..Len(v)
          PROVE  IsFrame(v[i], 0 - Len(v) + i, 0, <<>>, msgQueue)
      <4>1. 0 - Len(v) + i <= 0
        BY <3>2
      <4> QED
        BY <3>1, <3>3, <4>1 DEF IsFrame
    <3>4. delivered'[s] = <<>> /\ Len(delivered'[s]) = 0
      BY <1>2
    <3>5. /\ Early(s)' => ~link'[s] /\ wire'[s] = <<>>
          /\ link'[s] = link[s] /\ msgQueue' = msgQueue
      BY <1>2, <2>1 DEF Early
    <3>6. Len(delivered'[s]) <= Taken(s)' + Len(wire'[s])
      BY <2>6, <3>2, <3>4 DEF v
    <3>7. link'[s] => \A i \in 1..Len(wire'[s]) :
            IsFrame(wire'[s][i], Len(delivered'[s]) - Len(wire'[s]) + i, Taken(s)',
                    delivered'[s], msgQueue')
      BY <2>6, <3>3, <3>4, <3>5 DEF v
    <3> QED
      BY <3>5, <3>6, <3>7 DEF Pending
  <2> QED
    BY <1>6, <2>7, <2>8, <2>13, <2>14 DEF SessionInv
<1> QED
  BY <1>5, <1>6

(* A message is written: the one behind the last that was. *)
LEMMA DeliverStep ==
  ASSUME IInv, C!TypeOK, Proper, Deliver, NEW t \in Sessions, SessionInv(t)
  PROVE  SessionInv(t)'
<1> DEFINE s == sessionList[curSession]
           x == ChatFrame(msgQueue[curMsg])
<1>1. /\ writer = "write" /\ delivered' = [delivered EXCEPT ![s] = Append(delivered[s], curMsg)]
      /\ Put(s, x)
      /\ UNCHANGED <<answer, pc, link, msgQueue, programVars>>
  BY DEF Deliver, WriteDone
<1>2. /\ curSession # 0 /\ curMsg # 0 /\ curSession \in 1..Len(sessionList)
      /\ s \in Sessions /\ pc[s] \notin {"idle", "accept"}
  BY <1>1, UnderIterator DEF IInv, IteratorInPass, StreamHasOneWriter
<1>3. ProgramRests(t)
  BY <1>1 DEF programVars, ProgramRests
<1>4. /\ wire \in [Sessions -> Seq(Frames)] /\ delivered \in [Sessions -> Seq(Nat)]
      /\ curMsg \in 1..Len(msgQueue) /\ Len(msgQueue) \in Nat
      /\ msgQueue \in Seq(Texts)
  <2>1. wire \in [Sessions -> Seq(Frames)] /\ msgQueue \in Seq(Texts)
    BY DEF Proper
  <2>2. curMsg \in 0..Len(msgQueue)
    BY DEF IInv, TypeOK
  <2>3. Len(msgQueue) \in Nat
    BY <2>1
  <2> QED
    BY <1>2, <2>1, <2>2, <2>3, Arrays
<1>5. delivered[s] # <<>> => LastGiven(s) = curMsg - 1
  <2>1. curSession \in Nat /\ ~(curSession < curSession)
    BY <1>2
  <2> QED
    BY <1>2, <2>1 DEF IInv, ServedInOrder, Frontier
<1> HIDE DEF s, x
<1>6. CASE t # s
  <2>1. delivered'[t] = delivered[t] /\ wire'[t] = wire[t]
    BY <1>1, <1>4, <1>6 DEF Put
  <2> QED
    BY <1>1, <1>3, <2>1, OtherStep
<1>7. CASE t = s
  <2> DEFINE d == delivered[t]
             e == Append(d, curMsg)
             w == wire[t]
             v == wire'[t]
             r == Taken(t)
  <2>1. /\ delivered'[t] = e
        /\ v = IF link[t] THEN Append(w, x) ELSE w
    BY <1>1, <1>4, <1>7 DEF Put
  <2>2. /\ Len(e) = Len(d) + 1 /\ Len(d) \in Nat /\ e[Len(d) + 1] = curMsg
        /\ \A i \in 1..Len(d) : e[i] = d[i]
        /\ d = <<>> <=> Len(d) = 0
    BY <1>4, PushSeq
  <2>3. x \in Frames /\ x.kind = "chat" /\ x.msg = msgQueue[curMsg]
    BY <1>4 DEF ChatFrame, Frames, x
  <2>4. w \in Seq(Frames)
    BY <1>4
  <2>5. /\ Len(Append(w, x)) = Len(w) + 1 /\ Len(w) \in Nat
        /\ \A i \in 1..Len(w) : Append(w, x)[i] = w[i]
        /\ Append(w, x)[Len(w) + 1] = x
    BY <2>3, <2>4, PushSeq
  <2>6. Honest(t) /\ Believes(t) /\ Waiting(t) /\ Numbered(t) /\ Heard(t) /\ Pending(t)
    BY DEF SessionInv
  <2>7. /\ handled'[t] = handled[t] /\ missed'[t] = missed[t] /\ Taken(t)' = r
        /\ handled[t] \in Seq(Texts) /\ missed[t] \in Nat /\ r \in Nat /\ r <= Len(d)
    BY <1>3, <2>6, Programs DEF ProgramRests, Taken, Heard
  <2>8. Believes(t)' /\ Waiting(t)'
    BY <1>1, <1>3, <2>6 DEF Believes, Waiting, ProgramRests, Decided
  <2> HIDE DEF d, e, w, v, r
  <2>9. Numbered(t)'
    <3>1. \A i \in 1..Len(d) : d[i] \in 1..Len(msgQueue) /\ d[i] = d[1] + (i - 1)
      BY <2>6 DEF Numbered, d
    <3>2. Len(d) # 0 => d[Len(d)] = curMsg - 1 /\ d[1] \in Nat
      <4>1. d # <<>> => d[Len(d)] = curMsg - 1
        BY <1>5, <1>7 DEF d, LastGiven
      <4> QED
        BY <1>4, <2>2, <3>1, <4>1
    <3>3. e[1] = IF Len(d) = 0 THEN curMsg ELSE d[1]
      BY <2>2
    <3>4. \A i \in 1..Len(e) : e[i] \in 1..Len(msgQueue) /\ e[i] = e[1] + (i - 1)
      <4> SUFFICES ASSUME NEW i \in 1..Len(e)
                   PROVE  e[i] \in 1..Len(msgQueue) /\ e[i] = e[1] + (i - 1)
        OBVIOUS
      <4>1. CASE i \in 1..Len(d)
        BY <2>2, <3>1, <3>3, <4>1
      <4>2. CASE i = Len(d) + 1
        <5>1. CASE Len(d) = 0
          BY <1>4, <2>2, <3>3, <4>2, <5>1
        <5>2. CASE Len(d) # 0
          <6>1. d[Len(d)] = d[1] + (Len(d) - 1)
            BY <2>2, <3>1, <5>2
          <6>2. curMsg - 1 = d[1] + (Len(d) - 1) /\ d[1] \in Nat /\ curMsg \in Nat
            BY <1>4, <3>2, <5>2, <6>1
          <6>3. curMsg = d[1] + Len(d)
            <7> DEFINE n == d[1]
                       l == Len(d)
            <7>1. curMsg - 1 = n + (l - 1) /\ n \in Nat /\ l \in Nat /\ curMsg \in Nat
              BY <2>2, <6>2
            <7> HIDE DEF n, l
            <7>2. curMsg = n + l
              BY ONLY <7>1
            <7> QED
              BY <7>2 DEF n, l
          <6>4. e[i] = curMsg /\ e[1] = d[1] /\ i - 1 = Len(d)
            BY <2>2, <3>3, <4>2, <5>2
          <6> QED
            BY <1>4, <6>3, <6>4
        <5> QED
          BY <5>1, <5>2
      <4> QED
        BY <2>2, <4>1, <4>2
    <3> QED
      BY <1>1, <2>1, <3>4 DEF Numbered
  <2>10. Heard(t)'
    <3> DEFINE h == handled[t]
               m == missed[t]
    <3>1. /\ r = m + Len(h) /\ Len(h) \in Nat /\ m \in Nat
          /\ \A i \in 1..Len(h) : h[i] = msgQueue[d[m + i]]
      <4>1. Len(h) \in Nat /\ m \in Nat
        BY <2>7
      <4>2. r = m + Len(h) /\ \A i \in 1..Len(h) : h[i] = msgQueue[d[m + i]]
        BY <2>6 DEF r, d, Taken, Heard
      <4> QED
        BY <4>1, <4>2
    <3> HIDE DEF h, m
    <3>2. \A i \in 1..Len(h) : m + i \in 1..Len(d)
      BY <2>2, <2>7, <3>1
    <3>3. \A i \in 1..Len(h) : h[i] = msgQueue[e[m + i]]
      BY <2>2, <3>1, <3>2
    <3>4. r <= Len(e)
      BY <2>2, <2>7
    <3> QED
      BY <1>1, <2>1, <2>7, <3>3, <3>4 DEF Heard, h, m
  <2>11. Honest(t)'
    <3>1. \A i \in 1..Len(w) :
            w[i].kind = "answer" /\ w[i].type \in SuccessAnswers => Decided(t)
      BY <2>6 DEF Honest, w
    <3>2. \A i \in 1..Len(v) :
            v[i].kind = "answer" /\ v[i].type \in SuccessAnswers => Decided(t)
      <4>1. CASE link[t]
        BY <2>1, <2>3, <2>5, <3>1, <4>1
      <4>2. CASE ~link[t]
        BY <2>1, <3>1, <4>2
      <4> QED
        BY <4>1, <4>2
    <3>3. Decided(t)' <=> Decided(t)
      BY <1>1 DEF Decided
    <3> QED
      BY <3>2, <3>3 DEF Honest, v
  <2>12. Pending(t)'
    <3>1. ~Early(t)'
      BY <1>1, <1>2, <1>7 DEF Early
    <3>2. CASE ~link[t]
      BY <1>1, <3>1, <3>2 DEF Pending
    <3>3. CASE link[t]
      <4>1. /\ Len(d) <= r + Len(w)
            /\ \A i \in 1..Len(w) :
                 IsFrame(w[i], Len(d) - Len(w) + i, r, d, msgQueue)
        BY <2>6, <3>3 DEF Pending, d, w, r
      <4>2. Len(v) = Len(w) + 1 /\ Len(e) - Len(v) = Len(d) - Len(w)
        BY <2>1, <2>2, <2>5, <3>3
      <4>3. ASSUME NEW i \in 1..Len(v)
            PROVE  IsFrame(v[i], Len(e) - Len(v) + i, r, e, msgQueue)
        <5> DEFINE k == Len(d) - Len(w) + i
        <5>1. CASE i \in 1..Len(w)
          <6>1. IsFrame(w[i], k, r, d, msgQueue)
            BY <4>1, <5>1
          <6>2. k <= r \/ k \in 1..Len(d)
            BY <2>2, <2>5, <2>7, <5>1
          <6> HIDE DEF k
          <6>3. IsFrame(w[i], k, r, e, msgQueue)
            BY <2>2, <6>1, <6>2 DEF IsFrame
          <6> QED
            BY <2>1, <2>5, <3>3, <4>2, <5>1, <6>3 DEF k
        <5>2. CASE i = Len(w) + 1
          <6>1. k = Len(d) + 1 /\ ~(k <= r)
            BY <2>2, <2>5, <2>7, <5>2
          <6> HIDE DEF k
          <6>2. v[i] = x
            BY <2>1, <2>5, <3>3, <5>2
          <6>3. IsFrame(v[i], k, r, e, msgQueue)
            BY <2>2, <2>3, <6>1, <6>2 DEF IsFrame
          <6> QED
            BY <4>2, <6>3 DEF k
        <5> QED
          BY <2>5, <4>2, <5>1, <5>2
      <4>4. Len(e) <= r + Len(v)
        BY <2>2, <2>5, <2>7, <4>1, <4>2
      <4> QED
        BY <1>1, <2>1, <2>7, <3>1, <4>3, <4>4 DEF Pending, v
    <3> QED
      BY <3>2, <3>3
  <2> QED
    BY <1>7, <2>8, <2>9, <2>10, <2>11, <2>12 DEF SessionInv
<1> QED
  BY <1>6, <1>7

-----------------------------------------------------------------------------
(* Steps of the programs *)

(* What a program does between two messages. *)
LEMMA BeliefStep ==
  ASSUME IInv, C!TypeOK, NEW s \in Sessions,
         Connected(s) \/ Request(s) \/ Failure(s) \/ Reader(s) \/ User(s),
         NEW t \in Sessions, Believes(t), Waiting(t)
  PROVE  Believes(t)' /\ Waiting(t)'
<1>1. UNCHANGED <<answer, handled, missed>>
  BY DEF Connected, Request, ClientSend, Failure, Reader, User, vars, C!ConnectDone,
         C!ConnectFails, C!Auth, C!WriteMessage, C!AuthThrows, C!StartRead,
         C!ReadThrows, C!Connect, C!SpawnReader, C!StopRead, C!vars
<1>2. Decided(t)' <=> Decided(t)
  BY <1>1 DEF Decided
<1>3. CASE UNCHANGED <<con, call, result, reader>>
  BY <1>1, <1>2, <1>3 DEF Believes, Waiting
<1>4. CASE C!ConnectDone(s) \/ C!ConnectFails(s)
  <2>1. /\ call' = [call EXCEPT ![s] = C!NoCall]
        /\ con' \in {con, [con EXCEPT ![s] = "Connected"]}
        /\ UNCHANGED <<result, reader>>
    BY <1>4 DEF C!ConnectDone, C!ConnectFails, C!Return
  <2> QED
    BY <1>1, <1>2, <2>1, Programs, SameProtocol DEF Believes, Waiting
<1>5. ASSUME NEW req \in AuthRequest, C!Auth(s, req) PROVE Believes(t)' /\ Waiting(t)'
  <2>1. /\ call' = [call EXCEPT ![s] = req]
        /\ reader[s] \in {"none", "threw"} /\ result[s] # "true"
        /\ UNCHANGED <<con, result, reader>>
    BY <1>5 DEF C!Auth
  <2> QED
    BY <1>1, <1>2, <2>1, Programs DEF Believes, Waiting
<1>6. CASE C!AuthThrows(s)
  <2>1. /\ call[s] \in AuthRequest /\ call' = [call EXCEPT ![s] = C!NoCall]
        /\ con' = [con EXCEPT ![s] = "NotConnected"]
        /\ result' = [result EXCEPT ![s] = "threw"]
        /\ UNCHANGED reader
    BY <1>6, SameProtocol DEF C!AuthThrows, C!Return
  <2> QED
    BY <1>1, <1>2, <2>1, Programs, SameProtocol DEF Believes, Waiting
<1>7. CASE C!StartRead(s) \/ C!ReadThrows(s)
  <2>1. /\ \/ con[s] = "LoggedIn" /\ reader' = [reader EXCEPT ![s] = "reading"]
                 /\ reader[s] = "starting"
           \/ reader' = [reader EXCEPT ![s] = "threw"]
        /\ UNCHANGED <<con, call, result>>
    BY <1>7 DEF C!StartRead, C!ReadThrows, C!IsLoggedIn
  <2> QED
    BY <1>1, <1>2, <2>1, Programs DEF Believes, Waiting
<1>8. CASE C!Connect(s)
  <2>1. call' = [call EXCEPT ![s] = C!ConnectCall] /\ UNCHANGED <<con, result, reader>>
    BY <1>8 DEF C!Connect
  <2> QED
    BY <1>1, <1>2, <2>1, Programs, SameProtocol DEF Believes, Waiting
<1>9. CASE C!SpawnReader(s)
  <2>1. /\ call[s] = C!NoCall /\ reader' = [reader EXCEPT ![s] = "starting"]
        /\ UNCHANGED <<con, call, result>>
    BY <1>9 DEF C!SpawnReader, C!Idle
  <2> QED
    BY <1>1, <1>2, <2>1, Programs, SameProtocol DEF Believes, Waiting
<1>10. CASE C!WriteMessage(s) \/ C!StopRead(s)
  BY <1>3, <1>10 DEF C!WriteMessage, C!StopRead, C!vars
<1> QED
  BY <1>4, <1>5, <1>6, <1>7, <1>8, <1>9, <1>10
     DEF Connected, Request, Failure, Reader, User

LEMMA ProgramStep ==
  ASSUME IInv, C!TypeOK, Proper, NEW s \in Sessions,
         Connected(s) \/ Request(s) \/ Failure(s) \/ Reader(s) \/ User(s),
         NEW t \in Sessions, SessionInv(t)
  PROVE  SessionInv(t)'
<1>1. UNCHANGED <<wire, handled, missed>>
  BY DEF Connected, Request, Failure, Reader, User, C!ConnectDone,
         C!ConnectFails, C!Auth, C!WriteMessage, C!AuthThrows, C!StartRead,
         C!ReadThrows, C!Connect, C!SpawnReader, C!StopRead, C!vars
<1>2. Quiet \/ UNCHANGED vars
  BY DEF Connected, Request, Failure, Reader, User, Quiet, Client
<1>3. Honest(t)' /\ Numbered(t)' /\ Heard(t)' /\ Pending(t)'
  BY <1>1, <1>2, QuietStep
<1>4. Believes(t)' /\ Waiting(t)'
  BY BeliefStep DEF SessionInv
<1> QED
  BY <1>3, <1>4 DEF SessionInv

-----------------------------------------------------------------------------
(* A client receives a message *)

LEMMA ReceivedFrame ==
  ASSUME IInv, C!TypeOK, Proper, NEW s \in Sessions, Receive(s), SessionInv(s)
  PROVE  LET f == Head(wire[s])
             k == Taken(s) + 1
         IN  /\ f \in Frames /\ Taken(s) \in Nat
             /\ Honest(s)' /\ Numbered(s)'
             /\ f.kind = "answer" /\ f.type \in SuccessAnswers => Decided(s)
             /\ f.kind = "answer" /\ Taken(s)' = Taken(s) => Pending(s)'
             /\ f.kind = "chat" =>
                  /\ k <= Len(delivered[s]) /\ f.msg = msgQueue[delivered[s][k]]
                  /\ Taken(s)' = k => Pending(s)'
             /\ UNCHANGED <<answer, delivered, msgQueue>>
<1> DEFINE f == Head(wire[s])
           w == wire[s]
           v == Tail(w)
           d == delivered[s]
           r == Taken(s)
<1>1. /\ link[s] /\ w # <<>> /\ wire'[s] = v /\ UNCHANGED vars
      /\ UNCHANGED <<answer, delivered, msgQueue, link, pc>>
  BY DEF Receive, Proper, vars
<1>2. /\ w \in Seq(Frames) /\ d \in Seq(Nat) /\ missed[s] \in Nat /\ Len(handled[s]) \in Nat
      /\ Honest(s) /\ Numbered(s) /\ Heard(s) /\ Pending(s)
  BY Arrays, Programs DEF Proper, SessionInv
<1>3. /\ Len(v) = Len(w) - 1 /\ Len(w) \in Nat \ {0} /\ Len(d) \in Nat
      /\ f \in Frames /\ f = w[1]
      /\ \A i \in 1..Len(v) : v[i] = w[i + 1]
  BY <1>1, <1>2, PopSeq
<1>4. r \in Nat /\ r <= Len(d)
  BY <1>2 DEF Taken, Heard
<1>5. /\ Len(d) <= r + Len(w)
      /\ \A i \in 1..Len(w) : IsFrame(w[i], Len(d) - Len(w) + i, r, d, msgQueue)
  BY <1>1, <1>2 DEF Pending
<1>6. ~Early(s)
  BY <1>1, <1>2 DEF Pending
<1>7. Numbered(s)'
  BY <1>1, <1>2 DEF Numbered
<1>8. \A i \in 1..Len(w) :
        w[i].kind = "answer" /\ w[i].type \in SuccessAnswers => Decided(s)
  BY <1>2 DEF Honest
<1> HIDE DEF f, w, v, d, r
<1>9. \A i \in 1..Len(v) : i + 1 \in 1..Len(w)
  BY <1>3
<1>10. Honest(s)'
  <2>1. \A i \in 1..Len(v) :
          v[i].kind = "answer" /\ v[i].type \in SuccessAnswers => Decided(s)
    BY <1>3, <1>8, <1>9
  <2>2. Decided(s)' <=> Decided(s)
    BY <1>1 DEF Decided
  <2> QED
    BY <1>1, <2>1, <2>2 DEF Honest
<1>11. f.kind = "answer" /\ f.type \in SuccessAnswers => Decided(s)
  BY <1>3, <1>8
<1>12. IsFrame(f, Len(d) - Len(v), r, d, msgQueue)
  <2>1. 1 \in 1..Len(w) /\ Len(d) - Len(w) + 1 = Len(d) - Len(v)
    BY <1>3
  <2>2. IsFrame(w[1], Len(d) - Len(w) + 1, r, d, msgQueue)
    BY <1>5, <2>1
  <2> QED
    BY <1>3, <2>1, <2>2
<1>13. \A i \in 1..Len(v) : IsFrame(v[i], Len(d) - Len(v) + i, r, d, msgQueue)
  <2> SUFFICES ASSUME NEW i \in 1..Len(v)
               PROVE  IsFrame(v[i], Len(d) - Len(v) + i, r, d, msgQueue)
    OBVIOUS
  <2>1. IsFrame(w[i + 1], Len(d) - Len(w) + (i + 1), r, d, msgQueue)
    BY <1>5, <1>9
  <2>2. Len(d) - Len(w) + (i + 1) = Len(d) - Len(v) + i
    BY <1>3
  <2> QED
    BY <1>3, <2>1, <2>2
<1>14. ASSUME NEW n, Taken(s)' = n, Len(d) <= n + Len(v),
              \A i \in 1..Len(v) : IsFrame(v[i], Len(d) - Len(v) + i, n, d, msgQueue)
       PROVE  Pending(s)'
  <2>1. ~Early(s)'
    BY <1>1, <1>6 DEF Early
  <2>2. delivered'[s] = d /\ msgQueue' = msgQueue /\ wire'[s] = v
    BY <1>1 DEF d
  <2> QED
    BY <1>14, <2>1, <2>2 DEF Pending
<1>15. ASSUME f.kind = "answer", Taken(s)' = r PROVE Pending(s)'
  <2>1. Len(d) - Len(v) <= r
    BY <1>12, <1>15 DEF IsFrame
  <2>2. Len(d) <= r + Len(v)
    BY <1>3, <1>4, <2>1
  <2> QED
    BY <1>13, <1>14, <1>15, <2>2
<1>16. ASSUME f.kind = "chat"
       PROVE  /\ r + 1 <= Len(d) /\ f.msg = msgQueue[d[r + 1]]
              /\ Taken(s)' = r + 1 => Pending(s)'
  <2>1. ~(Len(d) - Len(v) <= r) /\ f.msg = msgQueue[d[Len(d) - Len(v)]]
    BY <1>12, <1>16 DEF IsFrame
  <2>2. Len(d) - Len(v) = r + 1 /\ r + 1 <= Len(d)
    BY <1>3, <1>4, <1>5, <2>1
  <2>3. \A i \in 1..Len(v) : IsFrame(v[i], Len(d) - Len(v) + i, r + 1, d, msgQueue)
    <3> SUFFICES ASSUME NEW i \in 1..Len(v)
                 PROVE  IsFrame(v[i], Len(d) - Len(v) + i, r + 1, d, msgQueue)
      OBVIOUS
    <3> DEFINE k == Len(d) - Len(v) + i
    <3>1. ~(k <= r) /\ ~(k <= r + 1)
      BY <1>3, <1>4, <2>2
    <3>2. IsFrame(v[i], k, r, d, msgQueue)
      BY <1>13
    <3> HIDE DEF k
    <3>3. IsFrame(v[i], k, r + 1, d, msgQueue)
      BY <3>1, <3>2 DEF IsFrame
    <3> QED
      BY <3>3 DEF k
  <2>4. Len(d) <= (r + 1) + Len(v)
    BY <1>3, <1>4, <2>2
  <2> QED
    BY <1>14, <2>1, <2>2, <2>3, <2>4
<1> QED
  BY <1>1, <1>3, <1>4, <1>7, <1>10, <1>11, <1>15, <1>16 DEF f, d, r

(* ... that Auth takes for the answer ... *)
LEMMA AnswerStep ==
  ASSUME IInv, C!TypeOK, Proper, NEW s \in Sessions, Receive(s), SessionInv(s),
         C!AuthReturns(s, Head(wire[s]))
  PROVE  SessionInv(s)'
<1> DEFINE f == Head(wire[s])
           ok == C!SaysSuccess(call[s], f)
<1>1. /\ f \in Frames /\ Taken(s) \in Nat
      /\ Honest(s)' /\ Numbered(s)'
      /\ f.kind = "answer" /\ f.type \in SuccessAnswers => Decided(s)
      /\ f.kind = "answer" /\ Taken(s)' = Taken(s) => Pending(s)'
      /\ f.kind = "chat" =>
           /\ Taken(s) + 1 <= Len(delivered[s])
           /\ Taken(s)' = Taken(s) + 1 => Pending(s)'
      /\ UNCHANGED <<answer, delivered, msgQueue>>
  BY ReceivedFrame
<1>2. /\ call[s] \in AuthRequest /\ call' = [call EXCEPT ![s] = C!NoCall]
      /\ result' = [result EXCEPT ![s] = IF ok THEN "true" ELSE "false"]
      /\ con' = IF ok THEN [con EXCEPT ![s] = "LoggedIn"] ELSE con
      /\ missed' = IF f.kind = "answer" THEN missed
                   ELSE [missed EXCEPT ![s] = missed[s] + 1]
      /\ UNCHANGED <<reader, handled>>
  BY SameProtocol DEF C!AuthReturns, C!Return
<1>3. ok => Decided(s)
  BY <1>1 DEF C!SaysSuccess, C!SuccessOf, SuccessAnswers
<1>4. f.kind \in {"answer", "chat"}
  BY <1>1 DEF Frames
<1> HIDE DEF f, ok
<1>5. Believes(s) /\ Waiting(s) /\ Heard(s)
  BY DEF SessionInv
<1>6. /\ result[s] # "true" /\ reader[s] \in {"none", "threw"} /\ handled[s] = <<>>
      /\ con[s] # "LoggedIn"
  BY <1>2, <1>5 DEF Waiting, Believes
<1>7. /\ call'[s] = C!NoCall /\ result'[s] = (IF ok THEN "true" ELSE "false")
      /\ con'[s] = (IF ok THEN "LoggedIn" ELSE con[s])
      /\ missed'[s] = missed[s] + (IF f.kind = "answer" THEN 0 ELSE 1)
      /\ reader'[s] = reader[s] /\ handled'[s] = <<>>
      /\ missed[s] \in Nat
  BY <1>2, <1>6, Programs
<1>8. Decided(s)' <=> Decided(s)
  BY <1>1 DEF Decided
<1>9. Believes(s)' /\ Waiting(s)'
  BY <1>3, <1>6, <1>7, <1>8, SameProtocol DEF Believes, Waiting
<1>10. Taken(s) = missed[s] /\ Taken(s)' = missed'[s]
  BY <1>6, <1>7 DEF Taken
<1>11. Taken(s)' <= Len(delivered[s]) /\ Pending(s)'
  <2>1. CASE f.kind = "answer"
    BY <1>1, <1>5, <1>7, <1>10, <2>1 DEF Heard, f
  <2>2. CASE f.kind = "chat"
    BY <1>1, <1>7, <1>10, <2>2 DEF f
  <2> QED
    BY <1>4, <2>1, <2>2
<1>12. Heard(s)'
  BY <1>1, <1>7, <1>11 DEF Heard
<1> QED
  BY <1>1, <1>9, <1>11, <1>12 DEF SessionInv

(* ... or that the reader thread reads. *)
LEMMA ReadStep ==
  ASSUME IInv, C!TypeOK, Proper, NEW s \in Sessions, Receive(s), SessionInv(s),
         C!Read(s, Head(wire[s]))
  PROVE  SessionInv(s)'
<1> DEFINE f == Head(wire[s])
           h == handled[s]
           m == missed[s]
           d == delivered[s]
           g == Append(h, f.msg)
<1>1. /\ f \in Frames /\ Taken(s) \in Nat
      /\ Honest(s)' /\ Numbered(s)'
      /\ f.kind = "answer" /\ Taken(s)' = Taken(s) => Pending(s)'
      /\ f.kind = "chat" =>
           /\ Taken(s) + 1 <= Len(d) /\ f.msg = msgQueue[d[Taken(s) + 1]]
           /\ Taken(s)' = Taken(s) + 1 => Pending(s)'
      /\ UNCHANGED <<answer, delivered, msgQueue>>
  BY ReceivedFrame
<1>2. f.kind \in {"answer", "chat"} /\ (f.kind = "chat" => f.msg \in Texts)
  BY <1>1 DEF Frames
<1>3. /\ reader[s] = "reading"
      /\ handled'[s] = IF f.kind = "chat" THEN g ELSE h
      /\ missed' = missed
      /\ reader' \in {reader, [reader EXCEPT ![s] = "none"]}
      /\ UNCHANGED <<con, call, result>>
  BY <1>2, Programs DEF C!Read, C!Handle
<1>4. /\ Believes(s) /\ Waiting(s) /\ h \in Seq(Texts) /\ m \in Nat /\ Len(h) \in Nat
      /\ m + Len(h) <= Len(d)
      /\ \A i \in 1..Len(h) : h[i] = msgQueue[d[m + i]]
  BY Programs DEF SessionInv, Heard, Taken
<1>5. Believes(s)' /\ Waiting(s)'
  BY <1>1, <1>3, <1>4, Programs DEF Believes, Waiting, Decided
<1>6. Taken(s) = m + Len(h) /\ Taken(s)' = m + Len(handled'[s])
  BY <1>3 DEF Taken
<1>7. CASE f.kind = "answer"
  <2>1. handled'[s] = h
    BY <1>3, <1>7
  <2>2. Heard(s)'
    BY <1>1, <1>3, <1>4, <1>6, <2>1 DEF Heard
  <2>3. Pending(s)'
    BY <1>1, <1>6, <1>7, <2>1
  <2> QED
    BY <1>1, <1>5, <2>2, <2>3 DEF SessionInv
<1>8. CASE f.kind = "chat"
  <2>1. handled'[s] = g
    BY <1>3, <1>8
  <2>2. /\ Len(g) = Len(h) + 1 /\ g[Len(h) + 1] = f.msg
        /\ \A i \in 1..Len(h) : g[i] = h[i]
    BY <1>2, <1>4, <1>8, PushSeq
  <2> HIDE DEF g, f, h, m, d
  <2>3. Taken(s)' = Taken(s) + 1 /\ m + (Len(h) + 1) = Taken(s) + 1
    BY <1>4, <1>6, <2>1, <2>2
  <2>4. \A i \in 1..Len(g) : g[i] = msgQueue[d[m + i]]
    <3> SUFFICES ASSUME NEW i \in 1..Len(g) PROVE g[i] = msgQueue[d[m + i]]
      OBVIOUS
    <3>1. i \in 1..Len(h) \/ i = Len(h) + 1
      BY <1>4, <2>2
    <3>2. CASE i \in 1..Len(h)
      BY <1>4, <2>2, <3>2
    <3>3. CASE i = Len(h) + 1
      BY <1>1, <1>8, <2>2, <2>3, <3>3
    <3> QED
      BY <3>1, <3>2, <3>3
  <2>5. Heard(s)'
    BY <1>1, <1>3, <1>8, <2>1, <2>3, <2>4 DEF Heard, m, d
  <2>6. Pending(s)'
    BY <1>1, <1>8, <2>3
  <2> QED
    BY <1>1, <1>5, <2>5, <2>6 DEF SessionInv
<1> QED
  BY <1>2, <1>7, <1>8

LEMMA OthersRest ==
  ASSUME C!TypeOK, NEW s \in Sessions, Receive(s), NEW t \in Sessions, t # s
  PROVE  ProgramRests(t)
<1> DEFINE f == Head(wire[s])
<1>1. CASE C!AuthReturns(s, f)
  <2>1. /\ call' = [call EXCEPT ![s] = C!NoCall]
        /\ \E r : result' = [result EXCEPT ![s] = r]
        /\ con' = con \/ con' = [con EXCEPT ![s] = "LoggedIn"]
        /\ missed' = missed \/ missed' = [missed EXCEPT ![s] = missed[s] + 1]
        /\ UNCHANGED <<reader, handled>>
    BY <1>1 DEF C!AuthReturns, C!Return
  <2> QED
    BY <2>1, Programs DEF ProgramRests
<1>2. CASE C!Read(s, f)
  <2>1. /\ handled' = handled \/ handled' = [handled EXCEPT ![s] = Append(handled[s], f.msg)]
        /\ missed' = missed \/ missed' = [missed EXCEPT ![s] = missed[s] + 1]
        /\ reader' = reader \/ reader' = [reader EXCEPT ![s] = "none"]
        /\ UNCHANGED <<con, call, result>>
    BY <1>2 DEF C!Read, C!Handle
  <2> HIDE DEF f
  <2> QED
    BY <2>1, Programs DEF ProgramRests
<1> QED
  BY <1>1, <1>2 DEF Receive

LEMMA ReceiveStep ==
  ASSUME IInv, C!TypeOK, Proper, NEW s \in Sessions, Receive(s),
         NEW t \in Sessions, SessionInv(t)
  PROVE  SessionInv(t)'
<1>1. CASE t = s
  BY <1>1, AnswerStep, ReadStep DEF Receive
<1>2. CASE t # s
  <2>1. ProgramRests(t)
    BY <1>2, OthersRest
  <2>2. /\ wire'[t] = wire[t]
        /\ UNCHANGED <<answer, pc, delivered, msgQueue, link>>
    BY <1>2 DEF Receive, Proper, vars
  <2> QED
    BY <2>1, <2>2, OtherStep
<1> QED
  BY <1>1, <1>2

-----------------------------------------------------------------------------
(* The other steps of the server *)

LEMMA ServerStep ==
  ASSUME IInv, C!TypeOK, Proper, NEW t \in Sessions, SessionInv(t),
         (\E s \in Sessions : Handshake(s) \/ Control(s)) \/ Writer \/ Environment
  PROVE  SessionInv(t)'
<1>1. UNCHANGED <<programVars, wire>>
  BY DEF Handshake, Control, Writer, Environment
<1>2. Quiet
  BY DEF Handshake, Control, Writer, Environment, Quiet, Setup, Client
<1>3. ProgramRests(t) /\ wire' = wire
  BY <1>1 DEF programVars, ProgramRests
<1>4. answer' = answer /\ Honest(t)' /\ Numbered(t)' /\ Heard(t)' /\ Pending(t)'
  BY <1>2, <1>3, QuietStep DEF ProgramRests
<1>5. Believes(t)' /\ Waiting(t)'
  BY <1>3, <1>4 DEF SessionInv, Believes, Waiting, ProgramRests, Decided
<1> QED
  BY <1>4, <1>5 DEF SessionInv

-----------------------------------------------------------------------------
(* Types of a step *)

LEMMA QueueProper ==
  ASSUME IInv, Proper, [SysNext]_sysVars
  PROVE  msgQueue' \in Seq(Texts)
<1>1. msgQueue \in Seq(Texts) /\ inbox \in [Sessions -> Seq(Regular)]
  BY DEF Proper
<1>2. ASSUME NEW s \in Sessions, HandleChatMessage(s) PROVE msgQueue' \in Seq(Texts)
  <2> DEFINE req == Head(inbox[s])
  <2>1. /\ inbox[s] # <<>> /\ req.type \in {"MESSAGE", "BADBODY"}
        /\ \/ msgQueue' = msgQueue
           \/ msgQueue' = Append(msgQueue, IF req.type = "MESSAGE" THEN req.text
                                           ELSE NoText)
    BY <1>2 DEF HandleChatMessage
  <2>2. req \in Regular
    <3>1. inbox[s] \in Seq(Regular)
      BY <1>1
    <3> QED
      BY <2>1, <3>1, PopSeq
  <2> HIDE DEF req
  <2>3. req.type = "MESSAGE" /\ req.text \in Texts
    BY <2>1, <2>2 DEF Regular, AuthRequest, ChatRequest
  <2>4. msgQueue' = msgQueue \/ msgQueue' = Append(msgQueue, req.text)
    BY <2>1, <2>3
  <2>5. Append(msgQueue, req.text) \in Seq(Texts)
    BY <1>1, <2>3, PushSeq
  <2> QED
    BY <1>1, <2>4, <2>5
<1>3. ASSUME NEW s \in Sessions, Handshake(s) PROVE msgQueue' = msgQueue
  BY <1>3 DEF Handshake, AddSession, HandleAcceptError, HandshakeDone
<1>4. ASSUME NEW s \in Sessions, Control(s), ~HandleChatMessage(s)
      PROVE  msgQueue' = msgQueue
  BY <1>4 DEF Control, Start, ControlError, AnswerError, AnswerDropped, AnswerDone,
              NotifyWriter, SkipChatMessage
<1>5. ASSUME NEW s \in Sessions, Reply(s) PROVE msgQueue' = msgQueue
  BY <1>5, ReplyEffect
<1>6. ASSUME NEW s \in Sessions,
             Connected(s) \/ Request(s) \/ Failure(s) \/ Receive(s) \/ Reader(s) \/ User(s)
      PROVE  msgQueue' = msgQueue
  BY <1>6 DEF Connected, Request, ClientSend, Failure, Receive, Reader, User, vars
<1>7. ASSUME Deliver \/ Writer \/ Environment PROVE msgQueue' = msgQueue
  BY <1>7 DEF Deliver, WriteDone, Writer, CheckQueue, FallAsleep, EndPass, LookAtSession,
              CleanSession, WriteThrows, Environment, SpuriousWake, Disconnect
<1>8. CASE UNCHANGED sysVars
  BY <1>1, <1>8 DEF sysVars, vars
<1> QED
  BY <1>1, <1>2, <1>3, <1>4, <1>5, <1>6, <1>7, <1>8 DEF SysNext

LEMMA InboxProper ==
  ASSUME IInv, Proper, [SysNext]_sysVars
  PROVE  inbox' \in [Sessions -> Seq(Regular)]
<1>1. inbox \in [Sessions -> Seq(Regular)]
  BY DEF Proper
<1>2. ASSUME NEW s \in Sessions, inbox[s] # <<>>, inbox' = [inbox EXCEPT ![s] = Tail(inbox[s])]
      PROVE  inbox' \in [Sessions -> Seq(Regular)]
  <2>1. Tail(inbox[s]) \in Seq(Regular)
    BY <1>1, <1>2, PopSeq
  <2> QED
    BY <1>1, <1>2, <2>1
<1>3. ASSUME NEW s \in Sessions, Request(s) PROVE inbox' \in [Sessions -> Seq(Regular)]
  <2>1. PICK req \in Regular : ClientSend(s, req)
    BY <1>3 DEF Request, Regular
  <2>2. Append(inbox[s], req) \in Seq(Regular)
    BY <1>1, <2>1, PushSeq
  <2> QED
    BY <1>1, <2>1, <2>2 DEF ClientSend
<1>4. ASSUME NEW s \in Sessions, Reply(s)
      PROVE  \/ inbox' = inbox
             \/ inbox[s] # <<>> /\ inbox' = [inbox EXCEPT ![s] = Tail(inbox[s])]
  BY <1>4 DEF Reply, HandleLogin, HandleRegister, HandleFormatFailure, CanRead, ReadUntil
<1>5. ASSUME NEW s \in Sessions, Control(s)
      PROVE  \/ inbox' = inbox
             \/ inbox[s] # <<>> /\ inbox' = [inbox EXCEPT ![s] = Tail(inbox[s])]
  BY <1>5 DEF Control, Start, ControlError, AnswerError, AnswerDropped, AnswerDone,
              HandleChatMessage, NotifyWriter, SkipChatMessage
<1>6. ASSUME NEW s \in Sessions, Handshake(s) PROVE inbox' = inbox
  BY <1>6 DEF Handshake, AddSession, HandleAcceptError, HandshakeDone
<1>7. ASSUME NEW s \in Sessions,
             Connected(s) \/ Failure(s) \/ Receive(s) \/ Reader(s) \/ User(s)
      PROVE  inbox' = inbox
  BY <1>7 DEF Connected, Failure, Receive, Reader, User, vars
<1>8. ASSUME Deliver \/ Writer \/ Environment PROVE inbox' = inbox
  BY <1>8 DEF Deliver, WriteDone, Writer, CheckQueue, FallAsleep, EndPass, LookAtSession,
              CleanSession, WriteThrows, Environment, SpuriousWake, Disconnect
<1>9. CASE UNCHANGED sysVars
  BY <1>1, <1>9 DEF sysVars, vars
<1> QED
  BY <1>1, <1>2, <1>3, <1>4, <1>5, <1>6, <1>7, <1>8, <1>9 DEF SysNext

LEMMA WireProper ==
  ASSUME IInv, Proper, [SysNext]_sysVars
  PROVE  wire' \in [Sessions -> Seq(Frames)]
<1>1. wire \in [Sessions -> Seq(Frames)] /\ msgQueue \in Seq(Texts)
  BY DEF Proper
<1>2. ASSUME NEW s \in Sessions, NEW x \in Frames, Put(s, x)
      PROVE  wire' \in [Sessions -> Seq(Frames)]
  <2>1. Append(wire[s], x) \in Seq(Frames)
    BY <1>1, PushSeq
  <2> QED
    BY <1>1, <1>2, <2>1 DEF Put
<1>3. ASSUME NEW s \in Sessions, Reply(s) PROVE wire' \in [Sessions -> Seq(Frames)]
  <2>1. PICK type \in Answers : Put(s, AnswerFrame(type))
    BY <1>3, ReplyEffect
  <2>2. AnswerFrame(type) \in Frames
    BY DEF AnswerFrame, Frames
  <2> QED
    BY <1>2, <2>1, <2>2
<1>4. CASE Deliver
  <2> DEFINE s == sessionList[curSession]
             x == ChatFrame(msgQueue[curMsg])
  <2>1. writer = "write" /\ Put(s, x)
    BY <1>4 DEF Deliver, WriteDone
  <2>2. curSession # 0 /\ curMsg # 0 /\ s \in Sessions
    BY <2>1, UnderIterator DEF IInv, IteratorInPass
  <2>3. curMsg \in 1..Len(msgQueue)
    BY <1>1, <2>2 DEF IInv, TypeOK
  <2>4. x \in Frames
    BY <1>1, <2>3 DEF ChatFrame, Frames
  <2> HIDE DEF s, x
  <2> QED
    BY <1>2, <2>1, <2>2, <2>4
<1>5. ASSUME NEW s \in Sessions, Receive(s) PROVE wire' \in [Sessions -> Seq(Frames)]
  <2>1. wire[s] # <<>> /\ wire' = [wire EXCEPT ![s] = Tail(wire[s])]
    BY <1>5 DEF Receive
  <2>2. Tail(wire[s]) \in Seq(Frames)
    BY <1>1, <2>1, PopSeq
  <2> QED
    BY <1>1, <2>1, <2>2
<1>6. ASSUME NEW s \in Sessions,
             \/ Handshake(s) \/ Control(s) \/ Connected(s) \/ Request(s)
             \/ Failure(s) \/ Reader(s) \/ User(s)
      PROVE  wire' = wire
  BY <1>6 DEF Handshake, Control, Connected, Request, Failure, Reader, User
<1>7. ASSUME Writer \/ Environment PROVE wire' = wire
  BY <1>7 DEF Writer, Environment
<1>8. CASE UNCHANGED sysVars
  BY <1>1, <1>8 DEF sysVars
<1> QED
  BY <1>1, <1>3, <1>4, <1>5, <1>6, <1>7, <1>8 DEF SysNext

LEMMA ProgramTypes ==
  ASSUME C!TypeOK, Proper, [SysNext]_sysVars
  PROVE  C!TypeOK'
<1> DEFINE Typed ==
      /\ con \in [Sessions -> ConnectionStates] /\ isRead \in [Sessions -> BOOLEAN]
      /\ name \in [Sessions -> Users \cup {NoUser}] /\ call \in [Sessions -> C!Calls]
      /\ result \in [Sessions -> C!Results] /\ reader \in [Sessions -> C!ReaderStates]
      /\ handled \in [Sessions -> Seq(Texts)] /\ missed \in [Sessions -> Nat]
<1>1. Typed
  BY SameProtocol DEF C!TypeOK
<1> SUFFICES Typed'
  BY SameProtocol DEF C!TypeOK
<1> USE DEF C!Results, C!ReaderStates, ConnectionStates
<1>2. CASE UNCHANGED programVars
  BY <1>1, <1>2 DEF programVars
<1>3. ASSUME NEW s \in Sessions, C!ConnectDone(s) \/ C!ConnectFails(s) PROVE Typed'
  BY <1>1, <1>3, SameProtocol DEF C!ConnectDone, C!ConnectFails, C!Return
<1>4. ASSUME NEW s \in Sessions, NEW req \in AuthRequest, C!Auth(s, req) PROVE Typed'
  BY <1>1, <1>4, SameProtocol DEF C!Auth
<1>5. ASSUME NEW s \in Sessions, C!AuthThrows(s) PROVE Typed'
  BY <1>1, <1>5, SameProtocol DEF C!AuthThrows, C!Return
<1>6. ASSUME NEW s \in Sessions, C!StartRead(s) \/ C!ReadThrows(s) PROVE Typed'
  BY <1>1, <1>6 DEF C!StartRead, C!ReadThrows
<1>7. ASSUME NEW s \in Sessions, C!Connect(s) \/ C!SpawnReader(s) \/ C!StopRead(s)
      PROVE  Typed'
  BY <1>1, <1>7, SameProtocol DEF C!Connect, C!SpawnReader, C!StopRead
<1>8. ASSUME NEW s \in Sessions, C!WriteMessage(s) PROVE Typed'
  BY <1>1, <1>8 DEF C!WriteMessage, C!vars
<1>9. ASSUME NEW s \in Sessions, Receive(s) PROVE Typed'
  <2> DEFINE f == Head(wire[s])
  <2>1. f \in Frames
    <3>1. wire[s] \in Seq(Frames) /\ wire[s] # <<>>
      BY <1>9 DEF Receive, Proper
    <3> QED
      BY <3>1, PopSeq
  <2> HIDE DEF f
  <2>2. CASE C!AuthReturns(s, f)
    <3>1. call[s].user \in Users
      BY <2>2, SameProtocol DEF C!AuthReturns, AuthRequest
    <3>2. /\ call' = [call EXCEPT ![s] = C!NoCall]
          /\ \/ result' = [result EXCEPT ![s] = "true"]
             \/ result' = [result EXCEPT ![s] = "false"]
          /\ con' = con \/ con' = [con EXCEPT ![s] = "LoggedIn"]
          /\ name' = name \/ name' = [name EXCEPT ![s] = call[s].user]
          /\ missed' = missed \/ missed' = [missed EXCEPT ![s] = missed[s] + 1]
          /\ UNCHANGED <<isRead, reader, handled>>
      BY <2>2 DEF C!AuthReturns, C!Return
    <3>3. missed[s] + 1 \in Nat
      BY <1>1
    <3>4. con' \in [Sessions -> ConnectionStates] /\ result' \in [Sessions -> C!Results]
      BY <1>1, <3>2
    <3>5. call' \in [Sessions -> C!Calls]
      BY <1>1, <3>2, SameProtocol
    <3>6. missed' \in [Sessions -> Nat]
      BY <1>1, <3>2, <3>3
    <3>7. name' \in [Sessions -> Users \cup {NoUser}]
      BY <1>1, <3>1, <3>2
    <3> QED
      BY <1>1, <3>2, <3>4, <3>5, <3>6, <3>7
  <2>3. CASE C!Read(s, f)
    <3>1. f.kind = "chat" => f.msg \in Texts
      BY <2>1 DEF Frames
    <3>2. f.kind = "chat" => Append(handled[s], f.msg) \in Seq(Texts)
      BY <1>1, <3>1
    <3>3. /\ IF f.kind = "chat"
             THEN handled' = [handled EXCEPT ![s] = Append(handled[s], f.msg)]
             ELSE handled' = handled
          /\ missed' = missed \/ missed' = [missed EXCEPT ![s] = missed[s] + 1]
          /\ reader' = reader \/ reader' = [reader EXCEPT ![s] = "none"]
          /\ UNCHANGED <<con, isRead, name, call, result>>
      BY <2>3 DEF C!Read, C!Handle
    <3>4. missed[s] + 1 \in Nat
      BY <1>1
    <3>5. handled' \in [Sessions -> Seq(Texts)]
      BY <1>1, <3>2, <3>3
    <3>6. missed' \in [Sessions -> Nat]
      BY <1>1, <3>3, <3>4
    <3>7. reader' \in [Sessions -> C!ReaderStates]
      BY <1>1, <3>3
    <3> QED
      BY <1>1, <3>3, <3>5, <3>6, <3>7
  <2> QED
    BY <1>9, <2>2, <2>3 DEF Receive, f
<1> HIDE DEF Typed
<1>10. ASSUME NEW s \in Sessions, Handshake(s) \/ Control(s) PROVE Typed'
  BY <1>2, <1>10 DEF Handshake, Control
<1>11. ASSUME NEW s \in Sessions, Reply(s) PROVE Typed'
  BY <1>2, <1>11 DEF Reply
<1>12. CASE Deliver \/ Writer \/ Environment
  BY <1>2, <1>12 DEF Deliver, Writer, Environment
<1>13. ASSUME NEW s \in Sessions,
              Connected(s) \/ Request(s) \/ Failure(s) \/ Reader(s) \/ User(s)
       PROVE  Typed'
  BY <1>3, <1>4, <1>5, <1>6, <1>7, <1>8, <1>13
     DEF Connected, Request, Failure, Reader, User
<1>14. CASE UNCHANGED sysVars
  BY <1>2, <1>14 DEF sysVars
<1> QED
  BY <1>9, <1>10, <1>11, <1>12, <1>13, <1>14 DEF SysNext

-----------------------------------------------------------------------------
(* The theorems *)

LEMMA InitSys == SysInit => SysInv
<1> SUFFICES ASSUME SysInit PROVE SysInv
  OBVIOUS
<1>1. Init /\ C!Init /\ IInv
  BY InitInv DEF SysInit
<1>2. C!TypeOK
  BY <1>1, SameProtocol DEF C!Init, C!TypeOK, C!Results, C!ReaderStates, C!ConnectionStates
<1>3. Proper
  BY <1>1 DEF Init, Proper, SysInit
<1>4. ASSUME NEW s \in Sessions PROVE SessionInv(s)
  <2>1. /\ wire[s] = <<>> /\ delivered[s] = <<>> /\ ~link[s]
        /\ con[s] = "NotConnected" /\ call[s] = C!NoCall /\ result[s] = "none"
        /\ reader[s] = "none" /\ handled[s] = <<>> /\ missed[s] = 0
    BY <1>1 DEF Init, C!Init, SysInit
  <2>2. Honest(s) /\ Numbered(s)
    BY <2>1 DEF Honest, Numbered
  <2>3. Believes(s) /\ Waiting(s)
    BY <2>1, SameProtocol DEF Believes, Waiting
  <2>4. Heard(s) /\ Pending(s)
    BY <2>1 DEF Heard, Taken, Pending
  <2> QED
    BY <2>2, <2>3, <2>4 DEF SessionInv
<1> QED
  BY <1>1, <1>2, <1>3, <1>4 DEF SysInv

LEMMA SysStep == SysInv /\ [SysNext]_sysVars => SysInv'
<1> SUFFICES ASSUME SysInv, [SysNext]_sysVars PROVE SysInv'
  OBVIOUS
<1>1. IInv /\ C!TypeOK /\ Proper /\ \A t \in Sessions : SessionInv(t)
  BY DEF SysInv
<1>2. IInv'
  BY <1>1, SystemStep, NextInv
<1>3. C!TypeOK' /\ Proper'
  BY <1>1, ProgramTypes, QueueProper, InboxProper, WireProper DEF Proper
<1>4. ASSUME NEW t \in Sessions PROVE SessionInv(t)'
  <2>1. CASE UNCHANGED sysVars
    <3>1. ProgramRests(t) /\ UNCHANGED <<answer, wire, pc, delivered, msgQueue, link>>
      BY <2>1 DEF sysVars, vars, programVars, ProgramRests
    <3> QED
      BY <1>1, <3>1, OtherStep
  <2>2. CASE (\E s \in Sessions : Handshake(s) \/ Control(s)) \/ Writer \/ Environment
    BY <1>1, <2>2, ServerStep
  <2>3. ASSUME NEW s \in Sessions, Reply(s) PROVE SessionInv(t)'
    BY <1>1, <2>3, ReplyStep
  <2>4. ASSUME NEW s \in Sessions,
               Connected(s) \/ Request(s) \/ Failure(s) \/ Reader(s) \/ User(s)
        PROVE  SessionInv(t)'
    BY <1>1, <2>4, ProgramStep
  <2>5. ASSUME NEW s \in Sessions, Receive(s) PROVE SessionInv(t)'
    BY <1>1, <2>5, ReceiveStep
  <2>6. CASE Deliver
    BY <1>1, <2>6, DeliverStep
  <2> QED
    BY <2>1, <2>2, <2>3, <2>4, <2>5, <2>6 DEF SysNext
<1> QED
  BY <1>1, <1>2, <1>3, <1>4 DEF SysInv

THEOREM SystemInvariance == SysSpec => []SysInv
BY InitSys, SysStep, PTL DEF SysSpec

(* The server and the programs of the clients keep their types: a wire     *)
(* carries answers and texts as they were posted (ChatRw::ReadScMessage    *)
(* behind Session::SyncWriteMessage).                                      *)
THEOREM SystemTypes == SysSpec => []SysTypeOK
<1>1. SysInv => SysTypeOK
  BY DEF SysInv, IInv, Proper, SysTypeOK
<1> QED
  BY <1>1, SystemInvariance, PTL

(* A client that believes to be logged in is authenticated at the server,  *)
(* whatever it took for the answer to its request (ChatRw::Auth against    *)
(* Session::HandleAuthScMessage, which answers old requests again).        *)
THEOREM LoggedInClients == SysSpec => []ClientIsAuthenticated
<1>1. SysInv => ClientIsAuthenticated
  <2> SUFFICES ASSUME SysInv, NEW s \in Sessions, result[s] = "true" \/ C!IsLoggedIn(s)
               PROVE  /\ answer[s] \in SuccessAnswers
                      /\ username[s] # NoUser /\ HasAccount(authInfo, username[s])
                      /\ pc[s] \notin {"handshake", "readAuth"}
    BY DEF ClientIsAuthenticated
  <2>1. answer[s] \in SuccessAnswers
    BY DEF SysInv, SessionInv, Believes, Decided, C!IsLoggedIn
  <2> QED
    BY <2>1, NoUserAssumption DEF SysInv, IInv, Authenticated
<1> QED
  BY <1>1, SystemInvariance, PTL

(* From end to end: the handler of a client is called with the messages of *)
(* msg_queue_ in their order, without gap or repeat, from the first one    *)
(* that Auth did not take for an answer (ChatRw::StartRead behind          *)
(* IrcServerApp::StartWrite).                                              *)
THEOREM HandlersInOrder == SysSpec => []HandlersSeeTheRoom
<1>1. SysInv => HandlersSeeTheRoom
  <2> SUFFICES ASSUME SysInv, NEW s \in Sessions, NEW i \in DOMAIN handled[s]
               PROVE  /\ missed[s] + i <= Len(delivered[s])
                      /\ handled[s][i] = msgQueue[delivered[s][1] + missed[s] + i - 1]
    BY DEF HandlersSeeTheRoom
  <2>1. /\ handled[s] \in Seq(Texts) /\ missed[s] \in Nat
        /\ delivered[s] \in Seq(Nat)
    BY Programs, Arrays DEF SysInv
  <2>2. Heard(s) /\ Numbered(s)
    BY DEF SysInv, SessionInv
  <2> DEFINE m == missed[s]
             h == handled[s]
             d == delivered[s]
  <2>3. Len(h) \in Nat /\ Len(d) \in Nat /\ m \in Nat /\ i \in 1..Len(h)
    BY <2>1
  <2>4. m + Len(h) <= Len(d) /\ \A k \in 1..Len(h) : h[k] = msgQueue[d[m + k]]
    BY <2>2 DEF Heard, Taken
  <2>5. \A k \in 1..Len(d) : d[k] = d[1] + (k - 1)
    BY <2>2 DEF Numbered
  <2>6. \A k \in 1..Len(d) : d[k] \in Nat
    BY <2>1
  <2> DEFINE k == m + i
             n == d[1]
  <2> HIDE DEF h, d, m
  <2>7. h[i] = msgQueue[d[k]]
    BY <2>3, <2>4
  <2>8. k \in 1..Len(d) /\ 1 \in 1..Len(d)
    BY <2>3, <2>4
  <2>9. k \in Nat /\ n \in Nat
    BY <2>3, <2>6, <2>8
  <2> HIDE DEF k
  <2>10. d[k] = n + (k - 1)
    BY <2>5, <2>8
  <2> HIDE DEF n
  <2>11. n + (k - 1) = n + m + i - 1
    <3>1. i \in Nat /\ m \in Nat /\ n \in Nat /\ k = m + i
      BY <2>3, <2>9 DEF k
    <3> QED
      BY ONLY <3>1
  <2>12. k <= Len(d) /\ h[i] = msgQueue[n + m + i - 1]
    BY <2>3, <2>7, <2>8, <2>10, <2>11
  <2> QED
    BY <2>12 DEF n, k, h, d, m
<1> QED
  BY <1>1, SystemInvariance, PTL

=============================================================================
