-------------------------- MODULE ChatSystemProofs --------------------------
(***************************************************************************)
(* Theorems about ChatSystem, for any number of clients, requests and      *)
(* messages.                                                               *)
(*                                                                         *)
(* A step of the system is a step of the server or leaves it alone, so the *)
(* invariants of ChatServer hold here, too.  What is added is, for every   *)
(* client, what its variables and the session at the other end know about  *)
(* each other: a success that is on its way was decided by the server, and *)
(* what a client has handled and missed is what it has received.           *)
(***************************************************************************)
EXTENDS ChatSystem, ChatWireProofs

USE DEF controlVars, tlsVars, clientVars, historyVars

-----------------------------------------------------------------------------
(* The server in the system *)

LEMMA SystemStep == [SysNext]_sysVars => [Next]_vars
<1> SUFFICES ASSUME [SysNext]_sysVars PROVE [Next]_vars
  OBVIOUS
<1>1. CASE UNCHANGED sysVars
  BY <1>1 DEF sysVars
<1>2. ASSUME NEW s \in Sessions, Server(s) PROVE Next
  BY <1>2 DEF Server, Next
<1>3. ASSUME NEW s \in Sessions, Network(s) PROVE Next
  BY <1>3 DEF Network, Next, Client
<1>4. ASSUME NEW s \in Sessions, Request(s) PROVE Next
  BY <1>4 DEF Request, Next, Client
<1>5. ASSUME NEW s \in Sessions, Receive(s) PROVE Next
  BY <1>5 DEF Receive, Next, Client
<1>6. ASSUME NEW s \in Sessions, Connected(s) \/ Failure(s) \/ Reader(s) \/ User(s)
      PROVE  UNCHANGED vars
  BY <1>6 DEF Connected, Failure, Reader, User
<1> QED
  BY <1>1, <1>2, <1>3, <1>4, <1>5, <1>6 DEF SysNext

-----------------------------------------------------------------------------
(* One client and its session *)

(* A success on its way to a client was decided by its session.            *)
Honest(a, f) == \A i \in 1..Len(f) :
  f[i].kind = "answer" /\ f[i].type \in SuccessAnswers => a \in SuccessAnswers

(* What the client believes.  The second part is the con_state_ that       *)
(* nobody has initialised: such a client never connects.                   *)
Believes(s) ==
  /\ call[s] = C!ConnectCall => con[s] = "NotConnected"
  /\ con[s] = "LoggedIn" /\ result[s] # "true" => pc[s] \in {"idle", "accept"}
  /\ result[s] = "true" => answer[s] \in SuccessAnswers

(* Who waits for an answer has heard nothing yet and nobody reads for it.  *)
Waiting(s) ==
  /\ call[s] \in AuthRequest => result[s] # "true" /\ reader[s] \in {"none", "threw"}
  /\ reader[s] = "reading" /\ result[s] # "true" => con[s] = "LoggedIn"
  /\ handled[s] # <<>> => result[s] = "true"

(* HandlersSeeTheRoom for one client, and where it is.                     *)
Heard(s) ==
  /\ IsWindow(log, joinedAt[s] + missed[s], handled[s], <<>>)
  /\ pc[s] \in {"idle", "accept"} => missed[s] = 0 /\ handled[s] = <<>>
  /\ s \in room /\ link[s]
       => joinedAt[s] + missed[s] + Len(handled[s]) = Received(s)

ClientInv(s) ==
  /\ Honest(answer[s], wire[s]) /\ Honest(answer[s], engine[s])
  /\ Believes(s) /\ Waiting(s) /\ Heard(s)

SysInv == WireInv /\ C!TypeOK /\ \A s \in Sessions : ClientInv(s)

-----------------------------------------------------------------------------
(* Steps of the server *)

LEMMA HonestPush ==
  ASSUME NEW a, NEW b, a \in SuccessAnswers => b \in SuccessAnswers,
         NEW f \in Seq(Frame), Honest(a, f), NEW x \in Frame,
         x.kind = "answer" /\ x.type \in SuccessAnswers => b \in SuccessAnswers
  PROVE  Honest(b, Append(f, x))
<1> DEFINE g == Append(f, x)
<1>1. /\ Len(g) = Len(f) + 1 /\ Len(f) \in Nat
      /\ \A i \in 1..Len(f) : g[i] = f[i]
      /\ g[Len(f) + 1] = x
  BY PushSeq
<1> HIDE DEF g
<1> SUFFICES ASSUME NEW i \in 1..Len(g), g[i].kind = "answer", g[i].type \in SuccessAnswers
             PROVE  b \in SuccessAnswers
  BY DEF Honest, g
<1>2. i \in 1..Len(f) \/ i = Len(f) + 1
  BY <1>1
<1> QED
  BY <1>1, <1>2 DEF Honest

LEMMA HonestPop ==
  ASSUME NEW a, NEW f \in Seq(Frame), f # <<>>, Honest(a, f)
  PROVE  /\ Honest(a, Tail(f)) /\ Head(f) \in Frame /\ Tail(f) \in Seq(Frame)
         /\ Head(f).kind = "answer" /\ Head(f).type \in SuccessAnswers
              => a \in SuccessAnswers
<1>1. /\ Len(Tail(f)) = Len(f) - 1 /\ Len(f) \in Nat \ {0}
      /\ Head(f) \in Frame /\ Tail(f) \in Seq(Frame) /\ Head(f) = f[1]
      /\ \A i \in 1..Len(Tail(f)) : Tail(f)[i] = f[i + 1]
  BY PopSeq
<1>2. Honest(a, Tail(f))
  <2> SUFFICES ASSUME NEW i \in 1..Len(Tail(f)),
                      f[i + 1].kind = "answer", f[i + 1].type \in SuccessAnswers
               PROVE  a \in SuccessAnswers
    BY <1>1 DEF Honest
  <2>1. i + 1 \in 1..Len(f)
    BY <1>1
  <2> QED
    BY <2>1 DEF Honest
<1>3. 1 \in 1..Len(f)
  BY <1>1
<1> QED
  BY <1>1, <1>2, <1>3 DEF Honest

(* A success is decided once: the session never authenticates again.       *)
LEMMA AnswerStable ==
  ASSUME IInv, NEW s \in Sessions,
         Setup(s) \/ Dispatch(s) \/ Writer(s) \/ Transmit(s) \/ Client(s),
         NEW t \in Sessions, answer[t] \in SuccessAnswers
  PROVE  answer'[t] = answer[t]
<1>1. CASE HandleLogin(s) \/ HandleRegister(s) \/ HandleFormatFailure(s)
  <2>1. pc[s] = "readAuth" /\ \E type \in Answers : WriteAnswer(s, type)
    BY <1>1, AuthStep
  <2>2. t # s
    BY <2>1 DEF IInv, Authenticated
  <2>3. answer \in [Sessions -> Answers \cup {"none"}]
    BY DEF IInv, TypeOK
  <2> QED
    BY <2>1, <2>2, <2>3 DEF WriteAnswer
<1>2. CASE answer' = answer
  BY <1>2
<1> QED
  BY <1>1, <1>2
     DEF Setup, HandleAccept, HandleAcceptError, HandshakeDone, ControlError,
         Dispatch, AnswerDone, AnswerError, HandleChatMessage, SkipChatMessage,
         UncaughtException, Writer, QueueWriteDone, QueueWriteError, Transmit,
         Client, ClientSend, ClientReceive, Disconnect

(* What a step does to the frames of a session: nothing, drop those that   *)
(* are not sent, write one, send one or receive one.                       *)
LEMMA FrameStep ==
  ASSUME IInv, NEW s \in Sessions,
         Setup(s) \/ Dispatch(s) \/ Writer(s) \/ Transmit(s) \/ Client(s),
         NEW t \in Sessions
  PROVE  \/ wire'[t] = wire[t] /\ engine'[t] \in {engine[t], <<>>}
         \/ /\ wire'[t] = wire[t]
            /\ \E x \in Frame :
                 /\ engine'[t] = Append(engine[t], x)
                 /\ x.kind = "answer" /\ x.type \in SuccessAnswers
                      => answer'[t] \in SuccessAnswers
         \/ /\ engine[t] # <<>> /\ engine'[t] = Tail(engine[t])
            /\ wire'[t] = Append(wire[t], Head(engine[t]))
         \/ /\ wire[t] # <<>> /\ wire'[t] = Tail(wire[t])
            /\ engine'[t] = engine[t]
<1>1. CASE HandleLogin(s) \/ HandleRegister(s) \/ HandleFormatFailure(s)
  <2>1. wire' = wire
    BY <1>1, AuthStep
  <2>2. PICK type \in Answers : WriteAnswer(s, type)
    BY <1>1, AuthStep
  <2>3. AnswerFrame(type) \in Frame /\ AnswerFrame(type).type = type
    BY DEF AnswerFrame, Frame
  <2>4. answer \in [Sessions -> Answers \cup {"none"}]
    BY DEF IInv, TypeOK
  <2>5. CASE t = s
    <3>1. engine'[t] = Append(engine[t], AnswerFrame(type)) /\ answer'[t] = type
      BY <2>2, <2>4, <2>5, Arrays DEF WriteAnswer
    <3> QED
      BY <2>1, <2>3, <3>1
  <2>6. CASE t # s
    <3>1. engine'[t] = engine[t]
      BY <2>2, <2>6, Arrays DEF WriteAnswer
    <3> QED
      BY <2>1, <3>1
  <2> QED
    BY <2>5, <2>6
<1>2. CASE HandleChatMessage(s)
  <2> DEFINE m == [user |-> username[s], text |-> Head(inbox[s]).text]
  <2>1. m \in ChatMessage
    BY <1>2, MessageNamed
  <2>2. ChatFrame(m) \in Frame /\ ChatFrame(m).kind = "chat"
    BY <2>1 DEF ChatFrame, Frame
  <2>3. wire' = wire /\ DeliverScMessage(m)
    BY <1>2 DEF HandleChatMessage
  <2> HIDE DEF m
  <2>4. engine'[t] = engine[t] \/ engine'[t] = Append(engine[t], ChatFrame(m))
    BY <2>3 DEF DeliverScMessage
  <2> QED
    BY <2>2, <2>3, <2>4
<1>3. CASE HandshakeDone(s)
  <2>1. wire' = wire
    BY <1>3 DEF HandshakeDone
  <2>2. CASE t = s /\ queueOp[s] = "deferred"
    <3>1. queue[s] \in Seq(ChatMessage) /\ queue[s] # <<>>
      BY <2>2 DEF IInv, TypeOK, WriterHasWork
    <3>2. PICK f \in {ChatFrame(Head(queue[s])), Garbage} :
            engine' = [engine EXCEPT ![s] = Append(engine[s], f)]
      BY <1>3, <2>2 DEF HandshakeDone
    <3>3. Head(queue[s]) \in ChatMessage
      BY <3>1, PopSeq
    <3>4. f \in Frame /\ f.kind # "answer"
      BY <3>3 DEF ChatFrame, Garbage, Frame
    <3> QED
      BY <2>1, <2>2, <3>2, <3>4, Arrays
  <2>3. CASE ~(t = s /\ queueOp[s] = "deferred")
    <3>1. CASE queueOp[s] = "deferred"
      <4>1. engine'[t] = engine[t]
        BY <1>3, <2>3, <3>1, Arrays DEF HandshakeDone
      <4> QED
        BY <2>1, <4>1
    <3>2. CASE queueOp[s] # "deferred"
      <4>1. engine' = engine
        BY <1>3, <3>2 DEF HandshakeDone
      <4> QED
        BY <2>1, <4>1
    <3> QED
      BY <3>1, <3>2
  <2> QED
    BY <2>2, <2>3
<1>4. CASE QueueWriteDone(s)
  <2> DEFINE q == Tail(queue[s])
             f == ChatFrame(Head(q))
  <2>1. wire' = wire /\ WriteNext(s, q) /\ queueOp[s] # "none"
    BY <1>4 DEF QueueWriteDone, MayComplete
  <2>2. queue[s] \in Seq(ChatMessage) /\ queue[s] # <<>>
    BY <2>1 DEF IInv, TypeOK, WriterHasWork
  <2>3. q \in Seq(ChatMessage)
    BY <2>2, PopSeq
  <2>4. CASE q = <<>>
    <3>1. engine' = engine
      BY <2>1, <2>4 DEF WriteNext
    <3> QED
      BY <2>1, <3>1
  <2>5. CASE q # <<>>
    <3>1. Head(q) \in ChatMessage
      BY <2>3, <2>5, PopSeq
    <3>2. f \in Frame /\ f.kind # "answer"
      BY <3>1 DEF ChatFrame, Frame
    <3> HIDE DEF q
    <3>3. engine' = [engine EXCEPT ![s] = Append(engine[s], f)]
      BY <2>1, <2>5 DEF WriteNext
    <3> HIDE DEF f
    <3>4. engine'[t] = engine[t] \/ engine'[t] = Append(engine[t], f)
      BY <3>3, Arrays
    <3> QED
      BY <2>1, <3>2, <3>4
  <2> QED
    BY <2>4, <2>5
<1>5. CASE Transmit(s)
  <2>1. /\ wire' = [wire EXCEPT ![s] = Append(wire[s], Head(engine[s]))]
        /\ engine' = [engine EXCEPT ![s] = Tail(engine[s])]
        /\ flight[s] > 0
    BY <1>5 DEF Transmit
  <2>2. engine[s] \in Seq(Frame) /\ flight[s] \in Nat /\ flight[s] <= Len(engine[s])
    BY DEF IInv, TypeOK, FlightInEngine
  <2>3. engine[s] # <<>>
    BY <2>1, <2>2
  <2> QED
    BY <2>1, <2>3, Arrays
<1>6. CASE ClientReceive(s)
  BY <1>6, Arrays DEF ClientReceive
<1>7. CASE AnswerError(s) \/ QueueWriteError(s)
  BY <1>7, Arrays DEF AnswerError, QueueWriteError
<1>8. CASE wire' = wire /\ engine' = engine
  BY <1>8
<1> QED
  BY <1>1, <1>2, <1>3, <1>4, <1>5, <1>6, <1>7, <1>8
     DEF Setup, HandleAccept, HandleAcceptError, ControlError,
         Dispatch, AnswerDone, SkipChatMessage,
         UncaughtException, Writer, Client, ClientSend, Disconnect

LEMMA HonestStep ==
  ASSUME IInv, NEW s \in Sessions,
         Setup(s) \/ Dispatch(s) \/ Writer(s) \/ Transmit(s) \/ Client(s),
         NEW t \in Sessions, Honest(answer[t], wire[t]), Honest(answer[t], engine[t])
  PROVE  Honest(answer'[t], wire'[t]) /\ Honest(answer'[t], engine'[t])
<1> DEFINE a == answer[t]
           b == answer'[t]
           w == wire[t]
           e == engine[t]
<1>1. a \in SuccessAnswers => b \in SuccessAnswers
  BY AnswerStable
<1>2. w \in Seq(Frame) /\ e \in Seq(Frame)
  BY Arrays
<1>3. Honest(b, w) /\ Honest(b, e) /\ Honest(b, <<>>)
  BY <1>1 DEF Honest
<1> DEFINE w1 == wire'[t]
           e1 == engine'[t]
<1>4. \/ w1 = w /\ e1 \in {e, <<>>}
      \/ /\ w1 = w
         /\ \E x \in Frame :
              /\ e1 = Append(e, x)
              /\ x.kind = "answer" /\ x.type \in SuccessAnswers => b \in SuccessAnswers
      \/ e # <<>> /\ e1 = Tail(e) /\ w1 = Append(w, Head(e))
      \/ w # <<>> /\ w1 = Tail(w) /\ e1 = e
  BY FrameStep
<1> SUFFICES Honest(b, w1) /\ Honest(b, e1)
  OBVIOUS
<1> HIDE DEF a, b, w, e, w1, e1
<1>5. CASE w1 = w /\ e1 \in {e, <<>>}
  BY <1>3, <1>5
<1>6. CASE /\ w1 = w
           /\ \E x \in Frame :
                /\ e1 = Append(e, x)
                /\ x.kind = "answer" /\ x.type \in SuccessAnswers => b \in SuccessAnswers
  BY <1>2, <1>3, <1>6, HonestPush
<1>7. CASE e # <<>> /\ e1 = Tail(e) /\ w1 = Append(w, Head(e))
  <2>1. /\ Honest(b, Tail(e)) /\ Head(e) \in Frame
        /\ Head(e).kind = "answer" /\ Head(e).type \in SuccessAnswers => b \in SuccessAnswers
    BY <1>2, <1>3, <1>7, HonestPop
  <2> QED
    BY <1>2, <1>3, <1>7, <2>1, HonestPush
<1>8. CASE w # <<>> /\ w1 = Tail(w) /\ e1 = e
  BY <1>2, <1>3, <1>8, HonestPop
<1> QED
  BY <1>4, <1>5, <1>6, <1>7, <1>8

(* What else the client at the other end of t may notice.                  *)
LEMMA ActorFrame ==
  ASSUME IInv, NEW s \in Sessions,
         Setup(s) \/ Dispatch(s) \/ Writer(s) \/ Transmit(s) \/ Client(s),
         NEW t \in Sessions, t # s \/ ~(HandleAccept(s) \/ HandleAcceptError(s))
  PROVE  /\ joinedAt'[t] = joinedAt[t]
         /\ t \in room' /\ link'[t] => t \in room /\ link[t]
         /\ pc'[t] \in {"idle", "accept"} <=> pc[t] \in {"idle", "accept"}
<1>1. CASE HandleAccept(s) \/ HandleAcceptError(s)
  <2>1. [pc EXCEPT ![s] = "handshake"] \in [Sessions -> ControlStates]
    BY Arrays DEF ControlStates
  <2>2. [pc EXCEPT ![s] = "end"] \in [Sessions -> ControlStates]
    BY Arrays DEF ControlStates
  <2>3. pc'[t] = pc[t] \/ (pc[t] = "idle" /\ pc'[t] = "accept")
    <3>1. CASE HandleAccept(s)
      <4>1. StartAccept([pc EXCEPT ![s] = "handshake"])
        BY <3>1 DEF HandleAccept
      <4> QED
        BY <1>1, <2>1, <4>1, StartAcceptStep, Arrays
    <3>2. CASE HandleAcceptError(s)
      <4>1. StartAccept([pc EXCEPT ![s] = "end"])
        BY <3>2 DEF HandleAcceptError
      <4> QED
        BY <1>1, <2>2, <4>1, StartAcceptStep, Arrays
    <3> QED
      BY <1>1, <3>1, <3>2
  <2> QED
    BY <1>1, <2>3, Arrays DEF HandleAccept, HandleAcceptError
<1>2. CASE HandleLogin(s) \/ HandleRegister(s) \/ HandleFormatFailure(s)
  <2>1. pc[s] = "readAuth" /\ UNCHANGED <<room, link, joinedAt>>
    BY <1>2, AuthStep
  <2>2. \E type \in Answers : WriteAnswer(s, type)
    BY <1>2, AuthStep
  <2>3. pc'[t] = pc[t] \/ (t = s /\ pc'[t] = "answer")
    BY <2>2, Arrays DEF WriteAnswer
  <2> QED
    BY <2>1, <2>3
<1>3. CASE ControlError(s) \/ AnswerError(s) \/ QueueWriteError(s)
  BY <1>3, Arrays DEF ControlError, AnswerError, QueueWriteError, Drop
<1>4. CASE HandshakeDone(s)
  <2>1. /\ pc[s] = "handshake" /\ pc' = [pc EXCEPT ![s] = "readAuth"]
        /\ UNCHANGED <<room, link, joinedAt>>
    BY <1>4 DEF HandshakeDone
  <2> QED
    BY <2>1, Arrays
<1>5. CASE AnswerDone(s)
  <2>1. /\ pc[s] = "answer" /\ UNCHANGED <<room, link, joinedAt>>
        /\ \/ pc' = [pc EXCEPT ![s] = "readChat"]
           \/ pc' = [pc EXCEPT ![s] = "readAuth"]
    BY <1>5 DEF AnswerDone
  <2> QED
    BY <2>1, Arrays
<1>6. CASE UNCHANGED <<pc, room, link, joinedAt>>
  BY <1>6
<1>7. CASE Disconnect(s)
  BY <1>7, Arrays DEF Disconnect
<1> QED
  BY <1>1, <1>2, <1>3, <1>4, <1>5, <1>6, <1>7
     DEF Setup, Dispatch, HandleChatMessage, SkipChatMessage,
         UncaughtException, Writer, QueueWriteDone, Transmit,
         Client, ClientSend, ClientReceive

LEMMA LogStep ==
  ASSUME IInv, NEW s \in Sessions,
         Setup(s) \/ Dispatch(s) \/ Writer(s) \/ Transmit(s) \/ Client(s)
  PROVE  log' = log \/ \E m \in ChatMessage : log' = Append(log, m)
<1>1. CASE HandleChatMessage(s)
  <2> DEFINE m == [user |-> username[s], text |-> Head(inbox[s]).text]
  <2>1. m \in ChatMessage
    BY <1>1, MessageNamed
  <2>2. log' = Append(log, m)
    BY <1>1 DEF HandleChatMessage, DeliverScMessage
  <2> QED
    BY <2>1, <2>2
<1>2. CASE HandleLogin(s) \/ HandleRegister(s) \/ HandleFormatFailure(s)
  BY <1>2, AuthStep
<1>3. CASE log' = log
  BY <1>3
<1> QED
  BY <1>1, <1>2, <1>3
     DEF Setup, HandleAccept, HandleAcceptError, HandshakeDone, ControlError,
         Dispatch, AnswerDone, AnswerError, SkipChatMessage,
         UncaughtException, Writer, QueueWriteDone, QueueWriteError, Transmit,
         Client, ClientSend, ClientReceive, Disconnect

-----------------------------------------------------------------------------
(* Steps of the system *)

(* The program of client t does nothing. *)
ProgramRests(t) ==
  /\ con'[t] = con[t] /\ call'[t] = call[t] /\ result'[t] = result[t]
  /\ reader'[t] = reader[t] /\ handled'[t] = handled[t] /\ missed'[t] = missed[t]

(* The server, the network and other clients, for one client. *)
LEMMA ServerClient ==
  ASSUME WireInv, C!TypeOK, NEW s \in Sessions,
         Setup(s) \/ Dispatch(s) \/ Writer(s) \/ Transmit(s) \/ Client(s),
         NEW t \in Sessions, ClientInv(t), ProgramRests(t), Keeps(t),
         t = s /\ pc[s] \in {"idle", "accept"} => call[s] = C!ConnectCall
  PROVE  ClientInv(t)'
<1>1. IInv /\ Linked(t) /\ Unserved(t)
  BY DEF WireInv
<1>2. Honest(answer'[t], wire'[t]) /\ Honest(answer'[t], engine'[t])
  BY <1>1, HonestStep DEF ClientInv
<1>3. answer[t] \in SuccessAnswers => answer'[t] \in SuccessAnswers
  BY <1>1, AnswerStable
<1>4. Waiting(t)'
  BY DEF ClientInv, Waiting, ProgramRests
<1>5. /\ log \in Seq(ChatMessage) /\ joinedAt[t] \in Nat /\ Len(log) \in Nat
      /\ missed[t] \in Nat /\ handled[t] \in Seq(ChatMessage)
  BY <1>1 DEF IInv, TypeOK, C!TypeOK
<1>6. IsWindow(log', joinedAt[t] + missed[t], handled[t], <<>>)
  <2>1. IsWindow(log, joinedAt[t] + missed[t], handled[t], <<>>)
    BY DEF ClientInv, Heard
  <2>2. CASE log' = log
    BY <2>1, <2>2
  <2>3. ASSUME NEW m \in ChatMessage, log' = Append(log, m)
        PROVE  IsWindow(log', joinedAt[t] + missed[t], handled[t], <<>>)
    <3>1. <<>> \in Seq(ChatMessage) /\ joinedAt[t] + missed[t] \in Nat
      BY <1>5
    <3> QED
      BY <1>5, <2>1, <2>3, <3>1, WindowGrows
  <2> QED
    BY <1>1, <2>2, <2>3, LogStep
<1>7. CASE t # s \/ ~(HandleAccept(s) \/ HandleAcceptError(s))
  <2>1. /\ joinedAt'[t] = joinedAt[t]
        /\ t \in room' /\ link'[t] => t \in room /\ link[t]
        /\ pc'[t] \in {"idle", "accept"} <=> pc[t] \in {"idle", "accept"}
    BY <1>1, <1>7, ActorFrame
  <2>2. Believes(t)'
    BY <1>3, <2>1 DEF ClientInv, Believes, ProgramRests
  <2>3. Heard(t)'
    <3>1. t \in room' /\ link'[t] => Received(t)' = Received(t)
      BY <2>1 DEF Keeps
    <3> QED
      BY <1>6, <2>1, <3>1 DEF ClientInv, Heard, ProgramRests
  <2> QED
    BY <1>2, <1>4, <2>2, <2>3 DEF ClientInv
<1>8. CASE t = s /\ (HandleAccept(s) \/ HandleAcceptError(s))
  <2>1. pc[t] = "accept" /\ con[t] = "NotConnected"
    BY <1>8 DEF HandleAccept, HandleAcceptError, ClientInv, Believes
  <2>2. Believes(t)'
    BY <1>3, <2>1 DEF ClientInv, Believes, ProgramRests
  <2>3. missed[t] = 0 /\ handled[t] = <<>>
    BY <2>1 DEF ClientInv, Heard
  <2>4. UNCHANGED <<log, delivered, queueOp, wire, engine>>
    BY <1>8 DEF HandleAccept, HandleAcceptError
  <2>5. /\ delivered[t] = <<>> /\ wire[t] = <<>> /\ engine[t] = <<>>
        /\ queueOp[t] \in {"none", "deferred"}
    BY <1>1, <2>1 DEF Unserved
  <2>6. joinedAt'[t] \in 0..Len(log)
    <3>1. joinedAt[t] <= Len(log)
      BY <1>1, <1>5, WrittenIsPosted, <2>5 DEF Written
    <3>2. joinedAt'[t] = joinedAt[t] \/ joinedAt'[t] = Len(log)
      <4>1. CASE HandleAccept(s)
        BY <1>8, <4>1, Arrays DEF HandleAccept
      <4>2. CASE HandleAcceptError(s)
        BY <4>2 DEF HandleAcceptError
      <4> QED
        BY <1>8, <4>1, <4>2
    <3> QED
      BY <1>5, <3>1, <3>2
  <2>7. Received(t)' = joinedAt'[t]
    <3>1. Stream(t)' = <<>>
      BY <2>4, <2>5 DEF Stream
    <3>2. Written(t)' = joinedAt'[t]
      BY <2>4, <2>5, <2>6 DEF Written
    <3> QED
      BY <2>6, <3>1, <3>2, NoChats DEF Received
  <2>8. IsWindow(log, joinedAt'[t] + 0, <<>>, <<>>)
    BY <1>5, <2>6 DEF IsWindow
  <2>9. Heard(t)'
    BY <2>3, <2>4, <2>6, <2>7, <2>8 DEF Heard, ProgramRests
  <2> QED
    BY <1>2, <1>4, <2>2, <2>9 DEF ClientInv
<1> QED
  BY <1>7, <1>8

(* The connection and the session rest. *)
LEMMA ClientKept ==
  ASSUME NEW t \in Sessions, ClientInv(t),
         UNCHANGED <<room, pc, answer, queueOp, engine, link, log, joinedAt, delivered>>,
         wire'[t] = wire[t], handled'[t] = handled[t], missed'[t] = missed[t]
  PROVE  /\ Honest(answer[t], wire[t])' /\ Honest(answer[t], engine[t])'
         /\ Heard(t)'
<1>1. Written(t)' = Written(t) /\ Stream(t)' = Stream(t)
  BY DEF Written, Stream
<1>2. Received(t)' = Received(t)
  BY <1>1 DEF Received
<1> QED
  BY <1>2 DEF ClientInv, Heard

(* Programs and server speak the same protocol.                            *)
LEMMA SameProtocol ==
  C!AuthRequest = AuthRequest /\ C!ConnectionStates = ConnectionStates
BY DEF C!AuthRequest, AuthRequest, C!ConnectionStates, ConnectionStates

LEMMA CallsDiffer ==
  /\ C!ConnectCall # C!NoCall
  /\ C!ConnectCall \in C!Calls /\ C!NoCall \in C!Calls /\ AuthRequest \subseteq C!Calls
  /\ C!ConnectCall \notin AuthRequest /\ C!NoCall \notin AuthRequest
<1>1. C!ConnectCall.type = "CONNECT" /\ C!NoCall.type = "NONE"
  BY DEF C!ConnectCall, C!NoCall
<1>2. \A req \in AuthRequest : req.type \in {"LOGIN", "REGISTER"}
  BY DEF AuthRequest
<1>3. C!Calls = {C!NoCall, C!ConnectCall} \cup AuthRequest
  BY SameProtocol DEF C!Calls
<1> QED
  BY <1>1, <1>2, <1>3

LEMMA Programs ==
  ASSUME C!TypeOK
  PROVE  /\ con \in [Sessions -> ConnectionStates] /\ call \in [Sessions -> C!Calls]
         /\ result \in [Sessions -> C!Results] /\ reader \in [Sessions -> C!ReaderStates]
         /\ handled \in [Sessions -> Seq(ChatMessage)] /\ missed \in [Sessions -> Nat]
BY SameProtocol DEF C!TypeOK

(* What a program does between two messages. *)
LEMMA ProgramClient ==
  ASSUME WireInv, C!TypeOK, NEW s \in Sessions,
         Connected(s) \/ Request(s) \/ Failure(s) \/ Reader(s) \/ User(s),
         NEW t \in Sessions, ClientInv(t)
  PROVE  ClientInv(t)'
<1>1. UNCHANGED <<room, pc, answer, queueOp, engine, wire, link, log, joinedAt,
                  delivered>>
  BY DEF Connected, Request, ClientSend, Failure, Reader, User, vars
<1>2. UNCHANGED <<handled, missed>>
  BY DEF Connected, Request, Failure, Reader, User, C!ConnectDone, C!ConnectFails,
         C!Auth, C!WriteMessage, C!AuthThrows, C!StartRead, C!ReadThrows, C!Connect,
         C!SpawnReader, C!StopRead, C!vars
<1>3. /\ Honest(answer[t], wire[t])' /\ Honest(answer[t], engine[t])' /\ Heard(t)'
  BY <1>1, <1>2, ClientKept
<1> SUFFICES Believes(t)' /\ Waiting(t)'
  BY <1>3 DEF ClientInv
<1>5. Believes(t) /\ Waiting(t)
  BY DEF ClientInv
<1>6. CASE UNCHANGED <<con, call, result, reader>>
  BY <1>1, <1>2, <1>5, <1>6 DEF Believes, Waiting
<1>7. CASE C!ConnectDone(s) \/ C!ConnectFails(s)
  <2>1. /\ call[s] = C!ConnectCall /\ call' = [call EXCEPT ![s] = C!NoCall]
        /\ con' \in {con, [con EXCEPT ![s] = "Connected"]}
        /\ UNCHANGED <<result, reader>>
    BY <1>7 DEF C!ConnectDone, C!ConnectFails, C!Return
  <2> QED
    BY <1>1, <1>2, <1>5, <2>1, Programs, CallsDiffer DEF Believes, Waiting
<1>9. ASSUME NEW req \in AuthRequest, C!Auth(s, req) PROVE Believes(t)' /\ Waiting(t)'
  <2>1. /\ call' = [call EXCEPT ![s] = req]
        /\ reader[s] \in {"none", "threw"} /\ result[s] # "true"
        /\ UNCHANGED <<con, result, reader>>
    BY <1>9 DEF C!Auth
  <2> QED
    BY <1>1, <1>2, <1>5, <1>9, <2>1, Programs, CallsDiffer DEF Believes, Waiting
<1>10. CASE C!AuthThrows(s)
  <2>1. /\ call[s] \in AuthRequest /\ call' = [call EXCEPT ![s] = C!NoCall]
        /\ con' = [con EXCEPT ![s] = "NotConnected"]
        /\ result' = [result EXCEPT ![s] = "threw"]
        /\ UNCHANGED reader
    BY <1>10, SameProtocol DEF C!AuthThrows, C!Return
  <2> QED
    BY <1>1, <1>2, <1>5, <2>1, Programs, CallsDiffer DEF Believes, Waiting
<1>11. CASE C!StartRead(s)
  <2>1. /\ \/ con[s] = "LoggedIn" /\ reader' = [reader EXCEPT ![s] = "reading"]
           \/ reader' = [reader EXCEPT ![s] = "threw"]
        /\ reader[s] = "starting"
        /\ UNCHANGED <<con, call, result>>
    BY <1>11 DEF C!StartRead, C!IsLoggedIn
  <2> QED
    BY <1>1, <1>2, <1>5, <2>1, Programs DEF Believes, Waiting
<1>12. CASE C!ReadThrows(s)
  <2>1. reader' = [reader EXCEPT ![s] = "threw"] /\ UNCHANGED <<con, call, result>>
    BY <1>12 DEF C!ReadThrows
  <2> QED
    BY <1>1, <1>2, <1>5, <2>1, Programs DEF Believes, Waiting
<1>13. CASE C!Connect(s)
  <2>1. /\ con[s] = "NotConnected"
        /\ call' = [call EXCEPT ![s] = C!ConnectCall]
        /\ UNCHANGED <<con, result, reader>>
    BY <1>13 DEF C!Connect, C!IsConnected
  <2> QED
    BY <1>1, <1>2, <1>5, <2>1, Programs, CallsDiffer DEF Believes, Waiting
<1>14. CASE C!SpawnReader(s)
  <2>1. /\ call[s] = C!NoCall /\ reader' = [reader EXCEPT ![s] = "starting"]
        /\ UNCHANGED <<con, call, result>>
    BY <1>14 DEF C!SpawnReader, C!Idle
  <2> QED
    BY <1>1, <1>2, <1>5, <2>1, Programs, CallsDiffer DEF Believes, Waiting
<1>15. CASE C!WriteMessage(s) \/ C!StopRead(s)
  BY <1>6, <1>15 DEF C!WriteMessage, C!StopRead, C!vars
<1> QED
  BY <1>7, <1>9, <1>10, <1>11, <1>12, <1>13, <1>14, <1>15
     DEF Connected, Request, Failure, Reader, User

-----------------------------------------------------------------------------
(* A client receives a message *)

LEMMA ReceivedFrame ==
  ASSUME WireInv, NEW s \in Sessions, Receive(s), ClientInv(s)
  PROVE  LET f == Head(wire[s])
         IN  /\ f \in Frame
             /\ s \in room /\ link[s] /\ pc[s] \notin {"idle", "accept"}
             /\ Honest(answer[s], wire[s])' /\ Honest(answer[s], engine[s])'
             /\ f.kind = "answer" /\ f.type \in SuccessAnswers
                  => answer[s] \in SuccessAnswers
             /\ f.kind = "answer" => Received(s)' = Received(s)
             /\ f.kind # "answer" =>
                  /\ Received(s)' = Received(s) + 1
                  /\ Received(s) \in Nat /\ Received(s) + 1 <= Len(log)
                  /\ IsMessage(log, joinedAt[s], f, Received(s) + 1)
             /\ UNCHANGED <<room, pc, answer, link, log, joinedAt>>
<1> DEFINE f == Head(wire[s])
<1>1. IInv /\ Linked(s) /\ Unserved(s) /\ InOrder(s) /\ ClientReceive(s)
  BY DEF WireInv, Receive
<1>2. /\ link[s] /\ wire[s] # <<>> /\ wire'[s] = Tail(wire[s])
      /\ UNCHANGED <<room, pc, answer, engine, link, log, joinedAt>>
  BY <1>1, Arrays DEF ClientReceive
<1>3. s \in room /\ pc[s] \notin {"idle", "accept"}
  BY <1>1, <1>2 DEF Linked, Unserved
<1>4. wire[s] \in Seq(Frame) /\ Honest(answer[s], wire[s]) /\ Honest(answer[s], engine[s])
  BY <1>1, Arrays DEF ClientInv
<1>5. /\ Honest(answer[s], Tail(wire[s])) /\ f \in Frame
      /\ f.kind = "answer" /\ f.type \in SuccessAnswers => answer[s] \in SuccessAnswers
  BY <1>2, <1>4, HonestPop
<1>6. Honest(answer[s], wire[s])' /\ Honest(answer[s], engine[s])'
  BY <1>2, <1>4, <1>5
<1>7. /\ f.kind = "answer" => Received(s)' = Received(s)
      /\ f.kind # "answer" =>
           /\ Received(s)' = Received(s) + 1
           /\ Received(s) \in Nat /\ Received(s) + 1 <= Len(log)
           /\ IsMessage(log, joinedAt[s], f, Received(s) + 1)
  BY <1>1, <1>3, NextReceived
<1> QED
  BY <1>2, <1>3, <1>5, <1>6, <1>7

(* ... that Auth takes for the answer ... *)
LEMMA AnswerClient ==
  ASSUME WireInv, C!TypeOK, NEW s \in Sessions, Receive(s), ClientInv(s),
         C!AuthReturns(s, Head(wire[s]))
  PROVE  ClientInv(s)'
<1> DEFINE f == Head(wire[s])
           ok == C!SaysSuccess(call[s], f)
<1>1. /\ f \in Frame
      /\ s \in room /\ link[s] /\ pc[s] \notin {"idle", "accept"}
      /\ Honest(answer[s], wire[s])' /\ Honest(answer[s], engine[s])'
      /\ f.kind = "answer" /\ f.type \in SuccessAnswers => answer[s] \in SuccessAnswers
      /\ f.kind = "answer" => Received(s)' = Received(s)
      /\ f.kind # "answer" =>
           Received(s)' = Received(s) + 1 /\ Received(s) + 1 <= Len(log)
      /\ UNCHANGED <<room, pc, answer, link, log, joinedAt>>
  BY ReceivedFrame
<1>2. /\ call[s] \in AuthRequest /\ call' = [call EXCEPT ![s] = C!NoCall]
      /\ result' = [result EXCEPT ![s] = IF ok THEN "true" ELSE "false"]
      /\ con' = IF ok THEN [con EXCEPT ![s] = "LoggedIn"] ELSE con
      /\ missed' = IF f.kind = "answer" THEN missed
                   ELSE [missed EXCEPT ![s] = missed[s] + 1]
      /\ UNCHANGED <<reader, handled>>
  BY SameProtocol DEF C!AuthReturns, C!Return
<1>3. ok => answer[s] \in SuccessAnswers
  BY <1>1 DEF C!SaysSuccess, C!SuccessOf, SuccessAnswers
<1> HIDE DEF f, ok
<1>4. Believes(s) /\ Waiting(s) /\ Heard(s)
  BY DEF ClientInv
<1>5. result[s] # "true" /\ reader[s] \in {"none", "threw"} /\ handled[s] = <<>>
  BY <1>2, <1>4 DEF Waiting
<1>6. con[s] # "LoggedIn"
  BY <1>1, <1>4, <1>5 DEF Believes
<1>7. /\ call'[s] = C!NoCall /\ result'[s] = (IF ok THEN "true" ELSE "false")
      /\ con'[s] = (IF ok THEN "LoggedIn" ELSE con[s])
      /\ missed'[s] = missed[s] + (IF f.kind = "answer" THEN 0 ELSE 1)
      /\ reader'[s] = reader[s] /\ handled'[s] = <<>>
      /\ missed[s] \in Nat
  BY <1>2, <1>5, Programs
<1>8. Believes(s)'
  BY <1>1, <1>3, <1>6, <1>7, CallsDiffer DEF Believes
<1>9. Waiting(s)'
  BY <1>5, <1>7, CallsDiffer DEF Waiting
<1>10. Heard(s)'
  <2>1. joinedAt[s] \in Nat /\ Len(log) \in Nat
    BY DEF WireInv, IInv, TypeOK
  <2>2. joinedAt[s] + missed[s] = Received(s) /\ joinedAt[s] + missed[s] <= Len(log)
    BY <1>1, <1>4, <1>5, <1>7, <2>1 DEF Heard, IsWindow
  <2>3. /\ joinedAt[s] + missed'[s] = Received(s)'
        /\ joinedAt[s] + missed'[s] <= Len(log)
    <3>1. CASE f.kind = "answer"
      BY <1>1, <1>7, <2>1, <2>2, <3>1
    <3>2. CASE f.kind # "answer"
      <4>1. Received(s)' = Received(s) + 1 /\ Received(s) + 1 <= Len(log)
        BY <1>1, <3>2
      <4>2. joinedAt[s] + missed'[s] = (joinedAt[s] + missed[s]) + 1
        BY <1>7, <2>1, <3>2
      <4> QED
        BY <2>2, <4>1, <4>2
    <3> QED
      BY <3>1, <3>2
  <2>4. joinedAt[s] + missed'[s] \in Nat
    BY <1>7, <2>1
  <2>5. IsWindow(log, joinedAt[s] + missed'[s], <<>>, <<>>)
    BY <2>1, <2>3, <2>4 DEF IsWindow
  <2> QED
    BY <1>1, <1>7, <2>3, <2>4, <2>5 DEF Heard
<1> QED
  BY <1>1, <1>8, <1>9, <1>10 DEF ClientInv

(* ... or that the reader thread reads. *)
LEMMA ReadClient ==
  ASSUME WireInv, C!TypeOK, NEW s \in Sessions, Receive(s), ClientInv(s),
         C!Read(s, Head(wire[s]))
  PROVE  ClientInv(s)'
<1> DEFINE f == Head(wire[s])
<1>1. /\ f \in Frame
      /\ s \in room /\ link[s] /\ pc[s] \notin {"idle", "accept"}
      /\ Honest(answer[s], wire[s])' /\ Honest(answer[s], engine[s])'
      /\ f.kind = "answer" => Received(s)' = Received(s)
      /\ f.kind # "answer" =>
           /\ Received(s)' = Received(s) + 1
           /\ Received(s) \in Nat /\ Received(s) + 1 <= Len(log)
           /\ IsMessage(log, joinedAt[s], f, Received(s) + 1)
      /\ UNCHANGED <<room, pc, answer, link, log, joinedAt>>
  BY ReceivedFrame
<1>2. /\ reader[s] = "reading"
      /\ IF f.kind = "chat" THEN handled' = [handled EXCEPT ![s] = Append(handled[s], f.msg)]
                            ELSE handled' = handled
      /\ missed' = IF f.kind = "garbage" THEN [missed EXCEPT ![s] = missed[s] + 1] ELSE missed
      /\ reader' \in {reader, [reader EXCEPT ![s] = "none"]}
      /\ UNCHANGED <<con, call, result>>
  BY DEF C!Read, C!Handle
<1> HIDE DEF f
<1>3. Believes(s) /\ Waiting(s) /\ Heard(s)
  BY DEF ClientInv
<1>4. result[s] = "true"
  BY <1>1, <1>2, <1>3 DEF Believes, Waiting
<1>5. Believes(s)'
  BY <1>1, <1>2, <1>3 DEF Believes
<1>6. Waiting(s)'
  BY <1>2, <1>3, <1>4 DEF Waiting
<1>7. /\ log \in Seq(ChatMessage) /\ joinedAt[s] \in Nat /\ Len(log) \in Nat
      /\ handled[s] \in Seq(ChatMessage) /\ missed[s] \in Nat /\ Len(handled[s]) \in Nat
  BY Programs DEF WireInv, IInv, TypeOK
<1> DEFINE k == joinedAt[s] + missed[s]
           d == Len(handled[s])
           n == Len(log)
           r == Received(s)
<1>8. k + d = r /\ IsWindow(log, k, handled[s], <<>>)
  BY <1>1, <1>3 DEF Heard
<1>12. k \in Nat /\ d \in Nat /\ n \in Nat
  BY <1>7
<1>13. f.kind # "answer" =>
         Received(s)' = r + 1 /\ r + 1 <= n /\ IsMessage(log, joinedAt[s], f, r + 1)
  BY <1>1
<1>9. CASE f.kind = "answer"
  <2>1. handled' = handled /\ missed' = missed
    BY <1>2, <1>9
  <2>2. Heard(s)'
    BY <1>1, <1>8, <1>9, <2>1 DEF Heard
  <2> QED
    BY <1>1, <1>5, <1>6, <2>2 DEF ClientInv
<1>10. CASE f.kind = "chat"
  <2> DEFINE h == handled[s]
             g == Append(h, f.msg)
  <2>1. /\ f.msg \in ChatMessage
    BY <1>1, <1>10 DEF Frame
  <2>2. handled'[s] = g /\ missed' = missed
    BY <1>2, <1>10, Programs
  <2>3. f.msg = log[r + 1] /\ r + 1 <= n /\ Received(s)' = r + 1
    BY <1>10, <1>13 DEF IsMessage, ChatFrame, Garbage
  <2>4. /\ Len(g) = d + 1 /\ g[d + 1] = f.msg
        /\ \A i \in 1..d : g[i] = h[i]
    BY <1>7, <2>1, PushSeq
  <2>5. \A i \in 1..d : h[i] = log[k + i]
    BY <1>8 DEF IsWindow
  <2> HIDE DEF g, h, k, d, n, r
  <2>6. k + Len(g) = r + 1
    BY <1>8, <1>12, <2>4
  <2>7. \A i \in 1..Len(g) : g[i] = log[k + i]
    <3> SUFFICES ASSUME NEW i \in 1..d + 1 PROVE g[i] = log[k + i]
      BY <2>4
    <3>1. i \in 1..d \/ i = d + 1
      BY <1>12
    <3>2. CASE i \in 1..d
      BY <2>4, <2>5, <3>2
    <3>3. CASE i = d + 1
      <4>1. k + i = r + 1
        BY <1>8, <1>12, <3>3
      <4> QED
        BY <2>3, <2>4, <3>3, <4>1
    <3> QED
      BY <3>1, <3>2, <3>3
  <2>8. k + Len(g) + Len(<<>>) <= n
    BY <1>12, <2>3, <2>4, <2>6
  <2>9. IsWindow(log, k, g, <<>>)
    BY <2>7, <2>8 DEF IsWindow, n
  <2>10. Heard(s)'
    BY <1>1, <2>2, <2>3, <2>6, <2>9 DEF Heard, k
  <2> QED
    BY <1>1, <1>5, <1>6, <2>10 DEF ClientInv
<1>11. CASE f.kind = "garbage"
  <2>1. r + 1 = joinedAt[s] + 1 /\ r + 1 <= n /\ Received(s)' = r + 1
    BY <1>11, <1>13 DEF IsMessage, ChatFrame, Garbage
  <2>2. joinedAt[s] + missed[s] + d = r /\ r \in Nat
    BY <1>8, <1>12
  <2> DEFINE j == joinedAt[s]
             m == missed[s]
  <2>8. j + m + d = r /\ r + 1 = j + 1 /\ j \in Nat /\ m \in Nat
    BY <1>7, <2>1, <2>2
  <2> HIDE DEF r, d, n, j, m
  <2>9. m = 0 /\ d = 0
    BY <1>12, <2>2, <2>8
  <2>3. missed[s] = 0 /\ d = 0
    BY <2>9 DEF m
  <2>4. handled'[s] = <<>> /\ missed'[s] = 1
    BY <1>2, <1>7, <1>11, <2>3, Programs DEF d
  <2>5. joinedAt[s] + 1 = Received(s)' /\ joinedAt[s] + 1 <= n
    BY <2>1
  <2>6. IsWindow(log, joinedAt[s] + 1, <<>>, <<>>)
    BY <1>7, <2>5 DEF IsWindow, n
  <2>7. Heard(s)'
    BY <1>1, <1>7, <2>4, <2>5, <2>6 DEF Heard
  <2> QED
    BY <1>1, <1>5, <1>6, <2>7 DEF ClientInv
<1> QED
  BY <1>1, <1>9, <1>10, <1>11 DEF Frame

-----------------------------------------------------------------------------
(* The programs *)

LEMMA ProgramTypes ==
  ASSUME IInv, C!TypeOK, [SysNext]_sysVars
  PROVE  C!TypeOK'
<1> DEFINE Typed ==
      /\ con \in [Sessions -> ConnectionStates] /\ isRead \in [Sessions -> BOOLEAN]
      /\ name \in [Sessions -> Users \cup {NoUser}] /\ call \in [Sessions -> C!Calls]
      /\ result \in [Sessions -> C!Results] /\ reader \in [Sessions -> C!ReaderStates]
      /\ handled \in [Sessions -> Seq(ChatMessage)] /\ missed \in [Sessions -> Nat]
<1>1. Typed
  BY SameProtocol DEF C!TypeOK
<1> SUFFICES Typed'
  BY SameProtocol DEF C!TypeOK
<1> USE DEF C!Results, C!ReaderStates, ConnectionStates
<1>2. CASE UNCHANGED programVars
  BY <1>1, <1>2 DEF programVars
<1>3. ASSUME NEW s \in Sessions, C!ConnectDone(s) \/ C!ConnectFails(s) PROVE Typed'
  BY <1>1, <1>3, CallsDiffer DEF C!ConnectDone, C!ConnectFails, C!Return
<1>4. ASSUME NEW s \in Sessions, NEW req \in AuthRequest, C!Auth(s, req) PROVE Typed'
  BY <1>1, <1>4, CallsDiffer DEF C!Auth
<1>5. ASSUME NEW s \in Sessions, C!AuthThrows(s) PROVE Typed'
  BY <1>1, <1>5, CallsDiffer DEF C!AuthThrows, C!Return
<1>6. ASSUME NEW s \in Sessions, C!StartRead(s) \/ C!ReadThrows(s) PROVE Typed'
  BY <1>1, <1>6 DEF C!StartRead, C!ReadThrows
<1>7. ASSUME NEW s \in Sessions, C!Connect(s) \/ C!SpawnReader(s) \/ C!StopRead(s)
      PROVE  Typed'
  BY <1>1, <1>7, CallsDiffer DEF C!Connect, C!SpawnReader, C!StopRead
<1>8. ASSUME NEW s \in Sessions, C!WriteMessage(s) PROVE Typed'
  BY <1>1, <1>8 DEF C!WriteMessage, C!vars
<1>9. ASSUME NEW s \in Sessions, Receive(s) PROVE Typed'
  <2> DEFINE f == Head(wire[s])
  <2>1. f \in Frame
    <3>1. wire[s] \in Seq(Frame) /\ wire[s] # <<>>
      BY <1>9, Arrays DEF Receive, ClientReceive
    <3> QED
      BY <3>1, PopSeq
  <2> HIDE DEF f
  <2>2. CASE C!AuthReturns(s, f)
    <3>1. call[s].user \in Users
      BY <2>2, SameProtocol DEF C!AuthReturns, AuthRequest
    <3>2. /\ call' = [call EXCEPT ![s] = C!NoCall]
          /\ \/ result' = [result EXCEPT ![s] = "true"]
             \/ result' = [result EXCEPT ![s] = "false"]
          /\ con' = con \/ con' = [con EXCEPT ![s] = "LoggedIn"]
          /\ name' = name \/ name' = [name EXCEPT ![s] = call[s].user]
          /\ missed' = missed \/ missed' = [missed EXCEPT ![s] = missed[s] + 1]
          /\ UNCHANGED <<isRead, reader, handled>>
      BY <2>2 DEF C!AuthReturns, C!Return
    <3>3. missed[s] + 1 \in Nat
      BY <1>1
    <3>4. con' \in [Sessions -> ConnectionStates] /\ result' \in [Sessions -> C!Results]
      BY <1>1, <3>2
    <3>5. call' \in [Sessions -> C!Calls]
      BY <1>1, <3>2, CallsDiffer
    <3>6. missed' \in [Sessions -> Nat]
      BY <1>1, <3>2, <3>3
    <3>7. name' \in [Sessions -> Users \cup {NoUser}]
      BY <1>1, <3>1, <3>2
    <3> QED
      BY <1>1, <3>2, <3>4, <3>5, <3>6, <3>7
  <2>3. CASE C!Read(s, f)
    <3>1. f.kind = "chat" => f.msg \in ChatMessage
      BY <2>1 DEF Frame
    <3>2. f.kind = "chat" => Append(handled[s], f.msg) \in Seq(ChatMessage)
      BY <1>1, <3>1
    <3>3. /\ IF f.kind = "chat"
             THEN handled' = [handled EXCEPT ![s] = Append(handled[s], f.msg)]
             ELSE handled' = handled
          /\ missed' = missed \/ missed' = [missed EXCEPT ![s] = missed[s] + 1]
          /\ reader' = reader \/ reader' = [reader EXCEPT ![s] = "none"]
          /\ UNCHANGED <<con, isRead, name, call, result>>
      BY <2>3 DEF C!Read, C!Handle
    <3>4. missed[s] + 1 \in Nat
      BY <1>1
    <3>5. handled' \in [Sessions -> Seq(ChatMessage)]
      BY <1>1, <3>2, <3>3
    <3>6. missed' \in [Sessions -> Nat]
      BY <1>1, <3>3, <3>4
    <3>7. reader' \in [Sessions -> C!ReaderStates]
      BY <1>1, <3>3
    <3> QED
      BY <1>1, <3>3, <3>5, <3>6, <3>7
  <2> QED
    BY <1>9, <2>2, <2>3 DEF Receive, f
<1> HIDE DEF Typed
<1>10. CASE SysNext
  <2>1. PICK s \in Sessions :
          \/ Server(s) \/ Network(s)
          \/ Connected(s) \/ Request(s) \/ Failure(s) \/ Receive(s)
          \/ Reader(s) \/ User(s)
    BY <1>10 DEF SysNext
  <2> QED
    BY <1>2, <1>3, <1>4, <1>5, <1>6, <1>7, <1>8, <1>9, <2>1
       DEF Server, Network, Connected, Request, Failure, Reader, User
<1>11. CASE UNCHANGED sysVars
  BY <1>2, <1>11 DEF sysVars
<1> QED
  BY <1>10, <1>11

-----------------------------------------------------------------------------
(* The theorems *)

(* The connection of a session that was not accepted is not there yet. *)
LEMMA NetworkRuns ==
  ASSUME WireInv, NEW s \in Sessions, Transmit(s) \/ Disconnect(s)
  PROVE  pc[s] \notin {"idle", "accept"}
BY DEF WireInv, Linked, Transmit, Disconnect

LEMMA ServerRuns ==
  ASSUME WireInv, NEW s \in Sessions, Setup(s) \/ Dispatch(s) \/ Writer(s)
  PROVE  pc[s] # "idle"
<1>1. pc[s] = "idle" => queueOp[s] = "none"
  BY DEF WireInv, IInv, NotEntered, WriterHasWork
<1> QED
  BY <1>1
     DEF Setup, HandleAccept, HandleAcceptError, HandshakeDone, ControlError,
         Dispatch, HandleLogin, HandleRegister, HandleFormatFailure, AnswerDone,
         AnswerError, HandleChatMessage, SkipChatMessage, UncaughtException,
         Writer, QueueWriteDone, QueueWriteError, MayComplete

LEMMA OthersRest ==
  ASSUME C!TypeOK, NEW s \in Sessions, Receive(s), NEW t \in Sessions, t # s
  PROVE  ProgramRests(t)
<1> DEFINE f == Head(wire[s])
<1>1. CASE C!AuthReturns(s, f)
  <2>1. /\ call' = [call EXCEPT ![s] = C!NoCall]
        /\ \E r : result' = [result EXCEPT ![s] = r]
        /\ con' = con \/ con' = [con EXCEPT ![s] = "LoggedIn"]
        /\ missed' = missed \/ missed' = [missed EXCEPT ![s] = missed[s] + 1]
        /\ UNCHANGED <<reader, handled>>
    BY <1>1 DEF C!AuthReturns, C!Return
  <2> QED
    BY <2>1, Programs DEF ProgramRests
<1>2. CASE C!Read(s, f)
  <2>1. /\ handled' = handled \/ handled' = [handled EXCEPT ![s] = Append(handled[s], f.msg)]
        /\ missed' = missed \/ missed' = [missed EXCEPT ![s] = missed[s] + 1]
        /\ reader' = reader \/ reader' = [reader EXCEPT ![s] = "none"]
        /\ UNCHANGED <<con, call, result>>
    BY <1>2 DEF C!Read, C!Handle
  <2> HIDE DEF f
  <2> QED
    BY <2>1, Programs DEF ProgramRests
<1> QED
  BY <1>1, <1>2 DEF Receive

LEMMA InitSys == SysInit => SysInv
<1> SUFFICES ASSUME SysInit PROVE SysInv
  OBVIOUS
<1>1. WireInv /\ Init /\ C!Init
  BY InitWire DEF SysInit
<1>2. C!TypeOK
  BY <1>1, SystemAssumption, SameProtocol, CallsDiffer
     DEF C!Init, C!TypeOK, C!Results, C!ReaderStates
<1>3. ASSUME NEW s \in Sessions PROVE ClientInv(s)
  <2>1. /\ wire[s] = <<>> /\ engine[s] = <<>> /\ log = <<>> /\ joinedAt[s] = 0
        /\ pc[s] \in {"idle", "accept"} /\ room = {}
    BY <1>1 DEF Init
  <2>2. /\ call[s] = C!NoCall /\ result[s] = "none" /\ reader[s] = "none"
        /\ handled[s] = <<>> /\ missed[s] = 0
    BY <1>1 DEF C!Init
  <2>3. Honest(answer[s], wire[s]) /\ Honest(answer[s], engine[s])
    BY <2>1 DEF Honest
  <2>4. Believes(s) /\ Waiting(s)
    BY <2>1, <2>2, CallsDiffer DEF Believes, Waiting
  <2>5. Heard(s)
    BY <2>1, <2>2 DEF Heard, IsWindow
  <2> QED
    BY <2>3, <2>4, <2>5 DEF ClientInv
<1> QED
  BY <1>1, <1>2, <1>3 DEF SysInv

LEMMA SysStep == SysInv /\ [SysNext]_sysVars => SysInv'
<1> SUFFICES ASSUME SysInv, [SysNext]_sysVars PROVE SysInv'
  OBVIOUS
<1>1. WireInv /\ IInv /\ C!TypeOK /\ \A t \in Sessions : ClientInv(t)
  BY DEF SysInv, WireInv
<1>2. [Next]_vars
  BY SystemStep
<1>3. WireInv'
  BY <1>1, <1>2, WireStep
<1>4. C!TypeOK'
  BY <1>1, ProgramTypes
<1>5. ASSUME NEW t \in Sessions PROVE ClientInv(t)'
  <2>1. CASE UNCHANGED sysVars
    <3>1. Written(t)' = Written(t) /\ Stream(t)' = Stream(t)
      BY <2>1 DEF sysVars, vars, Written, Stream
    <3>2. Received(t)' = Received(t)
      BY <3>1 DEF Received
    <3> QED
      BY <1>1, <2>1, <3>2
         DEF sysVars, vars, programVars, ClientInv, Believes, Waiting, Heard
  <2>2. ASSUME NEW s \in Sessions, Server(s) \/ Network(s) PROVE ClientInv(t)'
    <3>1. /\ Setup(s) \/ Dispatch(s) \/ Writer(s) \/ Transmit(s) \/ Disconnect(s)
          /\ ProgramRests(t)
      BY <2>2 DEF Server, Network, programVars, ProgramRests
    <3>2. Setup(s) \/ Dispatch(s) \/ Writer(s) \/ Transmit(s) \/ Client(s)
      BY <3>1 DEF Client
    <3>3. Keeps(t)
      BY <1>1, <3>1, QuietStep DEF WireInv
    <3>4. pc[s] \in {"idle", "accept"} => call[s] = C!ConnectCall
      <4>1. CASE Server(s)
        BY <1>1, <4>1, ServerRuns DEF Server
      <4>2. CASE Network(s)
        BY <1>1, <4>2, NetworkRuns DEF Network
      <4> QED
        BY <2>2, <4>1, <4>2
    <3> QED
      BY <1>1, <3>1, <3>2, <3>3, <3>4, ServerClient
  <2>3. ASSUME NEW s \in Sessions, Receive(s) PROVE ClientInv(t)'
    <3>1. CASE t = s
      BY <1>1, <2>3, <3>1, AnswerClient, ReadClient DEF Receive
    <3>2. CASE t # s
      <4>1. ClientReceive(s) /\ Client(s)
        BY <2>3 DEF Receive, Client
      <4>2. Keeps(t)
        BY <1>1, <3>2, <4>1, ReceiveWire DEF WireInv
      <4>3. ProgramRests(t)
        BY <1>1, <2>3, <3>2, OthersRest
      <4> QED
        BY <1>1, <3>2, <4>1, <4>2, <4>3, ServerClient
    <3> QED
      BY <3>1, <3>2
  <2>4. ASSUME NEW s \in Sessions, 
               Connected(s) \/ Request(s) \/ Failure(s) \/ Reader(s) \/ User(s)
        PROVE ClientInv(t)'
    BY <1>1, <2>4, ProgramClient
  <2> QED
    BY <2>1, <2>2, <2>3, <2>4 DEF SysNext
<1> QED
  BY <1>3, <1>4, <1>5 DEF SysInv

THEOREM SystemInvariance == SysSpec => []SysInv
BY InitSys, SysStep, PTL DEF SysSpec

(* The server and the programs of the clients keep their types: a client   *)
(* handles messages of the room only, as the server wrote them.            *)
THEOREM SystemTypes == SysSpec => []SysTypeOK
<1>1. SysInv => SysTypeOK
  BY DEF SysInv, WireInv, IInv, SysTypeOK
<1> QED
  BY <1>1, SystemInvariance, PTL

(* A client that believes to be logged in is authenticated at the server,  *)
(* whatever it took for the answer to its request (ChatRw::Auth against    *)
(* Session::HandleAuthScMessage).                                          *)
THEOREM LoggedInClients == SysSpec => []ClientIsAuthenticated
<1>1. SysInv => ClientIsAuthenticated
  BY DEF SysInv, ClientInv, Believes, ClientIsAuthenticated, Established,
         C!IsLoggedIn
<1> QED
  BY <1>1, SystemInvariance, PTL

(* From end to end: the handler of a client is called with the messages of *)
(* the room in their order, without gap or repeat, from the first one its  *)
(* program did not miss (ChatRw::StartRead behind Session's two writers).  *)
THEOREM HandlersInOrder == SysSpec => []HandlersSeeTheRoom
<1>1. SysInv => HandlersSeeTheRoom
  BY DEF SysInv, ClientInv, Heard, HandlersSeeTheRoom
<1> QED
  BY <1>1, SystemInvariance, PTL

=============================================================================
