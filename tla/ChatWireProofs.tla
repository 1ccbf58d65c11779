--------------------------- MODULE ChatWireProofs ---------------------------
(***************************************************************************)
(* The order of messages on the wires of ChatServer, for any number of     *)
(* sessions, requests and messages: WireIsWindow is an invariant of Spec.  *)
(*                                                                         *)
(* A message on the wire is found in the log by counting the messages      *)
(* behind it, back from the last one that was written.  So the proof is    *)
(* about what the steps do to these counts: an answer changes none, a      *)
(* message that is written adds one to all, and one that is received was   *)
(* behind nobody.                                                          *)
(***************************************************************************)
EXTENDS ChatServerProofs, FiniteSetTheorems

-----------------------------------------------------------------------------
(* Streams *)

LEMMA ChatsAfterFinite ==
  ASSUME NEW f \in Seq(Frame), NEW i \in Nat
  PROVE  /\ IsFiniteSet(ChatsAfter(f, i))
         /\ Cardinality(ChatsAfter(f, i)) \in Nat
<1>1. IsFiniteSet(i + 1 .. Len(f))
  BY FS_Interval
<1>2. ChatsAfter(f, i) \subseteq i + 1 .. Len(f)
  BY DEF ChatsAfter
<1> QED
  BY <1>1, <1>2, FS_Subset, FS_CardinalityType

LEMMA ChatsAfterPush ==
  ASSUME NEW f \in Seq(Frame), NEW x \in Frame, NEW i \in 0..Len(f)
  PROVE  Cardinality(ChatsAfter(Append(f, x), i))
           = Cardinality(ChatsAfter(f, i)) + (IF x.kind = "answer" THEN 0 ELSE 1)
<1> DEFINE g == Append(f, x)
<1>1. /\ Len(g) = Len(f) + 1 /\ Len(f) \in Nat
      /\ \A j \in 1..Len(f) : g[j] = f[j]
      /\ g[Len(f) + 1] = x
  BY PushSeq
<1>2. /\ IsFiniteSet(ChatsAfter(f, i))
      /\ Cardinality(ChatsAfter(f, i)) \in Nat
  BY ChatsAfterFinite
<1> HIDE DEF g
<1>3. CASE x.kind = "answer"
  <2>1. ChatsAfter(g, i) = ChatsAfter(f, i)
    BY <1>1, <1>3 DEF ChatsAfter
  <2> QED
    BY <1>2, <1>3, <2>1 DEF g
<1>4. CASE x.kind # "answer"
  <2>1. ChatsAfter(g, i) = ChatsAfter(f, i) \cup {Len(f) + 1}
    BY <1>1, <1>4 DEF ChatsAfter
  <2>2. Len(f) + 1 \notin ChatsAfter(f, i)
    BY <1>1 DEF ChatsAfter
  <2>3. Cardinality(ChatsAfter(g, i)) = Cardinality(ChatsAfter(f, i)) + 1
    BY <1>2, <2>1, <2>2, FS_AddElement
  <2> QED
    BY <1>4, <2>3 DEF g
<1> QED
  BY <1>3, <1>4

(* An answer is behind messages, but none itself. *)
LEMMA AnswerWritten ==
  ASSUME NEW f \in Seq(Frame), NEW x \in Frame, x.kind = "answer",
         NEW l, NEW k \in Nat, NEW n \in Nat, StreamIsWindow(l, k, n, f)
  PROVE  StreamIsWindow(l, k, n, Append(f, x))
<1> DEFINE g == Append(f, x)
<1>1. /\ Len(g) = Len(f) + 1 /\ Len(f) \in Nat
      /\ \A i \in 1..Len(f) : g[i] = f[i]
      /\ g[Len(f) + 1] = x
  BY PushSeq
<1>2. \A i \in 1..Len(f) :
        Cardinality(ChatsAfter(g, i)) = Cardinality(ChatsAfter(f, i)) + 0
  BY ChatsAfterPush
<1>3. \A i \in 1..Len(f) : Cardinality(ChatsAfter(f, i)) \in Nat
  BY ChatsAfterFinite
<1> HIDE DEF g
<1> SUFFICES ASSUME NEW i \in 1..Len(g), g[i].kind # "answer"
             PROVE  IsMessage(l, k, g[i], n - Cardinality(ChatsAfter(g, i)))
  BY DEF StreamIsWindow, g
<1>4. i \in 1..Len(f)
  BY <1>1
<1>5. Cardinality(ChatsAfter(g, i)) = Cardinality(ChatsAfter(f, i))
  BY <1>2, <1>3, <1>4
<1> QED
  BY <1>1, <1>4, <1>5 DEF StreamIsWindow

(* The next message of the log is written. *)
LEMMA MessageWritten ==
  ASSUME NEW f \in Seq(Frame), NEW x \in Frame, x.kind # "answer",
         NEW l, NEW k \in Nat, NEW n \in Nat, StreamIsWindow(l, k, n, f),
         IsMessage(l, k, x, n + 1)
  PROVE  StreamIsWindow(l, k, n + 1, Append(f, x))
<1> DEFINE g == Append(f, x)
<1>1. /\ Len(g) = Len(f) + 1 /\ Len(f) \in Nat
      /\ \A i \in 1..Len(f) : g[i] = f[i]
      /\ g[Len(f) + 1] = x
  BY PushSeq
<1>2. \A i \in 1..Len(f) :
        Cardinality(ChatsAfter(g, i)) = Cardinality(ChatsAfter(f, i)) + 1
  BY ChatsAfterPush
<1> HIDE DEF g
<1> SUFFICES ASSUME NEW i \in 1..Len(g), g[i].kind # "answer"
             PROVE  IsMessage(l, k, g[i], (n + 1) - Cardinality(ChatsAfter(g, i)))
  BY DEF StreamIsWindow, g
<1>3. CASE i = Len(f) + 1
  <2>1. ChatsAfter(g, i) = {}
    BY <1>1, <1>3 DEF ChatsAfter
  <2>2. Cardinality(ChatsAfter(g, i)) = 0
    BY <2>1, FS_EmptySet
  <2> QED
    BY <1>1, <1>3, <2>2
<1>4. CASE i \in 1..Len(f)
  <2>1. Cardinality(ChatsAfter(f, i)) \in Nat
    BY <1>4, ChatsAfterFinite
  <2>2. (n + 1) - Cardinality(ChatsAfter(g, i)) = n - Cardinality(ChatsAfter(f, i))
    BY <1>2, <1>4, <2>1
  <2> QED
    BY <1>1, <1>4, <2>2 DEF StreamIsWindow
<1> QED
  BY <1>1, <1>3, <1>4

(* The oldest frame is taken. *)
LEMMA ChatsAfterTail ==
  ASSUME NEW f \in Seq(Frame), f # <<>>, NEW i \in Nat
  PROVE  Cardinality(ChatsAfter(Tail(f), i)) = Cardinality(ChatsAfter(f, i + 1))
<1> DEFINE B == ChatsAfter(f, i + 1)
           A == ChatsAfter(Tail(f), i)
           h == [j \in B |-> j - 1]
<1>1. /\ Len(Tail(f)) = Len(f) - 1 /\ Len(f) \in Nat \ {0}
      /\ \A j \in 1..Len(Tail(f)) : Tail(f)[j] = f[j + 1]
  BY PopSeq
<1>2. \A j \in B : j \in Nat /\ j - 1 \in A
  BY <1>1 DEF ChatsAfter
<1>3. \A j \in A : j \in Nat /\ j + 1 \in B
  BY <1>1 DEF ChatsAfter
<1>4. IsFiniteSet(B)
  BY ChatsAfterFinite
<1> HIDE DEF A, B
<1>5. h \in Bijection(B, A)
  <2>1. h \in [B -> A]
    BY <1>2
  <2>2. \A j, m \in B : h[j] = h[m] => j = m
    BY <1>2
  <2>3. \A j \in A : j + 1 \in B /\ h[j + 1] = j
    BY <1>3
  <2>4. h \in Injection(B, A)
    BY <2>1, <2>2 DEF Injection, IsInjective
  <2>5. h \in Surjection(B, A)
    BY <2>1, <2>3 DEF Surjection
  <2> QED
    BY <2>4, <2>5 DEF Bijection
<1>6. ExistsBijection(B, A)
  BY <1>5 DEF ExistsBijection
<1>7. Cardinality(A) = Cardinality(B)
  BY <1>4, <1>6, FS_Bijection
<1> QED
  BY <1>7 DEF A, B

LEMMA FrameReceived ==
  ASSUME NEW f \in Seq(Frame), f # <<>>,
         NEW l, NEW k \in Nat, NEW n \in Nat, StreamIsWindow(l, k, n, f)
  PROVE  StreamIsWindow(l, k, n, Tail(f))
<1> DEFINE g == Tail(f)
<1>1. /\ Len(g) = Len(f) - 1 /\ Len(f) \in Nat \ {0}
      /\ \A j \in 1..Len(g) : g[j] = f[j + 1]
  BY PopSeq
<1> SUFFICES ASSUME NEW i \in 1..Len(g), g[i].kind # "answer"
             PROVE  IsMessage(l, k, g[i], n - Cardinality(ChatsAfter(g, i)))
  BY DEF StreamIsWindow
<1>2. Cardinality(ChatsAfter(g, i)) = Cardinality(ChatsAfter(f, i + 1))
  BY ChatsAfterTail
<1> HIDE DEF g
<1>3. i + 1 \in 1..Len(f) /\ g[i] = f[i + 1]
  BY <1>1
<1> QED
  BY <1>2, <1>3 DEF StreamIsWindow

(* How many messages the first frame and those behind it are. *)
LEMMA ChatsAfterFirst ==
  ASSUME NEW f \in Seq(Frame), f # <<>>
  PROVE  Cardinality(ChatsAfter(f, 0))
           = Cardinality(ChatsAfter(f, 1)) + (IF Head(f).kind = "answer" THEN 0 ELSE 1)
<1>1. Len(f) \in Nat \ {0} /\ Head(f) = f[1]
  BY PopSeq
<1>2. /\ IsFiniteSet(ChatsAfter(f, 1))
      /\ Cardinality(ChatsAfter(f, 1)) \in Nat
  BY ChatsAfterFinite
<1>3. CASE Head(f).kind = "answer"
  <2>1. ChatsAfter(f, 0) = ChatsAfter(f, 1)
    BY <1>1, <1>3 DEF ChatsAfter
  <2> QED
    BY <1>2, <1>3, <2>1
<1>4. CASE Head(f).kind # "answer"
  <2>1. ChatsAfter(f, 0) = ChatsAfter(f, 1) \cup {1}
    BY <1>1, <1>4 DEF ChatsAfter
  <2>2. 1 \notin ChatsAfter(f, 1)
    BY DEF ChatsAfter
  <2>3. Cardinality(ChatsAfter(f, 0)) = Cardinality(ChatsAfter(f, 1)) + 1
    BY <1>2, <2>1, <2>2, FS_AddElement
  <2> QED
    BY <1>4, <2>3
<1> QED
  BY <1>3, <1>4

(* The log grows behind what was written. *)
LEMMA LogGrows ==
  ASSUME NEW f \in Seq(Frame), NEW l \in Seq(ChatMessage), NEW x \in ChatMessage,
         NEW k \in Nat, NEW n \in 0..Len(l), StreamIsWindow(l, k, n, f)
  PROVE  StreamIsWindow(Append(l, x), k, n, f)
<1> SUFFICES ASSUME NEW i \in 1..Len(f), f[i].kind # "answer"
             PROVE  IsMessage(Append(l, x), k, f[i], n - Cardinality(ChatsAfter(f, i)))
  BY DEF StreamIsWindow
<1> DEFINE p == n - Cardinality(ChatsAfter(f, i))
<1>1. IsMessage(l, k, f[i], p)
  BY DEF StreamIsWindow
<1>2. Cardinality(ChatsAfter(f, i)) \in Nat
  BY ChatsAfterFinite
<1>3. p \in Int /\ p <= Len(l) /\ Len(l) \in Nat
  BY <1>2
<1> HIDE DEF p
<1>4. p \in 1..Len(l)
  BY <1>1, <1>3 DEF IsMessage
<1>5. Append(l, x)[p] = l[p]
  BY <1>4, PushSeq
<1>6. IsMessage(Append(l, x), k, f[i], p)
  BY <1>1, <1>5 DEF IsMessage
<1> QED
  BY <1>6 DEF p

(* An empty stream has nothing out of order. *)
LEMMA EmptyStream == ASSUME NEW l, NEW k, NEW n PROVE StreamIsWindow(l, k, n, <<>>)
BY DEF StreamIsWindow

LEMMA NoChats == Cardinality(ChatsAfter(<<>>, 0)) = 0
<1>1. ChatsAfter(<<>>, 0) = {}
  BY DEF ChatsAfter
<1> QED
  BY <1>1, FS_EmptySet

LEMMA StreamPush ==
  ASSUME NEW w \in Seq(Frame), NEW e \in Seq(Frame), NEW x \in Frame
  PROVE  w \o e \in Seq(Frame) /\ w \o Append(e, x) = Append(w \o e, x)
<1> HIDE DEF Frame
<1> QED
  OBVIOUS

LEMMA StreamPop ==
  ASSUME NEW w \in Seq(Frame), NEW e \in Seq(Frame), w # <<>>
  PROVE  /\ w \o e \in Seq(Frame) /\ w \o e # <<>>
         /\ Head(w \o e) = Head(w) /\ Tail(w) \o e = Tail(w \o e)
<1> HIDE DEF Frame
<1> QED
  OBVIOUS

LEMMA StreamMove ==
  ASSUME NEW w \in Seq(Frame), NEW e \in Seq(Frame), e # <<>>
  PROVE  Append(w, Head(e)) \o Tail(e) = w \o e
<1> HIDE DEF Frame
<1> QED
  OBVIOUS

-----------------------------------------------------------------------------
(* The invariant *)

USE DEF controlVars, tlsVars, clientVars, historyVars

(* A connection that is up belongs to a session of the room or to one that *)
(* did not get past its handshake.                                         *)
Linked(s) ==
  /\ pc[s] = "end" => s \notin room
  /\ link[s] => pc[s] \notin {"idle", "accept"} /\ (s \in room \/ pc[s] = "end")

(* Until the handshake is done, and if it never is, nothing is written.    *)
Unserved(s) ==
  pc[s] \in {"idle", "accept", "handshake"} \/ (link[s] /\ s \notin room)
    => /\ delivered[s] = <<>>
       /\ queueOp[s] \in {"none", "deferred"}
       /\ wire[s] = <<>> /\ engine[s] = <<>>

(* WireIsWindow for one session. *)
InOrder(s) ==
  s \in room /\ link[s] => StreamIsWindow(log, joinedAt[s], Written(s), Stream(s))

(* Where in the log the last message is that the client received, and the  *)
(* steps that give it none.                                                *)
Received(s) == Written(s) - Cardinality(ChatsAfter(Stream(s), 0))

Keeps(s) ==
  s \in room' /\ link'[s] /\ link[s] => Received(s)' = Received(s)

Begun(s) == queueOp[s] \in {"owner", "waiter", "released"}

WireInv == IInv /\ \A s \in Sessions : Linked(s) /\ Unserved(s) /\ InOrder(s)

LEMMA Arrays ==
  ASSUME IInv
  PROVE  /\ pc \in [Sessions -> ControlStates]
         /\ queueOp \in [Sessions -> WriteStates]
         /\ engine \in [Sessions -> Seq(Frame)]
         /\ wire \in [Sessions -> Seq(Frame)]
         /\ link \in [Sessions -> BOOLEAN]
         /\ joinedAt \in [Sessions -> Nat]
BY DEF IInv, TypeOK

LEMMA InitWire == Init => WireInv
<1> SUFFICES ASSUME Init PROVE WireInv
  OBVIOUS
<1>1. IInv
  BY InitInv
<1>2. \A s \in Sessions : Linked(s) /\ Unserved(s) /\ InOrder(s)
  BY DEF Init, Linked, Unserved, InOrder
<1> QED
  BY <1>1, <1>2 DEF WireInv

(* What was written was posted. *)
LEMMA WrittenIsPosted ==
  ASSUME IInv, NEW s \in Sessions
  PROVE  Written(s) \in 0..Len(log) /\ joinedAt[s] \in Nat
<1>1. /\ log \in Seq(ChatMessage) /\ queue[s] \in Seq(ChatMessage)
      /\ delivered[s] \in Seq(ChatMessage) /\ joinedAt[s] \in Nat
  BY DEF IInv, TypeOK
<1>2. joinedAt[s] + Len(delivered[s]) + Len(queue[s]) <= Len(log)
  BY DEF IInv, QueueIsWindow, IsWindow
<1>3. queueOp[s] # "none" => Len(queue[s]) >= 1
  BY <1>1 DEF IInv, WriterHasWork
<1> QED
  BY <1>1, <1>2, <1>3 DEF Written

(* Steps that neither post nor write. *)
LEMMA InOrderKept ==
  ASSUME NEW s \in Sessions, InOrder(s),
         log' = log, joinedAt'[s] = joinedAt[s], delivered'[s] = delivered[s],
         Begun(s)' = Begun(s), Stream(s)' = Stream(s),
         s \in room' => s \in room, link'[s] => link[s]
  PROVE  InOrder(s)' /\ Keeps(s)
<1>1. Written(s)' = Written(s)
  BY DEF Written, Begun
<1>2. InOrder(s)'
  BY <1>1 DEF InOrder
<1>3. Received(s)' = Received(s)
  BY <1>1 DEF Received
<1> QED
  BY <1>2, <1>3 DEF Keeps

(* What a frame that is written does not change. *)
LEMMA ReceivedKept ==
  ASSUME NEW s \in Sessions, NEW f \in Seq(Frame), NEW x \in Frame, Written(s) \in Nat,
         Stream(s) = f, Stream(s)' = Append(f, x),
         Written(s)' = Written(s) + (IF x.kind = "answer" THEN 0 ELSE 1)
  PROVE  Keeps(s)
<1>1. Cardinality(ChatsAfter(Append(f, x), 0))
        = Cardinality(ChatsAfter(f, 0)) + (IF x.kind = "answer" THEN 0 ELSE 1)
  BY ChatsAfterPush
<1>2. Cardinality(ChatsAfter(f, 0)) \in Nat
  BY ChatsAfterFinite
<1>3. Received(s)' = Written(s)' - Cardinality(ChatsAfter(Append(f, x), 0))
  BY DEF Received
<1>4. Received(s) = Written(s) - Cardinality(ChatsAfter(f, 0))
  BY DEF Received
<1> HIDE DEF Frame
<1>5. Received(s)' = Received(s)
  BY <1>1, <1>2, <1>3, <1>4
<1> QED
  BY <1>5 DEF Keeps

(* The handshake and everything before it, for the connection. *)
LEMMA SetupLinked ==
  ASSUME IInv, NEW s \in Sessions, Setup(s),
         NEW t \in Sessions, Linked(t), Unserved(t)
  PROVE  Linked(t)' /\ Unserved(t)'
<1> USE DEF Linked, Unserved
<1>1. TypeOK /\ NotEntered
  BY DEF IInv
<1>2. CASE HandleAccept(s)
  <2>1. [pc EXCEPT ![s] = "handshake"] \in [Sessions -> ControlStates]
    BY <1>1 DEF TypeOK, ControlStates
  <2>2. /\ pc[s] = "accept" /\ pc'[s] = "handshake"
        /\ \A u \in Sessions \ {s} : \/ pc'[u] = pc[u]
                                     \/ pc[u] = "idle" /\ pc'[u] = "accept"
    BY <1>2, <2>1, Arrays, StartAcceptStep DEF HandleAccept
  <2> QED
    BY <1>1, <1>2, <2>2, Arrays DEF HandleAccept, NotEntered
<1>3. CASE HandleAcceptError(s)
  <2>1. [pc EXCEPT ![s] = "end"] \in [Sessions -> ControlStates]
    BY <1>1 DEF TypeOK, ControlStates
  <2>2. /\ pc[s] = "accept" /\ pc'[s] = "end"
        /\ \A u \in Sessions \ {s} : \/ pc'[u] = pc[u]
                                     \/ pc[u] = "idle" /\ pc'[u] = "accept"
    BY <1>3, <2>1, Arrays, StartAcceptStep DEF HandleAcceptError
  <2> QED
    BY <1>1, <1>3, <2>2, Arrays DEF HandleAcceptError, NotEntered
<1>4. CASE HandshakeDone(s)
  <2>1. pc[s] = "handshake" /\ UNCHANGED <<room, wire, link, delivered>>
    BY <1>4 DEF HandshakeDone
  <2>2. /\ pc'[s] = "readAuth"
        /\ \A u \in Sessions \ {s} : pc'[u] = pc[u] /\ queueOp'[u] = queueOp[u]
    BY <1>4, Arrays DEF HandshakeDone
  <2>3. \A u \in Sessions \ {s} : engine'[u] = engine[u]
    BY <1>4, Arrays DEF HandshakeDone
  <2> QED
    BY <2>1, <2>2, <2>3
<1>5. CASE ControlError(s)
  BY <1>5, Arrays DEF ControlError, Drop
<1> QED
  BY <1>2, <1>3, <1>4, <1>5 DEF Setup

LEMMA SetupInOrder ==
  ASSUME IInv, NEW s \in Sessions, Setup(s),
         NEW t \in Sessions, Linked(t), Unserved(t), InOrder(t)
  PROVE  InOrder(t)' /\ Keeps(t)
<1>1. TypeOK /\ NotEntered
  BY DEF IInv
<1>2. CASE HandleAccept(s)
  <2>1. CASE t = s
    <3>1. wire'[t] = <<>> /\ engine'[t] = <<>>
      BY <1>2, <2>1 DEF HandleAccept, Unserved
    <3>3. ~link[t]
      BY <1>2, <2>1 DEF HandleAccept, Linked
    <3>2. Stream(t)' = <<>>
      BY <3>1 DEF Stream
    <3> QED
      BY <3>2, <3>3, EmptyStream DEF InOrder, Keeps
  <2>2. CASE t # s
    <3>1. /\ log' = log /\ joinedAt'[t] = joinedAt[t] /\ delivered'[t] = delivered[t]
          /\ Begun(t)' = Begun(t) /\ Stream(t)' = Stream(t)
          /\ t \in room' => t \in room
          /\ link'[t] => link[t]
      BY <1>1, <1>2, <2>2 DEF HandleAccept, TypeOK, Begun, Stream
    <3> QED
      BY <3>1, InOrderKept
  <2> QED
    BY <2>1, <2>2
<1>3. CASE HandleAcceptError(s)
  <2>1. /\ log' = log /\ joinedAt'[t] = joinedAt[t] /\ delivered'[t] = delivered[t]
        /\ Begun(t)' = Begun(t) /\ Stream(t)' = Stream(t)
        /\ t \in room' => t \in room
        /\ link'[t] => link[t]
    BY <1>3 DEF HandleAcceptError, Begun, Stream
  <2> QED
    BY <2>1, InOrderKept
<1>4. CASE HandshakeDone(s)
  <2>1. /\ log' = log /\ joinedAt' = joinedAt /\ delivered' = delivered
        /\ room' = room /\ link' = link /\ wire' = wire
        /\ pc[s] = "handshake"
    BY <1>4 DEF HandshakeDone
  <2>2. CASE t = s /\ queueOp[s] = "deferred"
    <3>1. queue[s] \in Seq(ChatMessage) /\ queue[s] # <<>> /\ joinedAt[s] \in Nat
      BY <1>1, <2>2 DEF TypeOK, IInv, WriterHasWork
    <3>2. PICK f \in {ChatFrame(Head(queue[s])), Garbage} :
            engine' = [engine EXCEPT ![s] = Append(engine[s], f)]
      BY <1>4, <2>2 DEF HandshakeDone
    <3>3. Begun(s)'
      BY <1>1, <1>4, <2>2 DEF HandshakeDone, TypeOK, Begun
    <3>4. delivered[s] = <<>> /\ wire[s] = <<>> /\ engine[s] = <<>>
      BY <2>1, <2>2 DEF Unserved
    <3>5. engine'[s] = <<f>>
      BY <1>1, <3>2, <3>4 DEF TypeOK
    <3>6. Stream(s)' = <<f>>
      BY <2>1, <3>4, <3>5 DEF Stream
    <3>7. Written(s)' = joinedAt[s] + 1
      BY <2>1, <3>1, <3>3, <3>4 DEF Written, Begun
    <3>8. Head(queue[s]) = log[joinedAt[s] + 1]
      <4>1. \A i \in 1..Len(queue[s]) : queue[s][i] = log[joinedAt[s] + 0 + i]
        BY <3>4 DEF IInv, QueueIsWindow, IsWindow
      <4>2. Head(queue[s]) = queue[s][1] /\ 1 \in 1..Len(queue[s])
        BY <3>1, PopSeq
      <4> QED
        BY <3>1, <4>1, <4>2
    <3>9. Head(queue[s]) \in ChatMessage
      BY <3>1, PopSeq
    <3>10. f \in Frame /\ f.kind # "answer"
      BY <3>9 DEF Frame, ChatFrame, Garbage
    <3>11. IsMessage(log, joinedAt[s], f, joinedAt[s] + 1)
      BY <3>1, <3>8 DEF IsMessage
    <3>12. StreamIsWindow(log, joinedAt[s], joinedAt[s], <<>>)
      BY EmptyStream
    <3>13. StreamIsWindow(log, joinedAt[s], joinedAt[s] + 1, Append(<<>>, f))
      <4> HIDE DEF Frame
      <4>1. <<>> \in Seq(Frame)
        OBVIOUS
      <4> QED
        BY <3>1, <3>10, <3>11, <3>12, <4>1, MessageWritten
    <3>14. Append(<<>>, f) = <<f>>
      OBVIOUS
    <3>15. InOrder(s)'
      BY <2>1, <3>6, <3>7, <3>13, <3>14 DEF InOrder
    <3>16. Keeps(s)
      <4>1. Stream(s) = <<>> /\ <<>> \in Seq(Frame)
        BY <3>4 DEF Stream
      <4>2. Written(s) = joinedAt[s]
        BY <2>2, <3>1, <3>4 DEF Written
      <4> HIDE DEF Frame
      <4>3. Stream(s)' = Append(<<>>, f)
        BY <3>6, <3>14
      <4>4. Written(s)' = Written(s) + 1
        BY <3>7, <4>2
      <4> QED
        BY <3>1, <3>10, <4>1, <4>2, <4>3, <4>4, ReceivedKept
    <3> QED
      BY <2>2, <3>15, <3>16
  <2>3. CASE ~(t = s /\ queueOp[s] = "deferred")
    <3>1. Begun(t)' = Begun(t) /\ Stream(t)' = Stream(t)
      <4>1. CASE queueOp[s] = "deferred"
        <5>1. t # s
          BY <2>3, <4>1
        <5>2. queueOp'[t] = queueOp[t] /\ engine'[t] = engine[t]
          BY <1>4, <4>1, <5>1, Arrays DEF HandshakeDone
        <5> QED
          BY <2>1, <5>2 DEF Begun, Stream
      <4>2. CASE queueOp[s] # "deferred"
        BY <1>4, <2>1, <4>2 DEF HandshakeDone, Begun, Stream
      <4> QED
        BY <4>1, <4>2
    <3> QED
      BY <2>1, <3>1, InOrderKept
  <2> QED
    BY <2>2, <2>3
<1>5. CASE ControlError(s)
  <2>1. /\ log' = log /\ joinedAt'[t] = joinedAt[t] /\ delivered'[t] = delivered[t]
        /\ Begun(t)' = Begun(t) /\ Stream(t)' = Stream(t)
        /\ t \in room' => t \in room
        /\ link'[t] => link[t]
    BY <1>5 DEF ControlError, Drop, Begun, Stream
  <2> QED
    BY <2>1, InOrderKept
<1> QED
  BY <1>2, <1>3, <1>4, <1>5 DEF Setup

-----------------------------------------------------------------------------
(* Answers *)

LEMMA AnswerInOrder ==
  ASSUME IInv, NEW s \in Sessions, NEW type \in Answers, WriteAnswer(s, type),
         UNCHANGED <<room, queueOp, wire, link, log, joinedAt, delivered>>,
         NEW t \in Sessions, InOrder(t)
  PROVE  InOrder(t)' /\ Keeps(t)
<1>1. TypeOK
  BY DEF IInv
<1>2. CASE t # s
  <2>1. Begun(t)' = Begun(t) /\ Stream(t)' = Stream(t)
    BY <1>1, <1>2 DEF WriteAnswer, TypeOK, Begun, Stream
  <2> QED
    BY <2>1, InOrderKept
<1>3. CASE t = s
  <2>1. AnswerFrame(type) \in Frame /\ AnswerFrame(type).kind = "answer"
    BY DEF AnswerFrame, Frame
  <2>2. engine'[s] = Append(engine[s], AnswerFrame(type))
    BY <1>1 DEF WriteAnswer, TypeOK
  <2>3. wire[s] \in Seq(Frame) /\ engine[s] \in Seq(Frame)
    BY <1>1 DEF TypeOK
  <2>4. /\ Stream(s)' = wire[s] \o Append(engine[s], AnswerFrame(type))
        /\ Stream(s) = wire[s] \o engine[s]
    BY <2>2 DEF Stream
  <2> HIDE DEF Frame, AnswerFrame
  <2>5. Stream(s) \in Seq(Frame) /\ Stream(s)' = Append(Stream(s), AnswerFrame(type))
    <3> DEFINE f == AnswerFrame(type)
    <3>1. /\ wire[s] \o engine[s] \in Seq(Frame)
          /\ wire[s] \o Append(engine[s], f) = Append(wire[s] \o engine[s], f)
      BY <2>1, <2>3, StreamPush
    <3> QED
      BY <2>4, <3>1
  <2>6. Written(s)' = Written(s)
    BY DEF Written
  <2>7. Written(s) \in Nat /\ joinedAt[s] \in Nat
    BY WrittenIsPosted
  <2>8. InOrder(s)'
    <3>1. StreamIsWindow(log, joinedAt[s], Written(s), Stream(s))
            => StreamIsWindow(log, joinedAt[s], Written(s),
                              Append(Stream(s), AnswerFrame(type)))
      BY <2>1, <2>5, <2>7, AnswerWritten
    <3> QED
      BY <1>3, <2>5, <2>6, <3>1 DEF InOrder
  <2>9. Written(s)' = Written(s) + 0
    BY <2>6, <2>7
  <2>10. Keeps(s)
    BY <2>1, <2>5, <2>7, <2>9, ReceivedKept
  <2> QED
    BY <1>3, <2>8, <2>10
<1> QED
  BY <1>2, <1>3

(* The handlers of authentication requests. *)
LEMMA AuthStep ==
  ASSUME IInv, NEW s \in Sessions,
         HandleLogin(s) \/ HandleRegister(s) \/ HandleFormatFailure(s)
  PROVE  /\ pc[s] = "readAuth"
         /\ \E type \in Answers : WriteAnswer(s, type)
         /\ UNCHANGED <<room, queueOp, wire, link, log, joinedAt, delivered>>
<1> DEFINE in == IF LoginOk(authInfo, NextRequest(s).user, NextRequest(s).pass)
                 THEN "LOGIN_SUCCESS" ELSE "LOGIN_FAILURE"
           up == IF RegisterOk(authInfo, NextRequest(s).user)
                 THEN "REGISTER_SUCCESS" ELSE "REGISTER_FAILURE"
<1>1. in \in Answers /\ up \in Answers /\ "FORMAT_FAILURE" \in Answers
  BY DEF Answers, SuccessAnswers, FailureAnswers
<1>2. CASE HandleLogin(s)
  <2>1. WriteAnswer(s, in)
    BY <1>2 DEF HandleLogin
  <2> QED
    BY <1>1, <1>2, <2>1 DEF HandleLogin
<1>3. CASE HandleRegister(s)
  <2>1. WriteAnswer(s, up)
    BY <1>3 DEF HandleRegister
  <2> QED
    BY <1>1, <1>3, <2>1 DEF HandleRegister
<1>4. CASE HandleFormatFailure(s)
  BY <1>1, <1>4 DEF HandleFormatFailure
<1> QED
  BY <1>2, <1>3, <1>4

LEMMA AuthWire ==
  ASSUME IInv, NEW s \in Sessions,
         HandleLogin(s) \/ HandleRegister(s) \/ HandleFormatFailure(s),
         NEW t \in Sessions, Linked(t), Unserved(t), InOrder(t)
  PROVE  Linked(t)' /\ Unserved(t)' /\ InOrder(t)' /\ Keeps(t)
<1>1. PICK type \in Answers : WriteAnswer(s, type)
  BY AuthStep
<1>2. /\ pc[s] = "readAuth"
      /\ UNCHANGED <<room, queueOp, wire, link, log, joinedAt, delivered>>
  BY AuthStep
<1>3. InOrder(t)' /\ Keeps(t)
  BY <1>1, <1>2, AnswerInOrder
<1>4. pc \in [Sessions -> ControlStates] /\ engine \in [Sessions -> Seq(Frame)]
  BY DEF IInv, TypeOK
<1>5. Linked(t)' /\ Unserved(t)'
  BY <1>1, <1>2, <1>4 DEF WriteAnswer, Linked, Unserved
<1> QED
  BY <1>3, <1>5

LEMMA AnswerEndsWire ==
  ASSUME IInv, NEW s \in Sessions, AnswerDone(s) \/ AnswerError(s),
         NEW t \in Sessions, Linked(t), Unserved(t), InOrder(t)
  PROVE  Linked(t)' /\ Unserved(t)' /\ InOrder(t)' /\ Keeps(t)
<1>1. TypeOK
  BY DEF IInv
<1>2. CASE AnswerDone(s)
  <2>1. /\ pc[s] = "answer" /\ pc' \in [Sessions -> ControlStates]
        /\ pc'[s] \in {"readChat", "readAuth"}
        /\ \A u \in Sessions \ {s} : pc'[u] = pc[u]
        /\ queueOp' = [queueOp EXCEPT ![s] = Released(queueOp[s])]
        /\ UNCHANGED <<room, link, wire, engine, log, joinedAt, delivered>>
    BY <1>1, <1>2 DEF AnswerDone, TypeOK, ControlStates
  <2>2. Linked(t)' /\ Unserved(t)'
    BY <2>1, Arrays DEF Linked, Unserved, Released
  <2>3. Begun(t)' = Begun(t) /\ Stream(t)' = Stream(t)
    BY <2>1, Arrays DEF Begun, Stream, Released
  <2> QED
    BY <2>1, <2>2, <2>3, InOrderKept
<1>3. CASE AnswerError(s)
  <2>1. ~link[s] /\ UNCHANGED <<link, wire, log, joinedAt, delivered>>
    BY <1>3 DEF AnswerError
  <2>2. Linked(t)' /\ Unserved(t)'
    BY <1>1, <1>3 DEF Linked, Unserved, AnswerError, Drop, TypeOK
  <2>3. CASE t = s
    BY <2>1, <2>2, <2>3 DEF InOrder, Keeps
  <2>4. CASE t # s
    <3>1. /\ Begun(t)' = Begun(t) /\ Stream(t)' = Stream(t)
          /\ t \in room' => t \in room
      BY <1>1, <1>3, <2>4 DEF AnswerError, Drop, TypeOK, Begun, Stream
    <3> QED
      BY <2>1, <2>2, <3>1, InOrderKept
  <2> QED
    BY <2>2, <2>3, <2>4
<1> QED
  BY <1>2, <1>3

-----------------------------------------------------------------------------
(* Messages *)

LEMMA SkipWire ==
  ASSUME IInv, NEW s \in Sessions, SkipChatMessage(s) \/ UncaughtException(s),
         NEW t \in Sessions, Linked(t), Unserved(t), InOrder(t)
  PROVE  Linked(t)' /\ Unserved(t)' /\ InOrder(t)' /\ Keeps(t)
<1>1. UNCHANGED <<room, pc, queueOp, engine, wire, link, log, joinedAt, delivered>>
  BY DEF SkipChatMessage, UncaughtException
<1>2. Linked(t)' /\ Unserved(t)'
  BY <1>1 DEF Linked, Unserved
<1>3. Begun(t)' = Begun(t) /\ Stream(t)' = Stream(t)
  BY <1>1 DEF Begun, Stream
<1> QED
  BY <1>1, <1>2, <1>3, InOrderKept

LEMMA MessageNamed ==
  ASSUME IInv, NEW s \in Sessions, HandleChatMessage(s)
  PROVE  [user |-> username[s], text |-> Head(inbox[s]).text] \in ChatMessage
<1>1. pc[s] = "readChat" /\ inbox[s] # <<>> /\ Head(inbox[s]).type = "MESSAGE"
  BY DEF HandleChatMessage
<1>2. username[s] \in Users
  BY <1>1 DEF IInv, Authenticated
<1>3. Head(inbox[s]) \in Requests
  BY <1>1, PopSeq DEF IInv, TypeOK
<1>4. Head(inbox[s]).text \in Texts
  BY <1>1, <1>3, ServerAssumption DEF AllRequests, AuthRequest, ChatRequest, OddRequest
<1> QED
  BY <1>2, <1>4 DEF ChatMessage

LEMMA PostWire ==
  ASSUME IInv, NEW s \in Sessions, HandleChatMessage(s),
         NEW t \in Sessions, Linked(t), Unserved(t), InOrder(t)
  PROVE  Linked(t)' /\ Unserved(t)' /\ InOrder(t)' /\ Keeps(t)
<1> DEFINE m == [user |-> username[s], text |-> Head(inbox[s]).text]
           starts == t \in room /\ queue[t] = <<>> /\ pc[t] # "handshake"
<1>1. TypeOK /\ NotEntered /\ WriterHasWork
  BY DEF IInv
<1>2. /\ pc[s] = "readChat" /\ inbox[s] # <<>> /\ Head(inbox[s]).type = "MESSAGE"
      /\ DeliverScMessage(m)
      /\ UNCHANGED <<room, pc, wire, link, joinedAt, delivered>>
  BY DEF HandleChatMessage
<1>3. m \in ChatMessage
  BY MessageNamed
<1>4. /\ log' = Append(log, m)
      /\ starts =>
           /\ queueOp'[t] = StartedBeside(answerOp[t])
           /\ engine'[t] = Append(engine[t], ChatFrame(m))
      /\ ~starts =>
           /\ engine'[t] = engine[t]
           /\ queueOp'[t] = queueOp[t]
                \/ (t \in room /\ queue[t] = <<>> /\ queueOp'[t] = "deferred")
  <2> HIDE DEF m
  <2> QED
    BY <1>2 DEF DeliverScMessage, Recipients, NotWriting
<1>5. queue[t] = <<>> => queueOp[t] = "none"
  BY <1>1 DEF WriterHasWork
<1>6. /\ log \in Seq(ChatMessage) /\ joinedAt[t] \in Nat
      /\ delivered[t] \in Seq(ChatMessage) /\ Len(delivered[t]) \in Nat
  BY <1>1 DEF TypeOK
<1>7. Written(t) \in 0..Len(log)
  BY WrittenIsPosted
<1> HIDE DEF m, starts
<1>8. Linked(t)'
  BY <1>2 DEF Linked
<1>9. Unserved(t)'
  BY <1>1, <1>2, <1>4 DEF Unserved, NotEntered, starts
<1>10. CASE ~starts
  <2>1. Begun(t)' = Begun(t) /\ Stream(t)' = Stream(t)
    <3>1. Begun(t)' = Begun(t)
      BY <1>4, <1>5, <1>10 DEF Begun
    <3>2. wire'[t] = wire[t] /\ engine'[t] = engine[t]
      BY <1>2, <1>4, <1>10
    <3> QED
      BY <3>1, <3>2 DEF Stream
  <2>2. Written(t)' = Written(t)
    BY <1>2, <2>1 DEF Written, Begun
  <2>3. Stream(t) \in Seq(Frame)
    BY <1>1 DEF TypeOK, Stream
  <2>4. StreamIsWindow(log, joinedAt[t], Written(t), Stream(t))
          => StreamIsWindow(Append(log, m), joinedAt[t], Written(t), Stream(t))
    BY <1>3, <1>6, <1>7, <2>3, LogGrows
  <2>5. InOrder(t)'
    BY <1>2, <1>4, <2>1, <2>2, <2>4 DEF InOrder
  <2>6. Keeps(t)
    BY <2>1, <2>2 DEF Keeps, Received
  <2> QED
    BY <1>8, <1>9, <2>5, <2>6
<1>11. CASE starts
  <2>1. t \in room /\ queue[t] = <<>> /\ queueOp[t] = "none"
    BY <1>5, <1>11 DEF starts
  <2>2. Written(t) = joinedAt[t] + Len(delivered[t])
    BY <1>6, <2>1 DEF Written
  <2>3. Written(t) = Len(log)
    <3>1. joinedAt[t] + Len(delivered[t]) + Len(queue[t]) = Len(log)
      BY <2>1 DEF IInv, QueueIsWindow, ReachesEnd
    <3>2. Len(queue[t]) = 0
      BY <2>1
    <3> QED
      BY <1>6, <2>2, <3>1, <3>2
  <2>4. queueOp'[t] \in {"owner", "waiter"}
    BY <1>4, <1>11 DEF StartedBeside
  <2>5. Written(t)' = Written(t) + 1
    BY <1>2, <2>2, <2>4 DEF Written
  <2>6. ChatFrame(m) \in Frame /\ ChatFrame(m).kind # "answer"
    BY <1>3 DEF ChatFrame, Frame
  <2>7. wire[t] \in Seq(Frame) /\ engine[t] \in Seq(Frame)
    BY <1>1 DEF TypeOK
  <2>8. /\ Stream(t)' = wire[t] \o Append(engine[t], ChatFrame(m))
        /\ Stream(t) = wire[t] \o engine[t]
    BY <1>2, <1>4, <1>11 DEF Stream
  <2>9. /\ Append(log, m)[Len(log) + 1] = m /\ Append(log, m) \in Seq(ChatMessage)
        /\ Len(log) \in Nat
    BY <1>3, <1>6, PushSeq
  <2>10. IsMessage(Append(log, m), joinedAt[t], ChatFrame(m), Written(t) + 1)
    <3>1. Written(t) + 1 > joinedAt[t]
      BY <1>6, <2>2
    <3> QED
      BY <2>3, <2>9, <3>1 DEF IsMessage
  <2> HIDE DEF Frame, ChatFrame
  <2>11. Stream(t) \in Seq(Frame) /\ Stream(t)' = Append(Stream(t), ChatFrame(m))
    <3> DEFINE f == ChatFrame(m)
    <3>1. /\ wire[t] \o engine[t] \in Seq(Frame)
          /\ wire[t] \o Append(engine[t], f) = Append(wire[t] \o engine[t], f)
      BY <2>6, <2>7, StreamPush
    <3> QED
      BY <2>8, <3>1
  <2>12. StreamIsWindow(log, joinedAt[t], Written(t), Stream(t))
           => StreamIsWindow(Append(log, m), joinedAt[t], Written(t), Stream(t))
    BY <1>3, <1>6, <1>7, <2>11, LogGrows
  <2>13. StreamIsWindow(log, joinedAt[t], Written(t), Stream(t))
           => StreamIsWindow(Append(log, m), joinedAt[t], Written(t) + 1,
                             Append(Stream(t), ChatFrame(m)))
    <3>1. Written(t) \in Nat
      BY <1>7
    <3> QED
      BY <1>6, <2>6, <2>10, <2>11, <2>12, <3>1, MessageWritten
  <2>14. InOrder(t)'
    BY <1>2, <1>4, <2>5, <2>11, <2>13 DEF InOrder
  <2>15. Written(t) \in Nat
    BY <1>7
  <2>16. Keeps(t)
    BY <2>5, <2>6, <2>11, <2>15, ReceivedKept
  <2> QED
    BY <1>8, <1>9, <2>14, <2>16
<1> QED
  BY <1>10, <1>11

-----------------------------------------------------------------------------
(* The writer *)

(* A write of the queue is complete: the next one begins with the message  *)
(* behind it.                                                              *)
LEMMA WriteDoneWire ==
  ASSUME IInv, NEW s \in Sessions, QueueWriteDone(s),
         NEW t \in Sessions, Linked(t), Unserved(t), InOrder(t)
  PROVE  Linked(t)' /\ Unserved(t)' /\ InOrder(t)' /\ Keeps(t)
<1> DEFINE k == joinedAt[s]
           d == delivered[s]
           q == queue[s]
<1>1. TypeOK
  BY DEF IInv
<1>2. /\ queueOp[s] \in {"owner", "released"}
      /\ delivered' = [delivered EXCEPT ![s] = Append(d, Head(q))]
      /\ WriteNext(s, Tail(q))
      /\ UNCHANGED <<room, pc, wire, link, log, joinedAt>>
  BY DEF QueueWriteDone, MayComplete
<1>3. /\ q \in Seq(ChatMessage) /\ q # <<>> /\ d \in Seq(ChatMessage)
      /\ k \in Nat /\ log \in Seq(ChatMessage)
  BY <1>1, <1>2 DEF TypeOK, IInv, WriterHasWork
<1>4. /\ Tail(q) \in Seq(ChatMessage) /\ Append(d, Head(q)) \in Seq(ChatMessage)
      /\ Len(Append(d, Head(q))) = Len(d) + 1 /\ Len(d) \in Nat
  BY <1>3, PopSeq, PushSeq
<1>5. IsWindow(log, k, Append(d, Head(q)), Tail(q))
  <2>1. IsWindow(log, k, d, q)
    BY DEF IInv, QueueIsWindow
  <2> HIDE DEF k, d, q
  <2> QED
    BY <2>1, <1>3, WindowMoves
<1>6. /\ \A u \in Sessions \ {s} : /\ delivered'[u] = delivered[u]
                                   /\ queueOp'[u] = queueOp[u]
                                   /\ engine'[u] = engine[u]
      /\ Len(delivered'[s]) = Len(d) + 1 /\ joinedAt'[s] = k
  <2>1. \A u \in Sessions \ {s} : queueOp'[u] = queueOp[u] /\ engine'[u] = engine[u]
    BY <1>2, Arrays DEF WriteNext
  <2>2. delivered'[s] = Append(d, Head(q))
    BY <1>1, <1>2 DEF TypeOK
  <2> QED
    BY <1>1, <1>2, <1>4, <2>1, <2>2 DEF TypeOK
<1>7. Linked(t)'
  BY <1>2 DEF Linked
<1>8. Unserved(t)'
  BY <1>2, <1>6 DEF Unserved
<1>9. CASE t # s
  <2>1. Begun(t)' = Begun(t) /\ Stream(t)' = Stream(t)
    BY <1>2, <1>6, <1>9 DEF Begun, Stream
  <2>2. delivered'[t] = delivered[t]
    BY <1>6, <1>9
  <2> QED
    BY <1>2, <1>7, <1>8, <2>1, <2>2, InOrderKept
<1>10. CASE t = s
  <2>1. Written(s) = k + Len(d) + 1
    BY <1>2 DEF Written
  <2>2. CASE Tail(q) = <<>>
    <3>1. queueOp'[s] = "none" /\ engine' = engine
      BY <1>1, <1>2, <2>2 DEF WriteNext, TypeOK
    <3>2. Stream(s)' = Stream(s)
      BY <1>2, <3>1 DEF Stream
    <3>3. Written(s)' = k + (Len(d) + 1) + 0
      BY <1>6, <3>1 DEF Written
    <3>4. Written(s)' = Written(s)
      <4> HIDE DEF k, d, q
      <4>1. k \in Nat /\ Len(d) \in Nat
        BY <1>3, <1>4
      <4> QED
        BY <2>1, <3>3, <4>1
    <3>5. InOrder(s)'
      BY <1>2, <1>10, <3>2, <3>4 DEF InOrder
    <3>6. Keeps(s)
      BY <3>2, <3>4 DEF Keeps, Received
    <3> QED
      BY <1>7, <1>8, <1>10, <3>5, <3>6
  <2>3. CASE Tail(q) # <<>>
    <3> DEFINE m == Head(Tail(q))
               f == ChatFrame(m)
    <3>1. m \in ChatMessage /\ m = log[k + (Len(d) + 1) + 1]
      <4>1. m \in ChatMessage
        BY <1>4, <2>3, PopSeq
      <4>2. m = log[k + Len(Append(d, Head(q))) + 1]
        <5> DEFINE given == Append(d, Head(q))
                   rest == Tail(q)
        <5>1. /\ given \in Seq(ChatMessage) /\ rest \in Seq(ChatMessage)
              /\ IsWindow(log, k, given, rest) /\ rest # <<>>
          BY <1>4, <1>5, <2>3
        <5> HIDE DEF given, rest, k
        <5>2. Head(rest) = log[k + Len(given) + 1]
          BY <1>3, <5>1, WindowMoves
        <5> QED
          BY <5>2 DEF given, rest
      <4> QED
        BY <1>4, <4>1, <4>2
    <3>2. f \in Frame /\ f.kind # "answer"
      BY <3>1 DEF ChatFrame, Frame
    <3>3. /\ queueOp'[s] \in {"owner", "waiter"}
          /\ engine'[s] = Append(engine[s], f)
      BY <1>1, <1>2, <2>3 DEF WriteNext, StartedBeside, TypeOK
    <3>4. Written(s)' = k + (Len(d) + 1) + 1
      BY <1>6, <3>3 DEF Written
    <3>5. /\ Written(s)' = Written(s) + 1
          /\ Written(s) \in Nat /\ Written(s) + 1 > k
      <4> HIDE DEF k, d, q
      <4>1. k \in Nat /\ Len(d) \in Nat
        BY <1>3, <1>4
      <4> QED
        BY <2>1, <3>4, <4>1
    <3>6. IsMessage(log, k, f, Written(s) + 1)
      BY <3>1, <3>4, <3>5 DEF IsMessage
    <3>7. wire[s] \in Seq(Frame) /\ engine[s] \in Seq(Frame)
      BY <1>1 DEF TypeOK
    <3> HIDE DEF f, Frame
    <3>8. Stream(s) \in Seq(Frame) /\ Stream(s)' = Append(Stream(s), f)
      <4>1. /\ wire[s] \o engine[s] \in Seq(Frame)
            /\ wire[s] \o Append(engine[s], f) = Append(wire[s] \o engine[s], f)
        BY <3>2, <3>7, StreamPush
      <4> QED
        BY <1>2, <3>3, <4>1 DEF Stream
    <3>9. StreamIsWindow(log, k, Written(s), Stream(s))
            => StreamIsWindow(log, k, Written(s) + 1, Append(Stream(s), f))
      BY <1>3, <3>2, <3>5, <3>6, <3>8, MessageWritten
    <3>10. InOrder(s)'
      BY <1>2, <1>10, <3>5, <3>8, <3>9 DEF InOrder
    <3>11. Keeps(s)
      BY <3>2, <3>5, <3>8, ReceivedKept
    <3> QED
      BY <1>7, <1>8, <1>10, <3>10, <3>11
  <2> QED
    BY <2>2, <2>3
<1> QED
  BY <1>9, <1>10

LEMMA WriteErrorWire ==
  ASSUME IInv, NEW s \in Sessions, QueueWriteError(s),
         NEW t \in Sessions, Linked(t), Unserved(t), InOrder(t)
  PROVE  Linked(t)' /\ Unserved(t)' /\ InOrder(t)' /\ Keeps(t)
<1>1. TypeOK
  BY DEF IInv
<1>2. Linked(t)' /\ Unserved(t)'
  BY <1>1 DEF QueueWriteError, Drop, TypeOK, Linked, Unserved
<1>3. CASE t = s
  <2>1. t \notin room'
    BY <1>3 DEF QueueWriteError, Drop
  <2> QED
    BY <1>2, <2>1 DEF InOrder, Keeps
<1>4. CASE t # s
  <2>1. /\ log' = log /\ joinedAt'[t] = joinedAt[t] /\ delivered'[t] = delivered[t]
        /\ Begun(t)' = Begun(t) /\ Stream(t)' = Stream(t)
        /\ t \in room' => t \in room
        /\ link'[t] => link[t]
    BY <1>1, <1>4 DEF QueueWriteError, Drop, TypeOK, Begun, Stream
  <2> QED
    BY <1>2, <2>1, InOrderKept
<1> QED
  BY <1>3, <1>4

-----------------------------------------------------------------------------
(* The connection *)

LEMMA TransmitWire ==
  ASSUME IInv, NEW s \in Sessions, Transmit(s),
         NEW t \in Sessions, Linked(t), Unserved(t), InOrder(t)
  PROVE  Linked(t)' /\ Unserved(t)' /\ InOrder(t)' /\ Keeps(t)
<1>1. TypeOK
  BY DEF IInv
<1>2. /\ wire' = [wire EXCEPT ![s] = Append(wire[s], Head(engine[s]))]
      /\ engine' = [engine EXCEPT ![s] = Tail(engine[s])]
      /\ flight[s] > 0
      /\ UNCHANGED <<room, pc, queueOp, link, log, joinedAt, delivered>>
  BY DEF Transmit
<1>3. wire[s] \in Seq(Frame) /\ engine[s] \in Seq(Frame) /\ engine[s] # <<>>
  <2>1. wire[s] \in Seq(Frame) /\ engine[s] \in Seq(Frame)
    BY Arrays
  <2>2. flight[s] \in Nat /\ flight[s] <= Len(engine[s])
    BY <1>1 DEF TypeOK, IInv, FlightInEngine
  <2> QED
    BY <1>2, <2>1, <2>2
<1>4. Linked(t)' /\ Unserved(t)'
  BY <1>1, <1>2, <1>3 DEF TypeOK, Linked, Unserved
<1>5. Stream(t)' = Stream(t)
  <2>1. CASE t = s
    <3>1. Append(wire[s], Head(engine[s])) \o Tail(engine[s]) = wire[s] \o engine[s]
      BY <1>3, StreamMove
    <3>2. wire'[s] = Append(wire[s], Head(engine[s])) /\ engine'[s] = Tail(engine[s])
      BY <1>1, <1>2 DEF TypeOK
    <3> QED
      BY <2>1, <3>1, <3>2 DEF Stream
  <2>2. CASE t # s
    BY <1>1, <1>2, <2>2 DEF TypeOK, Stream
  <2> QED
    BY <2>1, <2>2
<1>6. Begun(t)' = Begun(t)
  BY <1>2 DEF Begun
<1> QED
  BY <1>2, <1>4, <1>5, <1>6, InOrderKept

LEMMA ClientWire ==
  ASSUME IInv, NEW s \in Sessions,
         Disconnect(s) \/ (\E req \in Requests : ClientSend(s, req)),
         NEW t \in Sessions, Linked(t), Unserved(t), InOrder(t)
  PROVE  Linked(t)' /\ Unserved(t)' /\ InOrder(t)' /\ Keeps(t)
<1>1. TypeOK
  BY DEF IInv
<1>2. ASSUME NEW req \in Requests, ClientSend(s, req)
      PROVE  Linked(t)' /\ Unserved(t)' /\ InOrder(t)' /\ Keeps(t)
  <2>1. UNCHANGED <<room, pc, queueOp, engine, wire, link, log, joinedAt, delivered>>
    BY <1>2 DEF ClientSend
  <2>2. Linked(t)' /\ Unserved(t)' /\ Begun(t)' = Begun(t) /\ Stream(t)' = Stream(t)
    BY <2>1 DEF Linked, Unserved, Begun, Stream
  <2> QED
    BY <2>1, <2>2, InOrderKept
<1>3. CASE Disconnect(s)
  <2>1. /\ link' = [link EXCEPT ![s] = FALSE]
        /\ UNCHANGED <<room, pc, queueOp, engine, wire, log, joinedAt, delivered>>
    BY <1>3 DEF Disconnect
  <2>2. link'[t] => link[t]
    BY <1>1, <2>1 DEF TypeOK
  <2>3. Linked(t)' /\ Unserved(t)'
    BY <2>1, <2>2 DEF Linked, Unserved
  <2>4. Begun(t)' = Begun(t) /\ Stream(t)' = Stream(t)
    BY <2>1 DEF Begun, Stream
  <2> QED
    BY <2>1, <2>2, <2>3, <2>4, InOrderKept
<1> QED
  BY <1>2, <1>3

(* The client that receives a frame, and the others. *)
LEMMA ReceiveWire ==
  ASSUME IInv, NEW s \in Sessions, ClientReceive(s),
         NEW t \in Sessions, Linked(t), Unserved(t), InOrder(t)
  PROVE  Linked(t)' /\ Unserved(t)' /\ InOrder(t)' /\ (t # s => Keeps(t))
<1>1. /\ wire' = [wire EXCEPT ![s] = Tail(wire[s])]
      /\ link[s] /\ wire[s] # <<>>
      /\ UNCHANGED <<room, pc, queueOp, engine, link, log, joinedAt, delivered>>
  BY DEF ClientReceive
<1>2. Linked(t)' /\ Unserved(t)'
  BY Arrays, <1>1 DEF Linked, Unserved
<1>3. CASE t # s
  <2>1. Begun(t)' = Begun(t) /\ Stream(t)' = Stream(t)
    BY Arrays, <1>1, <1>3 DEF Begun, Stream
  <2> QED
    BY <1>1, <1>2, <2>1, InOrderKept
<1>4. CASE t = s
  <2>1. wire[s] \in Seq(Frame) /\ engine[s] \in Seq(Frame)
    BY Arrays
  <2>2. wire'[s] = Tail(wire[s])
    BY Arrays, <1>1
  <2>3. /\ wire[s] \o engine[s] \in Seq(Frame) /\ wire[s] \o engine[s] # <<>>
        /\ Tail(wire[s]) \o engine[s] = Tail(wire[s] \o engine[s])
    BY <1>1, <2>1, StreamPop
  <2>4. /\ Stream(s) \in Seq(Frame) /\ Stream(s) # <<>>
        /\ Stream(s)' = Tail(Stream(s))
    BY <1>1, <2>2, <2>3 DEF Stream
  <2>5. Written(s)' = Written(s)
    BY <1>1 DEF Written
  <2>6. Written(s) \in Nat /\ joinedAt[s] \in Nat
    BY WrittenIsPosted
  <2>7. StreamIsWindow(log, joinedAt[s], Written(s), Stream(s))
          => StreamIsWindow(log, joinedAt[s], Written(s), Tail(Stream(s)))
    BY <2>4, <2>6, FrameReceived
  <2>8. InOrder(s)'
    BY <1>1, <1>4, <2>4, <2>5, <2>7 DEF InOrder
  <2> QED
    BY <1>2, <1>4, <2>8
<1> QED
  BY <1>3, <1>4

-----------------------------------------------------------------------------
(* The theorem *)

LEMMA QuietStep ==
  ASSUME IInv, NEW s \in Sessions,
         \/ Setup(s) \/ Dispatch(s) \/ Writer(s) \/ Transmit(s) \/ Disconnect(s)
         \/ \E req \in Requests : ClientSend(s, req),
         NEW t \in Sessions, Linked(t), Unserved(t), InOrder(t)
  PROVE  Linked(t)' /\ Unserved(t)' /\ InOrder(t)' /\ Keeps(t)
<1>1. CASE Setup(s)
  BY <1>1, SetupLinked, SetupInOrder
<1>2. CASE Dispatch(s)
  BY <1>2, AuthWire, AnswerEndsWire, PostWire, SkipWire DEF Dispatch
<1>3. CASE Writer(s)
  BY <1>3, WriteDoneWire, WriteErrorWire DEF Writer
<1>4. CASE Transmit(s)
  BY <1>4, TransmitWire
<1>5. CASE Disconnect(s) \/ \E req \in Requests : ClientSend(s, req)
  BY <1>5, ClientWire
<1> QED
  BY <1>1, <1>2, <1>3, <1>4, <1>5

LEMMA SessionStep ==
  ASSUME IInv, [Next]_vars, NEW t \in Sessions, Linked(t), Unserved(t), InOrder(t)
  PROVE  Linked(t)' /\ Unserved(t)' /\ InOrder(t)'
<1>1. CASE UNCHANGED vars
  <2>1. UNCHANGED <<room, pc, queueOp, engine, wire, link, log, joinedAt, delivered>>
    BY <1>1 DEF vars
  <2>2. Linked(t)' /\ Unserved(t)' /\ Begun(t)' = Begun(t) /\ Stream(t)' = Stream(t)
    BY <2>1 DEF Linked, Unserved, Begun, Stream
  <2> QED
    BY <2>1, <2>2, InOrderKept
<1>2. CASE Next
  BY <1>2, QuietStep, ReceiveWire DEF Next, Client
<1> QED
  BY <1>1, <1>2

LEMMA WireStep == WireInv /\ [Next]_vars => WireInv'
<1> SUFFICES ASSUME WireInv, [Next]_vars PROVE WireInv'
  OBVIOUS
<1>1. IInv /\ IInv'
  BY NextInv DEF WireInv
<1>2. ASSUME NEW t \in Sessions PROVE Linked(t)' /\ Unserved(t)' /\ InOrder(t)'
  BY <1>1, SessionStep DEF WireInv
<1> QED
  BY <1>1, <1>2 DEF WireInv

(* What a client receives: an answer, or the message of the log behind the *)
(* last one it received, which can be garbage if it is the first.          *)
LEMMA NextReceived ==
  ASSUME IInv, NEW s \in Sessions, ClientReceive(s), InOrder(s), s \in room
  PROVE  LET f == Head(wire[s])
         IN  /\ f \in Frame
             /\ f.kind = "answer" => Received(s)' = Received(s)
             /\ f.kind # "answer" =>
                  /\ Received(s)' = Received(s) + 1
                  /\ Received(s) \in Nat /\ Received(s) + 1 <= Len(log)
                  /\ IsMessage(log, joinedAt[s], f, Received(s) + 1)
<1> DEFINE f == Head(wire[s])
           g == Stream(s)
<1>1. wire[s] \in Seq(Frame) /\ engine[s] \in Seq(Frame)
  BY Arrays
<1>2. /\ link[s] /\ wire[s] # <<>> /\ wire'[s] = Tail(wire[s])
      /\ UNCHANGED <<queueOp, engine, log, joinedAt, delivered>>
  BY Arrays DEF ClientReceive
<1>3. /\ g \in Seq(Frame) /\ g # <<>>
      /\ Stream(s)' = Tail(g)
      /\ Head(g) = f /\ f \in Frame
  <2>1. /\ wire[s] \o engine[s] \in Seq(Frame) /\ wire[s] \o engine[s] # <<>>
        /\ Tail(wire[s]) \o engine[s] = Tail(wire[s] \o engine[s])
        /\ Head(wire[s] \o engine[s]) = Head(wire[s])
    BY <1>1, <1>2, StreamPop
  <2>2. Head(wire[s]) \in Frame
    BY <1>1, <1>2, PopSeq
  <2> QED
    BY <1>2, <2>1, <2>2 DEF Stream
<1>4. Written(s)' = Written(s) /\ Written(s) \in 0..Len(log) /\ joinedAt[s] \in Nat
  BY <1>2, WrittenIsPosted DEF Written
<1>5. Len(log) \in Nat
  BY DEF IInv, TypeOK
<1> HIDE DEF g
<1>6. Cardinality(ChatsAfter(Tail(g), 0)) = Cardinality(ChatsAfter(g, 0 + 1))
  BY <1>3, ChatsAfterTail
<1>7. /\ Cardinality(ChatsAfter(g, 0))
           = Cardinality(ChatsAfter(g, 1)) + (IF f.kind = "answer" THEN 0 ELSE 1)
      /\ Cardinality(ChatsAfter(g, 1)) \in Nat
  BY <1>3, ChatsAfterFirst, ChatsAfterFinite
<1>8. /\ Received(s)' = Written(s) - Cardinality(ChatsAfter(g, 1))
      /\ Received(s) = Written(s) - Cardinality(ChatsAfter(g, 0))
  <2>1. Received(s)' = Written(s)' - Cardinality(ChatsAfter(Tail(g), 0))
    BY <1>3 DEF Received
  <2> QED
    BY <1>4, <1>6, <2>1 DEF Received, g
<1>9. ASSUME f.kind # "answer"
      PROVE  IsMessage(log, joinedAt[s], f, Written(s) - Cardinality(ChatsAfter(g, 1)))
  <2>1. StreamIsWindow(log, joinedAt[s], Written(s), g)
    BY <1>2 DEF InOrder, g
  <2>2. g[1] = f /\ 1 \in 1..Len(g)
    BY <1>3, PopSeq
  <2> HIDE DEF f
  <2> QED
    BY <1>9, <2>1, <2>2 DEF StreamIsWindow
<1> HIDE DEF f
<1>10. CASE f.kind = "answer"
  BY <1>3, <1>4, <1>7, <1>8, <1>10 DEF f
<1>11. CASE f.kind # "answer"
  <2> DEFINE p == Written(s) - Cardinality(ChatsAfter(g, 1))
  <2>1. Received(s)' = p /\ p = Received(s) + 1 /\ Received(s) \in Int /\ p <= Len(log)
    BY <1>4, <1>5, <1>7, <1>8, <1>11
  <2>2. IsMessage(log, joinedAt[s], f, p)
    BY <1>9, <1>11
  <2> HIDE DEF p
  <2>3. p > joinedAt[s]
    BY <2>2 DEF IsMessage
  <2>4. Received(s) \in Nat
    BY <1>4, <2>1, <2>3
  <2> QED
    BY <1>3, <1>11, <2>1, <2>2, <2>4 DEF f
<1> QED
  BY <1>10, <1>11

THEOREM WireInvariance == Spec => []WireInv
BY InitWire, WireStep, PTL DEF Spec

(* The frames of a session of the room that are on their way to its client *)
(* are, apart from answers, a run of the log that ends with the last       *)
(* message its writer has begun with (the two writers of Session on one    *)
(* TLS stream).                                                            *)
THEOREM MessagesInOrder == Spec => []WireIsWindow
<1>1. WireInv => WireIsWindow
  BY DEF WireInv, IInv, TypeOK, InOrder, WireIsWindow
<1> QED
  BY <1>1, WireInvariance, PTL

=============================================================================
