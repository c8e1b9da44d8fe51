-------------------------- MODULE CppServerProofs ---------------------------
(***************************************************************************)
(* The raw pointers of wschat-cpp never dangle, one write is outstanding   *)
(* at a time, every user is shown their own "connect" first and everybody  *)
(* else's session in order, for any number of connections, threads and     *)
(* messages; with one thread, any two registered users have been sent the  *)
(* same since the later one joined.                                        *)
(***************************************************************************)
EXTENDS CppServer, SequenceTheorems, FiniteSetTheorems, TLAPS

\* A call on the stack of a thread.
StackFrame ==
    [op : {"connect", "chat", "dtor", "drop"}, c : Conns, m : Frame,
     pc : {"lock", "loop", "finish", "drop"}, todo : SUBSET Conns]

\* A write that is outstanding is that of the head of the queue.
WritesHead == \A c \in Conns : writing[c] > 0 => queue[c] # <<>>

\* Types, and with them that writes are one at a time.
TypeInv == TypeOK /\ OneWrite /\ WritesHead

-----------------------------------------------------------------------------
(* Sequences *)

\* What a frame put on a stack leaves below it.
LEMMA PushSeq ==
    ASSUME NEW S, NEW s \in Seq(S), NEW x \in S
    PROVE  /\ <<x>> \o s \in Seq(S) /\ <<x>> \o s # <<>>
           /\ \A i \in DOMAIN (<<x>> \o s) :
                 (<<x>> \o s)[i] = x \/ \E j \in DOMAIN s : (<<x>> \o s)[i] = s[j]
<1>1. /\ <<x>> \o s \in Seq(S) /\ Len(<<x>> \o s) = Len(s) + 1 /\ Len(s) \in Nat
      /\ (<<x>> \o s)[1] = x
      /\ \A i \in 1..Len(s) : (<<x>> \o s)[i + 1] = s[i]
  OBVIOUS
<1>2. ASSUME NEW i \in DOMAIN (<<x>> \o s), i # 1
      PROVE  \E j \in DOMAIN s : (<<x>> \o s)[i] = s[j]
  <2>1. i - 1 \in 1..Len(s) /\ (i - 1) + 1 = i
    BY <1>1, <1>2
  <2>2. (<<x>> \o s)[i] = s[i - 1]
    BY <1>1, <2>1
  <2> QED BY <2>1, <2>2
<1>3. <<x>> \o s # <<>>
  BY <1>1
<1> QED BY <1>1, <1>2, <1>3

\* The same for two frames at once.
LEMMA PushTwoSeq ==
    ASSUME NEW S, NEW s \in Seq(S), NEW x \in S, NEW y \in S
    PROVE  \A i \in DOMAIN (<<x, y>> \o s) :
              \/ (<<x, y>> \o s)[i] = x \/ (<<x, y>> \o s)[i] = y
              \/ \E j \in DOMAIN s : (<<x, y>> \o s)[i] = s[j]
<1>1. /\ Len(<<x, y>> \o s) = Len(s) + 2 /\ Len(s) \in Nat
      /\ (<<x, y>> \o s)[1] = x /\ (<<x, y>> \o s)[2] = y
      /\ \A i \in 1..Len(s) : (<<x, y>> \o s)[i + 2] = s[i]
      /\ <<x, y>> \o s \in Seq(S)
  OBVIOUS
<1>2. ASSUME NEW i \in DOMAIN (<<x, y>> \o s), i # 1, i # 2
      PROVE  \E j \in DOMAIN s : (<<x, y>> \o s)[i] = s[j]
  <2>1. i - 2 \in 1..Len(s) /\ (i - 2) + 2 = i
    BY <1>1, <1>2
  <2>2. (<<x, y>> \o s)[i] = s[i - 2]
    BY <1>1, <2>1
  <2> QED BY <2>1, <2>2
<1> QED BY <1>1, <1>2

\* What is below the top of a stack.
LEMMA TailSeq ==
    ASSUME NEW S, NEW s \in Seq(S), s # <<>>
    PROVE  /\ Tail(s) \in Seq(S) /\ Head(s) \in S /\ Head(s) = s[1] /\ 1 \in DOMAIN s
           /\ \A i \in DOMAIN Tail(s) : \E j \in DOMAIN s : j # 1 /\ Tail(s)[i] = s[j]
<1>1. /\ Tail(s) \in Seq(S) /\ Len(Tail(s)) = Len(s) - 1 /\ Len(s) \in Nat /\ Len(s) >= 1
      /\ Head(s) = s[1] /\ s[1] \in S
      /\ \A i \in 1..(Len(s) - 1) : Tail(s)[i] = s[i + 1]
      /\ DOMAIN s = 1..Len(s) /\ DOMAIN Tail(s) = 1..(Len(s) - 1)
  OBVIOUS
<1>2. ASSUME NEW i \in DOMAIN Tail(s) PROVE \E j \in DOMAIN s : j # 1 /\ Tail(s)[i] = s[j]
  <2>1. i + 1 \in DOMAIN s /\ i + 1 # 1 /\ Tail(s)[i] = s[i + 1]
    BY <1>1
  <2> QED BY <2>1
<1> QED BY <1>1, <1>2

-----------------------------------------------------------------------------
(* Type correctness *)

\* Every message of the server is a frame of the wire.
LEMMA FrameTypes ==
    /\ \A c \in Conns : Connected(c) \in Frame /\ Disconnected(c) \in Frame /\ ErrorTo(c) \in Frame
    /\ \A a \in Actions, c \in Conns, k \in Ordinals : NewChatMessage(a, c, k) \in Frame
    /\ \A c \in Conns : Drop(c) \in StackFrame
    /\ \A op \in {"connect", "chat", "dtor"}, c \in Conns, m \in Frame :
          Broadcast(op, c, m) \in StackFrame
BY CppAssumption DEF Connected, Disconnected, ErrorTo, NewSystemMessage, NewChatMessage,
   Frame, Message, Drop, Broadcast, StackFrame

\* Stacks stay stacks of frames.
LEMMA StackTypes ==
    ASSUME stack \in [Threads -> Seq(StackFrame)], NEW t \in Threads
    PROVE  /\ \A f \in StackFrame : Push(t, f) => stack' \in [Threads -> Seq(StackFrame)]
           /\ ~Idle(t) =>
                /\ Top(t) \in StackFrame
                /\ \A f \in StackFrame : Replace(t, f) => stack' \in [Threads -> Seq(StackFrame)]
                /\ Pop(t) => stack' \in [Threads -> Seq(StackFrame)]
                /\ \A f, g \in StackFrame :
                      stack' = [stack EXCEPT ![t] = <<f, g>> \o Tail(@)] =>
                          stack' \in [Threads -> Seq(StackFrame)]
<1>1. stack[t] \in Seq(StackFrame)
  OBVIOUS
<1>2. \A f \in StackFrame : <<f>> \o stack[t] \in Seq(StackFrame)
  BY <1>1, PushSeq
<1>3. ASSUME ~Idle(t)
      PROVE  /\ Top(t) \in StackFrame /\ Tail(stack[t]) \in Seq(StackFrame)
             /\ \A f, g \in StackFrame : <<f>> \o Tail(stack[t]) \in Seq(StackFrame)
             /\ \A f, g \in StackFrame : <<f, g>> \o Tail(stack[t]) \in Seq(StackFrame)
  <2>1. Top(t) \in StackFrame /\ Tail(stack[t]) \in Seq(StackFrame)
    BY <1>1, <1>3, TailSeq DEF Idle, Top
  <2>2. \A f \in StackFrame : <<f>> \o Tail(stack[t]) \in Seq(StackFrame)
    BY <2>1, PushSeq
  <2>3. \A f, g \in StackFrame : <<f, g>> \in Seq(StackFrame)
    OBVIOUS
  <2>4. \A f, g \in StackFrame : <<f, g>> \o Tail(stack[t]) \in Seq(StackFrame)
    BY <2>1, <2>3
  <2> QED BY <2>1, <2>2, <2>4
<1> QED BY <1>2, <1>3 DEF Push, Replace, Pop

\* The queues of a connection stay queues.
LEMMA QueueTypes ==
    ASSUME NEW S, NEW q \in Seq(S)
    PROVE  /\ \A x \in S : Append(q, x) \in Seq(S) /\ Append(q, x) # <<>>
           /\ q = <<>> => \A x : Len(Append(q, x)) <= 1
           /\ q # <<>> => \A x : ~(Len(Append(q, x)) <= 1)
           /\ q # <<>> => Head(q) \in S /\ Tail(q) \in Seq(S)
<1>1. Len(q) \in Nat /\ (q = <<>> <=> Len(q) = 0)
  OBVIOUS
<1>2. \A x : Len(Append(q, x)) = Len(q) + 1
  OBVIOUS
<1>3. \A x \in S : Append(q, x) \in Seq(S) /\ Append(q, x) # <<>>
  BY <1>1, <1>2
<1>4. q # <<>> => Head(q) \in S /\ Tail(q) \in Seq(S)
  OBVIOUS
<1> QED BY <1>1, <1>2, <1>3, <1>4

\* What a broadcast, a release and an accept post is typed.
LEMMA PostType ==
    ASSUME TypeOK, NEW c \in Conns, NEW m \in Frame, Post(c, m)
    PROVE  posted' \in [Conns -> Seq(Frame)]
<1>1. Append(posted[c], m) \in Seq(Frame)
  BY QueueTypes DEF TypeOK
<1> QED BY <1>1 DEF Post, TypeOK

\* The server starts well typed, with nothing to write.
LEMMA TypeInit == Init => TypeInv
BY CppAssumption DEF Init, TypeInv, TypeOK, OneWrite, WritesHead

\* No step takes the state out of its type, or starts a second write.
LEMMA TypeStep == TypeInv /\ [Next]_vars => TypeInv'
<1> SUFFICES ASSUME TypeInv, [Next]_vars PROVE TypeInv'
  OBVIOUS
<1> USE DEF cvars, uvars
<1>0. TypeOK /\ stack \in [Threads -> Seq(StackFrame)]
  BY DEF TypeInv, TypeOK, StackFrame
<1>1. ASSUME NEW t \in Threads, Inside(t) PROVE TypeInv'
  <2>1. ~Idle(t) /\ Top(t) \in StackFrame /\ Top(t).c \in Conns /\ Top(t).m \in Frame
        /\ Top(t).todo \subseteq Conns /\ clients \subseteq Conns
    BY <1>0, <1>1, StackTypes DEF Inside, LockShared, Visit, Unlock, Insert, ReadOn, Erase,
                                  Release, StackFrame, TypeOK
  <2>2. CASE LockShared(t) \/ Unlock(t)
    <3>1. PICK f \in StackFrame : Replace(t, f)
      BY <2>1, <2>2 DEF LockShared, Unlock, StackFrame
    <3>2. stack' \in [Threads -> Seq(StackFrame)]
      BY <1>0, <2>1, <3>1, StackTypes
    <3> QED BY <2>2, <3>2 DEF LockShared, Unlock, TypeInv, TypeOK, OneWrite, WritesHead, StackFrame
  <2>3. CASE Visit(t)
    <3>1. PICK d \in Top(t).todo :
            \/ Replace(t, [Top(t) EXCEPT !.todo = @ \ {d}]) /\ UNCHANGED posted
            \/ /\ stack' = [stack EXCEPT ![t] =
                               <<Drop(d), [Top(t) EXCEPT !.todo = @ \ {d}]>> \o Tail(@)]
               /\ Post(d, Top(t).m)
      BY <2>3 DEF Visit
    <3>2. [Top(t) EXCEPT !.todo = @ \ {d}] \in StackFrame /\ Drop(d) \in StackFrame
      BY <2>1, FrameTypes DEF StackFrame
    <3>3. stack' \in [Threads -> Seq(StackFrame)]
      BY <1>0, <2>1, <3>1, <3>2, StackTypes
    <3>4. posted' \in [Conns -> Seq(Frame)]
      BY <1>0, <2>1, <3>1, PostType DEF TypeOK
    <3> QED BY <2>3, <3>3, <3>4 DEF Visit, TypeInv, TypeOK, OneWrite, WritesHead, StackFrame
  <2>4. CASE Insert(t) \/ ReadOn(t)
    <3>1. Drop(Top(t).c) \in StackFrame
      BY <2>1, FrameTypes
    <3>2. stack' \in [Threads -> Seq(StackFrame)]
      BY <1>0, <2>1, <2>4, <3>1, StackTypes DEF Insert, ReadOn
    <3> QED BY <2>1, <2>4, <3>2 DEF Insert, ReadOn, TypeInv, TypeOK, OneWrite, WritesHead,
                                    StackFrame
  <2>5. CASE Erase(t)
    <3>1. stack' \in [Threads -> Seq(StackFrame)]
      BY <1>0, <2>1, <2>5, StackTypes DEF Erase
    <3> QED BY <2>1, <2>5, <3>1 DEF Erase, TypeInv, TypeOK, OneWrite, WritesHead, StackFrame
  <2>6. CASE Release(t)
    <3>1. Broadcast("dtor", Top(t).c, Disconnected(Top(t).c)) \in StackFrame
      BY <2>1, FrameTypes
    <3>2. stack' \in [Threads -> Seq(StackFrame)]
      BY <1>0, <2>1, <2>6, <3>1, StackTypes DEF Release
    <3> QED BY <2>1, <2>6, <3>2 DEF Release, TypeInv, TypeOK, OneWrite, WritesHead, StackFrame
  <2> QED BY <1>1, <2>2, <2>3, <2>4, <2>5, <2>6 DEF Inside
<1>2. ASSUME NEW t \in Threads, NEW c \in Conns, Upgrade(t, c) PROVE TypeInv'
  BY <1>2 DEF Upgrade, TypeInv, TypeOK, OneWrite, WritesHead
<1>3. ASSUME NEW t \in Threads, NEW c \in Conns, Accept(t, c) PROVE TypeInv'
  <2>1. Broadcast("connect", c, Connected(c)) \in StackFrame /\ Connected(c) \in Frame
    BY FrameTypes
  <2>2. stack' \in [Threads -> Seq(StackFrame)] /\ posted' \in [Conns -> Seq(Frame)]
    BY <1>0, <1>3, <2>1, StackTypes, PostType DEF Accept
  <2> QED BY <1>3, <2>2 DEF Accept, TypeInv, TypeOK, OneWrite, WritesHead, StackFrame
<1>4. ASSUME NEW t \in Threads, NEW c \in Conns, AcceptFails(t, c) \/ HandleFails(t, c)
      PROVE  TypeInv'
  <2>1. stack' \in [Threads -> Seq(StackFrame)]
    BY <1>0, <1>4, FrameTypes, StackTypes DEF AcceptFails, HandleFails
  <2> QED BY <1>4, <2>1 DEF AcceptFails, HandleFails, TypeInv, TypeOK, OneWrite, WritesHead,
                            StackFrame
<1>5. ASSUME NEW t \in Threads, NEW c \in Conns, Handle(t, c) PROVE TypeInv'
  <2>1. said[c] + 1 \in Ordinals /\ said' \in [Conns -> 0..MaxChats]
    BY <1>5, CppAssumption DEF Handle, Ordinals, TypeInv, TypeOK
  <2>2. PICK f \in StackFrame : Push(t, f)
    BY <1>5, <2>1, FrameTypes DEF Handle
  <2>3. stack' \in [Threads -> Seq(StackFrame)]
    BY <1>0, <2>2, StackTypes
  <2> QED BY <1>5, <2>1, <2>3 DEF Handle, TypeInv, TypeOK, OneWrite, WritesHead, StackFrame
<1>6. ASSUME NEW t \in Threads, NEW c \in Conns, HandleBad(t, c) PROVE TypeInv'
  <2>1. posted' \in [Conns -> Seq(Frame)]
    BY <1>0, <1>6, FrameTypes, PostType DEF HandleBad
  <2>2. bad' \in [Conns -> 0..MaxBad]
    BY <1>6, CppAssumption DEF HandleBad, TypeInv, TypeOK
  <2> QED BY <1>6, <2>1, <2>2 DEF HandleBad, TypeInv, TypeOK, OneWrite, WritesHead
<1>7. ASSUME NEW t \in Threads, NEW c \in Conns, OnSend(t, c) PROVE TypeInv'
  <2>1. stack' \in [Threads -> Seq(StackFrame)]
    BY <1>0, <1>7, FrameTypes, StackTypes DEF OnSend
  <2>2. /\ posted[c] \in Seq(Frame) /\ queue[c] \in Seq(Frame) /\ posted[c] # <<>>
        /\ writing[c] \in Nat /\ writing[c] <= 1 /\ (writing[c] > 0 => queue[c] # <<>>)
    BY <1>7 DEF OnSend, TypeInv, TypeOK, OneWrite, WritesHead
  <2>3. Tail(posted[c]) \in Seq(Frame) /\ Head(posted[c]) \in Frame
    BY <2>2, QueueTypes
  <2>4. Append(queue[c], Head(posted[c])) \in Seq(Frame) /\ Append(queue[c], Head(posted[c])) # <<>>
        /\ (MustStartWrite(Append(queue[c], Head(posted[c]))) => queue[c] = <<>>)
    BY <2>2, <2>3, QueueTypes DEF MustStartWrite
  <2>5. /\ queue' = [queue EXCEPT ![c] = Append(queue[c], Head(posted[c]))]
        /\ queue'[c] = Append(queue[c], Head(posted[c]))
    BY <1>7 DEF OnSend, TypeInv, TypeOK
  <2>6. /\ writing' \in [Conns -> Nat]
        /\ \A d \in Conns : writing'[d] <= 1 /\ (writing'[d] > 0 => queue'[d] # <<>>)
    BY <1>7, <2>2, <2>4, <2>5 DEF OnSend, TypeInv, TypeOK, OneWrite, WritesHead
  <2>7. posted' \in [Conns -> Seq(Frame)] /\ queue' \in [Conns -> Seq(Frame)]
    BY <1>7, <2>3, <2>4, <2>5 DEF OnSend, TypeInv, TypeOK
  <2> QED BY <1>7, <2>1, <2>6, <2>7 DEF OnSend, TypeInv, TypeOK, OneWrite, WritesHead, StackFrame
<1>8. ASSUME NEW t \in Threads, NEW c \in Conns, OnWrite(t, c) PROVE TypeInv'
  <2>1. stack' \in [Threads -> Seq(StackFrame)]
    BY <1>0, <1>8, FrameTypes, StackTypes DEF OnWrite
  <2>2. /\ wire[c] \in Seq(Frame) /\ queue[c] \in Seq(Frame) /\ queue[c] # <<>>
        /\ writing[c] = 1
    BY <1>8 DEF OnWrite, TypeInv, TypeOK, OneWrite, WritesHead
  <2>3. Tail(queue[c]) \in Seq(Frame) /\ Head(queue[c]) \in Frame
    BY <2>2, QueueTypes
  <2>4. Append(wire[c], Head(queue[c])) \in Seq(Frame)
    BY <2>2, <2>3, QueueTypes
  <2>5. queue' = [queue EXCEPT ![c] = Tail(queue[c])] /\ queue'[c] = Tail(queue[c])
    BY <1>8 DEF OnWrite, TypeInv, TypeOK
  <2>6. /\ writing' \in [Conns -> Nat]
        /\ \A d \in Conns : writing'[d] <= 1 /\ (writing'[d] > 0 => queue'[d] # <<>>)
    BY <1>8, <2>2, <2>5 DEF OnWrite, TypeInv, TypeOK, OneWrite, WritesHead
  <2>7. wire' \in [Conns -> Seq(Frame)] /\ queue' \in [Conns -> Seq(Frame)]
    BY <1>8, <2>3, <2>4, <2>5 DEF OnWrite, TypeInv, TypeOK
  <2> QED BY <1>8, <2>1, <2>6, <2>7 DEF OnWrite, TypeInv, TypeOK, OneWrite, WritesHead, StackFrame
<1>9. ASSUME NEW t \in Threads, NEW c \in Conns, OnWriteFails(t, c) PROVE TypeInv'
  <2>1. stack' \in [Threads -> Seq(StackFrame)]
    BY <1>0, <1>9, FrameTypes, StackTypes DEF OnWriteFails
  <2>2. /\ writing' \in [Conns -> Nat]
        /\ \A d \in Conns : writing'[d] <= 1 /\ (writing'[d] > 0 => queue[d] # <<>>)
    BY <1>9 DEF OnWriteFails, TypeInv, TypeOK, OneWrite, WritesHead
  <2> QED BY <1>9, <2>1, <2>2 DEF OnWriteFails, TypeInv, TypeOK, OneWrite, WritesHead, StackFrame
<1>10. ASSUME NEW c \in Conns, PeerGone(c) PROVE TypeInv'
  BY <1>10 DEF PeerGone, TypeInv, TypeOK, OneWrite, WritesHead
<1>11. CASE UNCHANGED vars
  BY <1>11 DEF vars, TypeInv, TypeOK, OneWrite, WritesHead
<1> QED BY <1>1, <1>2, <1>3, <1>4, <1>5, <1>6, <1>7, <1>8, <1>9, <1>10, <1>11
        DEF Next, Completion, UserStep

\* Every state of the server is well typed.
THEOREM TypeCorrect == Spec => []TypeOK
<1>1. TypeInv => TypeOK
  BY DEF TypeInv
<1> QED BY TypeInit, TypeStep, <1>1, PTL DEF Spec

\* Beast is never asked to write while a write is outstanding: on_send starts one only
\* onto an empty queue, and on_write goes on only while the queue is not.
THEOREM WritesInTurn == Spec => []OneWrite
<1>1. TypeInv => OneWrite
  BY DEF TypeInv
<1> QED BY TypeInit, TypeStep, <1>1, PTL DEF Spec

-----------------------------------------------------------------------------

(* Raw pointers *)

\* The destructor of c has not begun.
Alive(c) == conn[c] \notin {"dying", "freed"}

\* A frame holds raw pointers only in its loop and none to freed memory, and only the
\* destructor holds on to a WsConn that is being destroyed.
Sound(f) ==
    /\ f.todo # {} => f.pc = "loop"
    /\ \A d \in f.todo : conn[d] # "freed"
    /\ f.op = "dtor" <=> ~Alive(f.c)

SoundFrames == \A t \in Threads : \A i \in DOMAIN stack[t] : Sound(stack[t][i])

\* Nothing is outstanding for a WsConn once its destructor runs.
Outstanding == \A c \in Conns : reading[c] \/ writing[c] > 0 \/ posted[c] # <<>> => Alive(c)

\* No raw pointer is to freed memory, in a loop or on the list.
Pointers == SoundFrames /\ Outstanding /\ \A c \in clients : conn[c] # "freed"

\* Frames are the places of the stacks.
LEMMA Places ==
    /\ \A f \in Frames : f[1] \in Threads /\ f[2] \in DOMAIN stack[f[1]]
    /\ \A t \in Threads : \A i \in DOMAIN stack[t] :
          <<t, i>> \in Frames /\ At(<<t, i>>) = stack[t][i]
BY DEF Frames, At

\* What the stacks hold after a step of thread t, in terms of what they held before.
LEMMA FramesAfter ==
    ASSUME stack \in [Threads -> Seq(StackFrame)], NEW t \in Threads, NEW u \in Threads
    PROVE  /\ \A f \in StackFrame : Push(t, f) =>
                \A i \in DOMAIN stack'[u] : \/ stack'[u][i] = f
                                            \/ \E j \in DOMAIN stack[u] : stack'[u][i] = stack[u][j]
           /\ ~Idle(t) =>
                /\ Top(t) = stack[t][1] /\ 1 \in DOMAIN stack[t]
                /\ \A f \in StackFrame : Replace(t, f) =>
                      \A i \in DOMAIN stack'[u] :
                          \/ stack'[u][i] = f
                          \/ \E j \in DOMAIN stack[u] :
                                 <<u, j>> # <<t, 1>> /\ stack'[u][i] = stack[u][j]
                /\ Pop(t) =>
                      \A i \in DOMAIN stack'[u] : \E j \in DOMAIN stack[u] :
                          <<u, j>> # <<t, 1>> /\ stack'[u][i] = stack[u][j]
                /\ \A f, g \in StackFrame :
                      stack' = [stack EXCEPT ![t] = <<f, g>> \o Tail(@)] =>
                      \A i \in DOMAIN stack'[u] :
                          \/ stack'[u][i] = f \/ stack'[u][i] = g
                          \/ \E j \in DOMAIN stack[u] :
                                 <<u, j>> # <<t, 1>> /\ stack'[u][i] = stack[u][j]
<1>1. stack[t] \in Seq(StackFrame)
  OBVIOUS
<1>2. ASSUME NEW f \in StackFrame, Push(t, f), NEW i \in DOMAIN stack'[u]
      PROVE  stack'[u][i] = f \/ \E j \in DOMAIN stack[u] : stack'[u][i] = stack[u][j]
  <2>1. CASE u = t
    <3>1. stack'[u] = <<f>> \o stack[t]
      BY <1>2, <2>1 DEF Push
    <3> QED BY <1>1, <1>2, <2>1, <3>1, PushSeq
  <2>2. CASE u # t
    <3>1. stack'[u] = stack[u]
      BY <1>2, <2>2 DEF Push
    <3> QED BY <1>2, <3>1
  <2> QED BY <2>1, <2>2
<1>3. ASSUME ~Idle(t)
      PROVE  /\ Top(t) = stack[t][1] /\ 1 \in DOMAIN stack[t]
             /\ Tail(stack[t]) \in Seq(StackFrame)
             /\ \A i \in DOMAIN Tail(stack[t]) :
                   \E j \in DOMAIN stack[t] : j # 1 /\ Tail(stack[t])[i] = stack[t][j]
  BY <1>1, <1>3, TailSeq DEF Idle, Top
<1>4. ASSUME ~Idle(t), NEW f \in StackFrame, Replace(t, f), NEW i \in DOMAIN stack'[u]
      PROVE  \/ stack'[u][i] = f
             \/ \E j \in DOMAIN stack[u] : <<u, j>> # <<t, 1>> /\ stack'[u][i] = stack[u][j]
  <2>1. CASE u = t
    <3>1. stack'[u] = <<f>> \o Tail(stack[t])
      BY <1>4, <2>1 DEF Replace
    <3>2. stack'[u][i] = f \/ \E k \in DOMAIN Tail(stack[t]) : stack'[u][i] = Tail(stack[t])[k]
      BY <1>3, <1>4, <3>1, PushSeq
    <3> QED BY <1>3, <1>4, <2>1, <3>2
  <2>2. CASE u # t
    <3>1. stack'[u] = stack[u]
      BY <1>4, <2>2 DEF Replace
    <3> QED BY <1>4, <2>2, <3>1
  <2> QED BY <2>1, <2>2
<1>5. ASSUME ~Idle(t), Pop(t), NEW i \in DOMAIN stack'[u]
      PROVE  \E j \in DOMAIN stack[u] : <<u, j>> # <<t, 1>> /\ stack'[u][i] = stack[u][j]
  <2>1. CASE u = t
    <3>1. stack'[u] = Tail(stack[t])
      BY <1>5, <2>1 DEF Pop
    <3> QED BY <1>3, <1>5, <2>1, <3>1
  <2>2. CASE u # t
    <3>1. stack'[u] = stack[u]
      BY <1>5, <2>2 DEF Pop
    <3> QED BY <1>5, <2>2, <3>1
  <2> QED BY <2>1, <2>2
<1>6. ASSUME ~Idle(t), NEW f \in StackFrame, NEW g \in StackFrame,
             stack' = [stack EXCEPT ![t] = <<f, g>> \o Tail(@)], NEW i \in DOMAIN stack'[u]
      PROVE  \/ stack'[u][i] = f \/ stack'[u][i] = g
             \/ \E j \in DOMAIN stack[u] : <<u, j>> # <<t, 1>> /\ stack'[u][i] = stack[u][j]
  <2>1. CASE u = t
    <3> DEFINE s == Tail(stack[t])
    <3>1. stack'[u] = <<f, g>> \o s
      BY <1>6, <2>1
    <3>2. s \in Seq(StackFrame)
      BY <1>3, <1>6
    <3> HIDE DEF s
    <3>3. \A k \in DOMAIN (<<f, g>> \o s) :
            \/ (<<f, g>> \o s)[k] = f \/ (<<f, g>> \o s)[k] = g
            \/ \E l \in DOMAIN s : (<<f, g>> \o s)[k] = s[l]
      BY <1>6, <3>2, PushTwoSeq
    <3>4. stack'[u][i] = f \/ stack'[u][i] = g \/ \E k \in DOMAIN s : stack'[u][i] = s[k]
      BY <1>6, <3>1, <3>3, Zenon
    <3> QED BY <1>3, <1>6, <2>1, <3>4 DEF s
  <2>2. CASE u # t
    <3>1. stack'[u] = stack[u]
      BY <1>6, <2>2
    <3> QED BY <1>6, <2>2, <3>1
  <2> QED BY <2>1, <2>2
<1> QED BY <1>2, <1>3, <1>4, <1>5, <1>6

\* No frame holds a raw pointer outside the shared section.
LEMMA Unlocked ==
    ASSUME SoundFrames, ~SharedLocked, NEW t \in Threads, NEW i \in DOMAIN stack[t]
    PROVE  stack[t][i].todo = {}
<1>1. <<t, i>> \in Frames /\ At(<<t, i>>) = stack[t][i]
  BY Places
<1>2. stack[t][i].pc # "loop"
  BY <1>1 DEF SharedLocked
<1>3. Sound(stack[t][i])
  BY DEF SoundFrames
<1> QED BY <1>2, <1>3 DEF Sound

\* At the start nobody is registered and no frame exists.
LEMMA PointersInit == Init => Pointers
BY DEF Init, Pointers, SoundFrames, Outstanding, Alive

\* Stacks whose frames were sound before a step are, by the same life of the WsConns,
\* if what the step puts on them is.
LEMMA SoundAfter ==
    ASSUME SoundFrames, stack \in [Threads -> Seq(StackFrame)], NEW t \in Threads,
           NEW f \in StackFrame, NEW g \in StackFrame, Sound(f), Sound(g),
           \/ Push(t, f)
           \/ ~Idle(t) /\ Replace(t, f)
           \/ ~Idle(t) /\ Pop(t)
           \/ ~Idle(t) /\ stack' = [stack EXCEPT ![t] = <<f, g>> \o Tail(@)]
    PROVE  \A u \in Threads : \A i \in DOMAIN stack'[u] :
              stack'[u][i] \in StackFrame /\ Sound(stack'[u][i])
<1> TAKE u \in Threads
<1> TAKE i \in DOMAIN stack'[u]
<1>1. \/ stack'[u][i] = f \/ stack'[u][i] = g
      \/ \E j \in DOMAIN stack[u] : stack'[u][i] = stack[u][j]
  <2>1. CASE Push(t, f)
    BY <2>1, FramesAfter
  <2>2. CASE ~Idle(t) /\ Replace(t, f)
    BY <2>2, FramesAfter
  <2>3. CASE ~Idle(t) /\ Pop(t)
    BY <2>3, FramesAfter
  <2>4. CASE ~Idle(t) /\ stack' = [stack EXCEPT ![t] = <<f, g>> \o Tail(@)]
    BY <2>4, FramesAfter
  <2> QED BY <2>1, <2>2, <2>3, <2>4
<1>2. ASSUME NEW j \in DOMAIN stack[u] PROVE stack[u][j] \in StackFrame /\ Sound(stack[u][j])
  BY <1>2 DEF SoundFrames
<1> QED BY <1>1, <1>2

\* No step leaves a raw pointer to freed memory behind.
LEMMA PointersStep == TypeInv /\ Pointers /\ [Next]_vars => Pointers'
<1> SUFFICES ASSUME TypeInv, Pointers, [Next]_vars PROVE Pointers'
  OBVIOUS
<1> USE DEF cvars, uvars
<1>0. /\ stack \in [Threads -> Seq(StackFrame)]
      /\ conn \in [Conns -> {"none", "handshake", "open", "dying", "freed"}]
      /\ clients \subseteq Conns
      /\ reading \in [Conns -> BOOLEAN] /\ writing \in [Conns -> Nat]
      /\ posted \in [Conns -> Seq(Frame)]
      /\ SoundFrames /\ Outstanding /\ \A c \in clients : conn[c] # "freed"
  BY DEF TypeInv, TypeOK, StackFrame, Pointers
<1>1. ASSUME NEW t \in Threads, Inside(t) PROVE Pointers'
  <2>1. /\ ~Idle(t) /\ Top(t) \in StackFrame /\ Top(t).c \in Conns /\ Top(t).m \in Frame
        /\ Top(t).todo \subseteq Conns
        /\ 1 \in DOMAIN stack[t] /\ Top(t) = stack[t][1]
    BY <1>0, <1>1, StackTypes, FramesAfter
       DEF Inside, LockShared, Visit, Unlock, Insert, ReadOn, Erase, Release, StackFrame
  <2>2. Sound(Top(t))
    BY <1>0, <2>1 DEF SoundFrames
  <2>3. CASE LockShared(t)
    <3> DEFINE f == [Top(t) EXCEPT !.pc = "loop", !.todo = clients]
    <3>1. f \in StackFrame /\ Sound(f)
      BY <1>0, <2>1, <2>2 DEF StackFrame, Sound
    <3> HIDE DEF f
    <3>2. \A u \in Threads : \A i \in DOMAIN stack'[u] : Sound(stack'[u][i])
      BY <1>0, <2>1, <2>3, <3>1, SoundAfter DEF LockShared, f
    <3> QED BY <1>0, <2>3, <3>2 DEF LockShared, Pointers, SoundFrames, Sound, Alive, Outstanding
  <2>4. CASE Visit(t)
    <3>1. PICK d \in Top(t).todo :
            \/ Replace(t, [Top(t) EXCEPT !.todo = @ \ {d}]) /\ UNCHANGED posted
            \/ /\ conn[d] # "dying"
               /\ stack' = [stack EXCEPT ![t] =
                               <<Drop(d), [Top(t) EXCEPT !.todo = @ \ {d}]>> \o Tail(@)]
               /\ Post(d, Top(t).m)
      BY <2>4 DEF Visit
    <3> DEFINE f == [Top(t) EXCEPT !.todo = @ \ {d}]
    <3>2. f \in StackFrame /\ Sound(f) /\ Drop(d) \in StackFrame
      BY <2>1, <2>2, <2>4, FrameTypes DEF StackFrame, Sound, Visit
    <3> HIDE DEF f
    <3>3. conn[d] # "dying" => Sound(Drop(d))
      BY <2>2 DEF Sound, Drop, Alive
    <3>4. \A u \in Threads : \A i \in DOMAIN stack'[u] : Sound(stack'[u][i])
      <4>1. CASE Replace(t, f)
        BY <1>0, <2>1, <3>2, <4>1, SoundAfter
      <4>2. CASE conn[d] # "dying" /\ stack' = [stack EXCEPT ![t] = <<Drop(d), f>> \o Tail(@)]
        BY <1>0, <2>1, <3>2, <3>3, <4>2, SoundAfter
      <4> QED BY <3>1, <4>1, <4>2 DEF f
    <3>5. \A c \in Conns : posted'[c] # <<>> => posted[c] # <<>> \/ Alive(c)
      BY <1>0, <2>1, <2>2, <3>1 DEF Post, Alive, Sound
    <3> QED BY <1>0, <2>4, <3>4, <3>5 DEF Visit, Pointers, SoundFrames, Sound, Alive, Outstanding
  <2>5. CASE Unlock(t)
    <3> DEFINE f == [Top(t) EXCEPT !.pc = "finish"]
    <3>1. f \in StackFrame /\ Sound(f)
      BY <2>1, <2>2, <2>5 DEF StackFrame, Sound, Unlock
    <3> HIDE DEF f
    <3>2. \A u \in Threads : \A i \in DOMAIN stack'[u] : Sound(stack'[u][i])
      BY <1>0, <2>1, <2>5, <3>1, SoundAfter DEF Unlock, f
    <3> QED BY <1>0, <2>5, <3>2 DEF Unlock, Pointers, SoundFrames, Sound, Alive, Outstanding
  <2>6. CASE Insert(t) \/ ReadOn(t)
    <3>1. Alive(Top(t).c) /\ Drop(Top(t).c) \in StackFrame /\ Sound(Drop(Top(t).c))
      BY <2>1, <2>2, <2>6, FrameTypes DEF Insert, ReadOn, Sound, Drop
    <3>2. \A u \in Threads : \A i \in DOMAIN stack'[u] : Sound(stack'[u][i])
      BY <1>0, <2>1, <2>6, <3>1, SoundAfter DEF Insert, ReadOn
    <3>3. UNCHANGED <<conn, writing, posted>> /\ clients' \subseteq clients \cup {Top(t).c}
          /\ reading' = [reading EXCEPT ![Top(t).c] = TRUE]
      BY <2>6 DEF Insert, ReadOn
    <3>4. SoundFrames'
      BY <3>2, <3>3 DEF SoundFrames, Sound, Alive
    <3>5. Outstanding'
      BY <1>0, <2>1, <3>1, <3>3 DEF Outstanding, Alive
    <3> QED BY <1>0, <3>1, <3>3, <3>4, <3>5 DEF Pointers, Alive
  <2>7. CASE Erase(t)
    <3> DEFINE c == Top(t).c
    <3>1. ~Alive(c) /\ conn' = [conn EXCEPT ![c] = "freed"] /\ clients' = clients \ {c}
      BY <2>2, <2>7 DEF Erase, Sound
    <3>2. \A u \in Threads : \A i \in DOMAIN stack'[u] :
            Sound(stack'[u][i]) /\ stack'[u][i].todo = {}
      BY <1>0, <2>1, <2>7, FramesAfter, Unlocked DEF Erase, SoundFrames
    <3> HIDE DEF c
    <3>3. \A d \in Conns : Alive(d)' <=> Alive(d)
      BY <1>0, <2>1, <3>1 DEF Alive, c
    <3>4. \A u \in Threads : \A i \in DOMAIN stack'[u] : stack'[u][i].c \in Conns
      <4>1. \A u \in Threads : \A i \in DOMAIN stack'[u] : stack'[u][i] \in StackFrame
        BY <1>0, <2>1, <2>2, <2>7, SoundAfter DEF Erase
      <4> QED BY <4>1 DEF StackFrame
    <3>5. SoundFrames'
      BY <3>2, <3>3, <3>4 DEF SoundFrames, Sound
    <3> QED BY <1>0, <2>1, <2>7, <3>1, <3>3, <3>5 DEF Erase, Pointers, Outstanding
  <2>8. CASE Release(t)
    <3> DEFINE c == Top(t).c
    <3>1. CASE Referenced(c, t)
      <4>1. \A u \in Threads : \A i \in DOMAIN stack'[u] : Sound(stack'[u][i])
        BY <1>0, <2>1, <2>2, <2>8, <3>1, SoundAfter DEF Release
      <4> QED BY <1>0, <2>8, <3>1, <4>1
              DEF Release, Pointers, SoundFrames, Sound, Alive, Outstanding
    <3>2. CASE ~Referenced(c, t)
      <4> DEFINE f == Broadcast("dtor", c, Disconnected(c))
      <4>1. f \in StackFrame /\ f.todo = {} /\ f.op = "dtor" /\ f.c = c
        BY <2>1, FrameTypes DEF Broadcast
      <4>2. ~reading[c] /\ ~(writing[c] > 0) /\ posted[c] = <<>>
        BY <3>2 DEF Referenced
      <4>3. \A u \in Threads : \A j \in DOMAIN stack[u] :
              <<u, j>> # <<t, 1>> => stack[u][j].c # c \/ stack[u][j].op = "dtor"
        <5> TAKE u \in Threads
        <5> TAKE j \in DOMAIN stack[u]
        <5>1. <<u, j>> \in Frames /\ At(<<u, j>>) = stack[u][j]
          BY Places
        <5> QED BY <3>2, <5>1 DEF Referenced
      <4>4. conn' = [conn EXCEPT ![c] = "dying"] /\ Replace(t, f)
            /\ UNCHANGED <<clients, reading, writing, posted>>
        BY <2>8, <3>2 DEF Release
      <4>5. c \in Conns /\ Alive(c)
        BY <2>1, <2>2, <2>8 DEF Release, Sound
      <4> HIDE DEF c, f
      <4>6. \A u \in Threads : \A i \in DOMAIN stack'[u] :
              \/ stack'[u][i] = f
              \/ \E j \in DOMAIN stack[u] : <<u, j>> # <<t, 1>> /\ stack'[u][i] = stack[u][j]
        BY <1>0, <2>1, <4>1, <4>4, FramesAfter
      <4>7. \A d : d \in Conns =>
              /\ (conn'[d] # "freed" <=> conn[d] # "freed")
              /\ (Alive(d)' <=> Alive(d) /\ d # c)
        BY <1>0, <4>4, <4>5 DEF Alive
      <4>8. ASSUME NEW g \in StackFrame, Sound(g), g.c # c \/ g.op = "dtor"
            PROVE  /\ g.todo # {} => g.pc = "loop"
                   /\ \A d \in g.todo : conn'[d] # "freed"
                   /\ g.op = "dtor" <=> conn'[g.c] \in {"dying", "freed"}
        <5>1. g.c \in Conns /\ g.todo \subseteq Conns
          BY DEF StackFrame
        <5>2. g.op = "dtor" => g.c # c
          BY <4>5, <4>8 DEF Sound
        <5> QED BY <4>7, <4>8, <5>1, <5>2 DEF Sound, Alive
      <4>9. conn'[c] \in {"dying", "freed"}
        BY <1>0, <4>4, <4>5
      <4>10. SoundFrames'
        <5> SUFFICES ASSUME NEW u \in Threads, NEW i \in DOMAIN stack'[u]
                     PROVE  LET g == stack'[u][i] IN
                            /\ g.todo # {} => g.pc = "loop"
                            /\ \A d \in g.todo : conn'[d] # "freed"
                            /\ g.op = "dtor" <=> conn'[g.c] \in {"dying", "freed"}
          BY DEF SoundFrames, Sound, Alive
        <5>1. CASE stack'[u][i] = f
          BY <4>1, <4>9, <5>1
        <5>2. CASE \E j \in DOMAIN stack[u] : <<u, j>> # <<t, 1>> /\ stack'[u][i] = stack[u][j]
          <6>1. PICK j \in DOMAIN stack[u] : <<u, j>> # <<t, 1>> /\ stack'[u][i] = stack[u][j]
            BY <5>2
          <6>2. /\ stack[u][j] \in StackFrame /\ Sound(stack[u][j])
                /\ stack[u][j].c # c \/ stack[u][j].op = "dtor"
            BY <1>0, <4>3, <6>1 DEF SoundFrames
          <6> QED BY <4>8, <6>1, <6>2
        <5> QED BY <4>6, <5>1, <5>2
      <4> QED BY <1>0, <4>2, <4>4, <4>7, <4>10 DEF Pointers, Outstanding
    <3> QED BY <3>1, <3>2
  <2> QED BY <1>1, <2>3, <2>4, <2>5, <2>6, <2>7, <2>8 DEF Inside
<1>2. ASSUME NEW t \in Threads, NEW c \in Conns,
             Upgrade(t, c) \/ Accept(t, c) \/ AcceptFails(t, c)
      PROVE  Pointers'
  <2>1. /\ conn[c] \in {"none", "handshake"}
        /\ \A d \in Conns : /\ (conn'[d] # "freed" <=> conn[d] # "freed")
                            /\ (Alive(d)' <=> Alive(d))
        /\ Alive(c)
    BY <1>0, <1>2 DEF Upgrade, Accept, AcceptFails, Alive
  <2>2. \A u \in Threads : \A i \in DOMAIN stack'[u] :
          stack'[u][i] \in StackFrame /\ Sound(stack'[u][i])
    <3>1. CASE Upgrade(t, c)
      BY <1>0, <3>1 DEF Upgrade, SoundFrames
    <3>2. CASE Accept(t, c)
      <4> DEFINE f == Broadcast("connect", c, Connected(c))
      <4>1. f \in StackFrame
        BY FrameTypes
      <4>2. Sound(f)
        BY <2>1 DEF Broadcast, Sound
      <4> HIDE DEF f
      <4> QED BY <1>0, <3>2, <4>1, <4>2, SoundAfter DEF Accept, f
    <3>3. CASE AcceptFails(t, c)
      <4>1. Drop(c) \in StackFrame /\ Sound(Drop(c))
        BY <2>1, FrameTypes DEF Drop, Sound
      <4> QED BY <1>0, <3>3, <4>1, SoundAfter DEF AcceptFails
    <3> QED BY <1>2, <3>1, <3>2, <3>3
  <2>3. SoundFrames'
    BY <2>1, <2>2 DEF SoundFrames, Sound, StackFrame
  <2>4. \A d \in Conns : posted'[d] # posted[d] => d = c
    BY <1>0, <1>2 DEF Upgrade, Accept, AcceptFails, Post
  <2> QED BY <1>0, <1>2, <2>1, <2>3, <2>4 DEF Upgrade, Accept, AcceptFails, Pointers, Outstanding
<1>3. ASSUME NEW t \in Threads, NEW c \in Conns,
             \/ Handle(t, c) \/ HandleFails(t, c) \/ OnSend(t, c) \/ OnWrite(t, c)
             \/ OnWriteFails(t, c)
      PROVE  Pointers'
  <2>1. Alive(c)
    BY <1>0, <1>3 DEF Handle, HandleFails, OnSend, OnWrite, OnWriteFails, ReadCompletes, Outstanding
  <2>2. PICK f \in StackFrame : Push(t, f) /\ Sound(f)
    <3>1. CASE Handle(t, c)
      <4>1. PICK a \in Actions : Push(t, Broadcast("chat", c, NewChatMessage(a, c, said[c] + 1)))
        BY <3>1 DEF Handle
      <4>2. said[c] + 1 \in Ordinals
        BY <3>1, CppAssumption DEF Handle, Ordinals, TypeInv, TypeOK
      <4>3. Sound(Broadcast("chat", c, NewChatMessage(a, c, said[c] + 1)))
        BY <2>1 DEF Broadcast, Sound
      <4> QED BY <4>1, <4>2, <4>3, FrameTypes
    <3>2. CASE ~Handle(t, c)
      <4>1. Push(t, Drop(c)) /\ Drop(c) \in StackFrame
        BY <1>3, <3>2, FrameTypes DEF HandleFails, OnSend, OnWrite, OnWriteFails
      <4> QED BY <2>1, <4>1 DEF Drop, Sound
    <3> QED BY <3>1, <3>2
  <2>3. SoundFrames'
    <3>1. \A u \in Threads : \A i \in DOMAIN stack'[u] : Sound(stack'[u][i])
      BY <1>0, <2>2, SoundAfter
    <3>2. conn' = conn
      BY <1>3 DEF Handle, HandleFails, OnSend, OnWrite, OnWriteFails
    <3> QED BY <3>1, <3>2 DEF SoundFrames, Sound, Alive
  <2>4. \A d \in Conns : d # c =>
          /\ reading'[d] = reading[d] /\ writing'[d] = writing[d] /\ posted'[d] = posted[d]
    BY <1>0, <1>3 DEF Handle, HandleFails, OnSend, OnWrite, OnWriteFails
  <2> QED BY <1>0, <1>3, <2>1, <2>3, <2>4
          DEF Handle, HandleFails, OnSend, OnWrite, OnWriteFails, Pointers, Outstanding, Alive
<1>4. ASSUME NEW t \in Threads, NEW c \in Conns, HandleBad(t, c) PROVE Pointers'
  <2>1. Alive(c)
    BY <1>0, <1>4 DEF HandleBad, ReadCompletes, Outstanding
  <2>2. \A d \in Conns : d # c => posted'[d] = posted[d]
    BY <1>0, <1>4 DEF HandleBad, Post
  <2> QED BY <1>0, <1>4, <2>1, <2>2
          DEF HandleBad, Pointers, SoundFrames, Sound, Outstanding, Alive
<1>5. ASSUME NEW c \in Conns, PeerGone(c) PROVE Pointers'
  BY <1>0, <1>5 DEF PeerGone, Pointers, SoundFrames, Sound, Outstanding, Alive
<1>6. CASE UNCHANGED vars
  BY <1>0, <1>6 DEF vars, Pointers, SoundFrames, Sound, Outstanding, Alive
<1> QED BY <1>1, <1>2, <1>3, <1>4, <1>5, <1>6 DEF Next, Completion, UserStep

\* Neither the registry nor a broadcast in its loop ever holds a pointer to a WsConn
\* whose memory is free, however destructors and broadcasts interleave.
THEOREM PointersValid == Spec => []NoDangling
<1>1. Pointers => NoDangling
  BY Places DEF Pointers, SoundFrames, Sound, NoDangling, At
<1> QED BY TypeInit, TypeStep, PointersInit, PointersStep, <1>1, PTL DEF Spec

-----------------------------------------------------------------------------

(* The first message *)

\* Something has been accepted for the user of c.
Told(c) == wire[c] # <<>> \/ queue[c] # <<>> \/ posted[c] # <<>>

ToldTo == {c \in Conns : Told(c)}

\* And the first of it was their own "connect", wherever that has got to.
OwnFirst(c) ==
    /\ wire[c] # <<>> => wire[c][1] = Connected(c)
    /\ wire[c] = <<>> /\ queue[c] # <<>> => queue[c][1] = Connected(c)
    /\ wire[c] = <<>> /\ queue[c] = <<>> /\ posted[c] # <<>> => posted[c][1] = Connected(c)

\* Whom a frame sends to, or will register or read for, has been told.
ToldFrames ==
    \A t \in Threads : \A i \in DOMAIN stack[t] :
        /\ stack[t][i].todo \subseteq ToldTo
        /\ stack[t][i].op \in {"connect", "chat"} => stack[t][i].c \in ToldTo

\* Whoever is on the list or reads has been told, and of their own "connect" first.
Welcomed ==
    /\ ToldFrames
    /\ \A c \in Conns :
          /\ OwnFirst(c)
          /\ conn[c] \in {"none", "handshake"} => ~Told(c)
          /\ c \in clients \/ reading[c] => Told(c)

\* At the start nobody has been told anything.
LEMMA WelcomedInit == Init => Welcomed
BY DEF Init, Welcomed, ToldFrames, OwnFirst, Told

\* Heads and tails of queues of messages.
LEMMA FirstOf ==
    ASSUME NEW S, NEW q \in Seq(S)
    PROVE  /\ \A x \in S : Append(q, x) # <<>> /\ Append(q, x)[1] = IF q = <<>> THEN x ELSE q[1]
           /\ q # <<>> => Head(q) = q[1] /\ Head(q) \in S
<1>1. Len(q) \in Nat /\ (q = <<>> <=> Len(q) = 0)
  OBVIOUS
<1>2. \A x \in S : Len(Append(q, x)) = Len(q) + 1
  OBVIOUS
<1>3. \A x \in S : Append(q, x) # <<>>
  BY <1>1, <1>2
<1>4. ASSUME NEW x \in S, q = <<>> PROVE Append(q, x)[1] = x
  BY <1>4
<1>5. ASSUME NEW x \in S, q # <<>> PROVE Append(q, x)[1] = q[1]
  BY <1>1, <1>5
<1>6. q # <<>> => Head(q) = q[1] /\ Head(q) \in S
  OBVIOUS
<1> QED BY <1>3, <1>4, <1>5, <1>6

\* Posting to somebody who has been told already changes nothing about their first message.
LEMMA PostTold ==
    ASSUME TypeOK, NEW c \in Conns, NEW m \in Frame, Told(c), OwnFirst(c), Post(c, m),
           UNCHANGED <<wire, queue>>
    PROVE  /\ ToldTo' = ToldTo
           /\ \A d \in Conns : OwnFirst(d) => OwnFirst(d)'
<1>1. /\ posted[c] \in Seq(Frame) /\ posted' = [posted EXCEPT ![c] = Append(posted[c], m)]
      /\ posted \in [Conns -> Seq(Frame)] /\ wire' = wire /\ queue' = queue
  BY DEF TypeOK, Post
<1>2. /\ posted'[c] = Append(posted[c], m) /\ posted'[c] # <<>>
      /\ posted'[c][1] = IF posted[c] = <<>> THEN m ELSE posted[c][1]
      /\ \A d \in Conns : d # c => posted'[d] = posted[d]
  BY <1>1, FirstOf
<1> QED BY <1>1, <1>2 DEF Told, ToldTo, OwnFirst

\* Frames keep the promise if the one that is new does.
LEMMA ToldAfter ==
    ASSUME ToldFrames, stack \in [Threads -> Seq(StackFrame)], NEW t \in Threads,
           NEW f \in StackFrame, NEW g \in StackFrame,
           \/ Push(t, f)
           \/ ~Idle(t) /\ Replace(t, f)
           \/ ~Idle(t) /\ Pop(t)
           \/ ~Idle(t) /\ stack' = [stack EXCEPT ![t] = <<f, g>> \o Tail(@)],
           \A h \in {f, g} : /\ h.todo \subseteq ToldTo'
                             /\ h.op \in {"connect", "chat"} => h.c \in ToldTo',
           ToldTo \subseteq ToldTo'
    PROVE  ToldFrames'
<1> SUFFICES ASSUME NEW u \in Threads, NEW i \in DOMAIN stack'[u]
             PROVE  /\ stack'[u][i].todo \subseteq ToldTo'
                    /\ stack'[u][i].op \in {"connect", "chat"} => stack'[u][i].c \in ToldTo'
  BY DEF ToldFrames
<1>1. \/ stack'[u][i] = f \/ stack'[u][i] = g
      \/ \E j \in DOMAIN stack[u] : stack'[u][i] = stack[u][j]
  <2>1. CASE Push(t, f)
    BY <2>1, FramesAfter
  <2>2. CASE ~Idle(t) /\ Replace(t, f)
    BY <2>2, FramesAfter
  <2>3. CASE ~Idle(t) /\ Pop(t)
    BY <2>3, FramesAfter
  <2>4. CASE ~Idle(t) /\ stack' = [stack EXCEPT ![t] = <<f, g>> \o Tail(@)]
    BY <2>4, FramesAfter
  <2> QED BY <2>1, <2>2, <2>3, <2>4
<1>2. ASSUME NEW j \in DOMAIN stack[u]
      PROVE  /\ stack[u][j].todo \subseteq ToldTo'
             /\ stack[u][j].op \in {"connect", "chat"} => stack[u][j].c \in ToldTo'
  BY <1>2 DEF ToldFrames
<1> QED BY <1>1, <1>2

\* No step accepts anything for a user before their own "connect".
LEMMA WelcomedStep == TypeInv /\ Welcomed /\ [Next]_vars => Welcomed'
<1> SUFFICES ASSUME TypeInv, Welcomed, [Next]_vars PROVE Welcomed'
  OBVIOUS
<1> USE DEF cvars, uvars
<1>0. /\ stack \in [Threads -> Seq(StackFrame)]
      /\ conn \in [Conns -> {"none", "handshake", "open", "dying", "freed"}]
      /\ clients \subseteq Conns
      /\ reading \in [Conns -> BOOLEAN] /\ writing \in [Conns -> Nat]
      /\ posted \in [Conns -> Seq(Frame)] /\ queue \in [Conns -> Seq(Frame)]
      /\ wire \in [Conns -> Seq(Frame)]
      /\ TypeOK /\ ToldFrames
  BY DEF TypeInv, TypeOK, StackFrame, Welcomed
<1>a. \A c \in Conns :
        /\ OwnFirst(c)
        /\ conn[c] \in {"none", "handshake"} => c \notin ToldTo
        /\ c \in clients \/ reading[c] => c \in ToldTo
  BY DEF Welcomed, ToldTo
<1>b. ASSUME ToldFrames',
             \A c \in Conns :
                /\ OwnFirst(c)'
                /\ conn'[c] \in {"none", "handshake"} => c \notin ToldTo'
                /\ c \in clients' \/ reading'[c] => c \in ToldTo'
      PROVE  Welcomed'
  BY <1>b DEF Welcomed, ToldTo
<1>c. ASSUME UNCHANGED <<wire, queue, posted>>
      PROVE  ToldTo' = ToldTo /\ \A c \in Conns : OwnFirst(c) => OwnFirst(c)'
  BY <1>c DEF ToldTo, Told, OwnFirst
<1>d. \A c \in Conns : /\ Drop(c) \in StackFrame /\ Drop(c).todo = {}
                       /\ Drop(c).op \notin {"connect", "chat"}
  BY FrameTypes DEF Drop
<1>1. ASSUME NEW t \in Threads, Inside(t) PROVE Welcomed'
  <2>1. /\ ~Idle(t) /\ Top(t) \in StackFrame /\ Top(t).c \in Conns /\ Top(t).m \in Frame
        /\ Top(t).todo \subseteq Conns
        /\ 1 \in DOMAIN stack[t] /\ Top(t) = stack[t][1]
    BY <1>0, <1>1, StackTypes, FramesAfter
       DEF Inside, LockShared, Visit, Unlock, Insert, ReadOn, Erase, Release, StackFrame
  <2>2. Top(t).todo \subseteq ToldTo /\ (Top(t).op \in {"connect", "chat"} => Top(t).c \in ToldTo)
    BY <1>0, <2>1 DEF ToldFrames
  <2>3. CASE LockShared(t) \/ Unlock(t)
    <3>1. PICK f \in StackFrame : /\ Replace(t, f) /\ f.todo \subseteq ToldTo
                                  /\ f.op \in {"connect", "chat"} => f.c \in ToldTo
      <4>1. CASE LockShared(t)
        <5> DEFINE f == [Top(t) EXCEPT !.pc = "loop", !.todo = clients]
        <5>1. clients \subseteq ToldTo
          BY <1>0, <1>a
        <5>2. f \in StackFrame /\ f.todo = clients /\ f.op = Top(t).op /\ f.c = Top(t).c
          BY <1>0, <2>1 DEF StackFrame
        <5>3. Replace(t, f)
          BY <4>1 DEF LockShared
        <5> HIDE DEF f
        <5> QED BY <2>2, <5>1, <5>2, <5>3
      <4>2. CASE Unlock(t)
        <5> DEFINE f == [Top(t) EXCEPT !.pc = "finish"]
        <5>1. f \in StackFrame /\ f.todo = Top(t).todo /\ f.op = Top(t).op /\ f.c = Top(t).c
          BY <2>1 DEF StackFrame
        <5>2. Replace(t, f)
          BY <4>2 DEF Unlock
        <5> HIDE DEF f
        <5> QED BY <2>2, <5>1, <5>2
      <4> QED BY <2>3, <4>1, <4>2
    <3>2. UNCHANGED <<conn, clients, reading, wire, queue, posted>>
      BY <2>3 DEF LockShared, Unlock
    <3>3. ToldFrames'
      BY <1>0, <1>c, <2>1, <3>1, <3>2, ToldAfter
    <3> QED BY <1>a, <1>b, <1>c, <3>2, <3>3
  <2>4. CASE Visit(t)
    <3>1. PICK d \in Top(t).todo :
            \/ Replace(t, [Top(t) EXCEPT !.todo = @ \ {d}]) /\ UNCHANGED posted
            \/ /\ stack' = [stack EXCEPT ![t] =
                               <<Drop(d), [Top(t) EXCEPT !.todo = @ \ {d}]>> \o Tail(@)]
               /\ Post(d, Top(t).m)
      BY <2>4 DEF Visit
    <3>2. UNCHANGED <<conn, clients, reading, wire, queue>>
      BY <2>4 DEF Visit
    <3>3. ToldTo' = ToldTo /\ \A c \in Conns : OwnFirst(c)'
      <4>1. d \in Conns /\ Told(d) /\ OwnFirst(d)
        BY <1>a, <2>1, <2>2 DEF ToldTo
      <4> QED BY <1>0, <1>a, <1>c, <2>1, <3>1, <3>2, <4>1, PostTold
    <3>4. PICK f \in StackFrame : f = [Top(t) EXCEPT !.todo = @ \ {d}]
      BY <2>1 DEF StackFrame
    <3>5. f.todo \subseteq ToldTo /\ (f.op \in {"connect", "chat"} => f.c \in ToldTo)
      BY <2>1, <2>2, <3>4 DEF StackFrame
    <3>6. PICK g \in StackFrame : g = Drop(d)
      BY <1>d, <2>1
    <3>7. g.todo = {} /\ g.op \notin {"connect", "chat"}
      BY <1>d, <2>1, <3>6
    <3>8. Replace(t, f) \/ stack' = [stack EXCEPT ![t] = <<g, f>> \o Tail(@)]
      BY <3>1, <3>4, <3>6
    <3>9. ToldFrames'
      BY <1>0, <2>1, <3>3, <3>5, <3>7, <3>8, ToldAfter
    <3> QED BY <1>a, <1>b, <3>2, <3>3, <3>9
  <2>5. CASE Insert(t) \/ ReadOn(t)
    <3>1. /\ UNCHANGED <<conn, wire, queue, posted>> /\ clients' \subseteq clients \cup {Top(t).c}
          /\ reading' = [reading EXCEPT ![Top(t).c] = TRUE]
          /\ Replace(t, Drop(Top(t).c))
      BY <2>5 DEF Insert, ReadOn
    <3>2. Top(t).c \in ToldTo
      BY <2>2, <2>5 DEF Insert, ReadOn
    <3>3. PICK f \in StackFrame : f = Drop(Top(t).c)
      BY <1>d, <2>1
    <3>4. Replace(t, f) /\ f.todo = {} /\ f.op \notin {"connect", "chat"}
      BY <1>d, <2>1, <3>1, <3>3
    <3>5. ToldFrames'
      BY <1>0, <1>c, <2>1, <3>1, <3>4, ToldAfter
    <3>6. \A c \in Conns : reading'[c] => reading[c] \/ c = Top(t).c
      BY <1>0, <3>1
    <3> QED BY <1>a, <1>b, <1>c, <3>1, <3>2, <3>5, <3>6
  <2>6. CASE Erase(t)
    <3>1. /\ UNCHANGED <<reading, wire, queue, posted>> /\ clients' \subseteq clients
          /\ conn' = [conn EXCEPT ![Top(t).c] = "freed"] /\ Pop(t)
      BY <2>6 DEF Erase
    <3>2. PICK f \in StackFrame : f = Drop(Top(t).c)
      BY <1>d, <2>1
    <3>3. ToldFrames'
      <4>1. f.todo = {} /\ f.op \notin {"connect", "chat"}
        BY <1>d, <2>1, <3>2
      <4>2. ToldTo \subseteq ToldTo'
        BY <1>c, <3>1
      <4> QED BY <1>0, <2>1, <3>1, <4>1, <4>2, ToldAfter
    <3>4. \A c \in Conns : conn'[c] = conn[c] \/ conn'[c] = "freed"
      BY <1>0, <3>1
    <3> QED BY <1>a, <1>b, <1>c, <3>1, <3>3, <3>4
  <2>7. CASE Release(t)
    <3>1. /\ UNCHANGED <<reading, clients, wire, queue, posted>>
          /\ \A c \in Conns : conn'[c] = conn[c] \/ conn'[c] = "dying"
      BY <1>0, <2>7 DEF Release
    <3>2. PICK f \in StackFrame : f = Broadcast("dtor", Top(t).c, Disconnected(Top(t).c))
      BY <2>1, FrameTypes
    <3>3. f.todo = {} /\ f.op = "dtor" /\ (Pop(t) \/ Replace(t, f))
      BY <2>7, <3>2 DEF Release, Broadcast
    <3>4. ToldFrames'
      BY <1>0, <1>c, <2>1, <3>1, <3>3, ToldAfter
    <3> QED BY <1>a, <1>b, <1>c, <3>1, <3>4
  <2> QED BY <1>1, <2>3, <2>4, <2>5, <2>6, <2>7 DEF Inside
<1>2. ASSUME NEW t \in Threads, NEW c \in Conns, Upgrade(t, c) PROVE Welcomed'
  <2>1. /\ UNCHANGED <<stack, clients, reading, wire, queue, posted>>
        /\ c \notin ToldTo /\ \A d \in Conns : d # c => conn'[d] = conn[d]
    BY <1>0, <1>2, <1>a DEF Upgrade
  <2>2. ToldFrames'
    BY <1>0, <1>c, <2>1 DEF ToldFrames
  <2> QED BY <1>a, <1>b, <1>c, <2>1, <2>2
<1>3. ASSUME NEW t \in Threads, NEW c \in Conns, Accept(t, c) PROVE Welcomed'
  <2>1. wire[c] = <<>> /\ queue[c] = <<>> /\ posted[c] = <<>> /\ c \notin clients /\ ~reading[c]
    BY <1>3, <1>a DEF Accept, ToldTo, Told
  <2>2. /\ UNCHANGED <<clients, reading, wire, queue>>
        /\ posted' = [posted EXCEPT ![c] = Append(posted[c], Connected(c))]
        /\ conn' = [conn EXCEPT ![c] = "open"]
    BY <1>0, <1>3 DEF Accept, Post
  <2>3. posted'[c] # <<>> /\ posted'[c][1] = Connected(c)
    BY <1>0, <2>1, <2>2, FirstOf, FrameTypes
  <2>4. \A d \in Conns : d # c => posted'[d] = posted[d] /\ conn'[d] = conn[d]
    BY <1>0, <2>2
  <2>5. ToldTo' = ToldTo \cup {c}
    BY <2>2, <2>3, <2>4 DEF ToldTo, Told
  <2>6. \A d \in Conns : OwnFirst(d)'
    BY <1>a, <2>1, <2>2, <2>3, <2>4 DEF OwnFirst
  <2>7. PICK f \in StackFrame : f = Broadcast("connect", c, Connected(c))
    BY FrameTypes
  <2>8. Push(t, f) /\ f.todo = {} /\ f.c = c
    BY <1>3, <2>7 DEF Accept, Broadcast
  <2>9. ToldFrames'
    BY <1>0, <2>5, <2>8, ToldAfter
  <2>10. conn'[c] = "open"
    BY <1>0, <2>2
  <2> QED BY <1>a, <1>b, <2>2, <2>4, <2>5, <2>6, <2>9, <2>10
<1>4. ASSUME NEW t \in Threads, NEW c \in Conns,
             AcceptFails(t, c) \/ HandleFails(t, c) \/ OnWriteFails(t, c)
      PROVE  Welcomed'
  <2>1. /\ Push(t, Drop(c)) /\ UNCHANGED <<clients, wire, queue, posted>>
        /\ \A d \in Conns : /\ reading'[d] => reading[d]
                            /\ conn'[d] = conn[d] \/ conn'[d] = "open"
    BY <1>0, <1>4 DEF AcceptFails, HandleFails, OnWriteFails
  <2>2. PICK f \in StackFrame : f = Drop(c)
    BY <1>d
  <2>3. ToldFrames'
    BY <1>0, <1>c, <1>d, <2>1, <2>2, ToldAfter
  <2> QED BY <1>a, <1>b, <1>c, <2>1, <2>3
<1>5. ASSUME NEW t \in Threads, NEW c \in Conns, Handle(t, c) PROVE Welcomed'
  <2>1. c \in ToldTo /\ said[c] + 1 \in Ordinals
    BY <1>5, <1>a, CppAssumption DEF Handle, ReadCompletes, Ordinals, TypeInv, TypeOK
  <2>2. PICK f \in StackFrame : Push(t, f) /\ f.todo = {} /\ f.c = c
    BY <1>5, <2>1, FrameTypes DEF Handle, Broadcast
  <2>3. /\ UNCHANGED <<conn, clients, wire, queue, posted>>
        /\ \A d \in Conns : reading'[d] => reading[d]
    BY <1>0, <1>5 DEF Handle
  <2>4. ToldFrames'
    BY <1>0, <1>c, <2>1, <2>2, <2>3, ToldAfter
  <2> QED BY <1>a, <1>b, <1>c, <2>3, <2>4
<1>6. ASSUME NEW t \in Threads, NEW c \in Conns, HandleBad(t, c) PROVE Welcomed'
  <2>1. Told(c) /\ OwnFirst(c) /\ ErrorTo(c) \in Frame /\ Post(c, ErrorTo(c))
    BY <1>6, <1>a, FrameTypes DEF HandleBad, ReadCompletes, ToldTo
  <2>2. UNCHANGED <<stack, conn, clients, reading, wire, queue>>
    BY <1>6 DEF HandleBad
  <2>3. ToldTo' = ToldTo /\ \A d \in Conns : OwnFirst(d)'
    BY <1>0, <1>a, <2>1, <2>2, PostTold
  <2>4. ToldFrames'
    BY <1>0, <2>2, <2>3 DEF ToldFrames
  <2> QED BY <1>a, <1>b, <2>2, <2>3, <2>4
<1>7. ASSUME NEW t \in Threads, NEW c \in Conns, OnSend(t, c) PROVE Welcomed'
  <2>1. /\ UNCHANGED <<conn, clients, reading, wire>> /\ Push(t, Drop(c))
        /\ posted[c] # <<>> /\ posted' = [posted EXCEPT ![c] = Tail(posted[c])]
        /\ queue' = [queue EXCEPT ![c] = Append(queue[c], Head(posted[c]))]
    BY <1>0, <1>7 DEF OnSend
  <2>2. /\ queue'[c] # <<>>
        /\ queue'[c][1] = IF queue[c] = <<>> THEN posted[c][1] ELSE queue[c][1]
    BY <1>0, <2>1, FirstOf
  <2>3. \A d \in Conns : d # c => queue'[d] = queue[d] /\ posted'[d] = posted[d]
    BY <1>0, <2>1
  <2>4. ToldTo' = ToldTo
    BY <2>1, <2>2, <2>3 DEF ToldTo, Told
  <2>5. \A d \in Conns : OwnFirst(d)'
    BY <1>a, <2>1, <2>2, <2>3 DEF OwnFirst
  <2>6. PICK f \in StackFrame : f = Drop(c)
    BY <1>d
  <2>7. ToldFrames'
    BY <1>0, <1>d, <2>1, <2>4, <2>6, ToldAfter
  <2> QED BY <1>a, <1>b, <2>1, <2>4, <2>5, <2>7
<1>8. ASSUME NEW t \in Threads, NEW c \in Conns, OnWrite(t, c) PROVE Welcomed'
  <2>1. /\ UNCHANGED <<conn, clients, reading, posted>> /\ Push(t, Drop(c))
        /\ queue[c] # <<>> /\ queue' = [queue EXCEPT ![c] = Tail(queue[c])]
        /\ wire' = [wire EXCEPT ![c] = Append(wire[c], Head(queue[c]))]
    BY <1>0, <1>8 DEF OnWrite, TypeInv, WritesHead
  <2>2. /\ wire'[c] # <<>>
        /\ wire'[c][1] = IF wire[c] = <<>> THEN queue[c][1] ELSE wire[c][1]
    BY <1>0, <2>1, FirstOf
  <2>3. \A d \in Conns : d # c => queue'[d] = queue[d] /\ wire'[d] = wire[d]
    BY <1>0, <2>1
  <2>4. ToldTo' = ToldTo
    BY <2>1, <2>2, <2>3 DEF ToldTo, Told
  <2>5. \A d \in Conns : OwnFirst(d)'
    BY <1>a, <2>1, <2>2, <2>3 DEF OwnFirst
  <2>6. PICK f \in StackFrame : f = Drop(c)
    BY <1>d
  <2>7. ToldFrames'
    BY <1>0, <1>d, <2>1, <2>4, <2>6, ToldAfter
  <2> QED BY <1>a, <1>b, <2>1, <2>4, <2>5, <2>7
<1>9. CASE UNCHANGED vars \/ \E c \in Conns : PeerGone(c)
  <2>1. UNCHANGED <<stack, conn, clients, reading, wire, queue, posted>>
    BY <1>9 DEF vars, PeerGone
  <2>2. ToldFrames'
    BY <1>0, <1>c, <2>1 DEF ToldFrames
  <2> QED BY <1>a, <1>b, <1>c, <2>1, <2>2
<1> QED BY <1>1, <1>2, <1>3, <1>4, <1>5, <1>6, <1>7, <1>8, <1>9 DEF Next, Completion, UserStep

\* The first element of a stream is that of its first part that is not empty.
LEMMA StreamFirst ==
    \A a, b, c \in Seq(Frame) :
        /\ a # <<>> => (a \o b \o c)[1] = a[1]
        /\ a = <<>> /\ b # <<>> => (a \o b \o c)[1] = b[1]
        /\ a = <<>> /\ b = <<>> => (a \o b \o c) = c
<1>1. \A s, r \in Seq(Frame) : s # <<>> => (s \o r)[1] = s[1] /\ s \o r \in Seq(Frame) /\ s \o r # <<>>
  <2> SUFFICES ASSUME NEW s \in Seq(Frame), NEW r \in Seq(Frame), s # <<>>
               PROVE  (s \o r)[1] = s[1] /\ s \o r \in Seq(Frame) /\ s \o r # <<>>
    OBVIOUS
  <2>1. Len(s) \in Nat /\ Len(s) >= 1 /\ Len(r) \in Nat
    OBVIOUS
  <2>2. s \o r \in Seq(Frame) /\ Len(s \o r) = Len(s) + Len(r)
    OBVIOUS
  <2>3. (s \o r)[1] = s[1]
    BY <2>1
  <2> QED BY <2>1, <2>2, <2>3
<1>2. \A r \in Seq(Frame) : <<>> \o r = r
  OBVIOUS
<1> QED BY <1>1, <1>2

\* The first message of every user is their own "connect", although it and those of the
\* others' broadcasts are posted by different threads: nobody is in the registry, or in
\* a broadcast's loop, before it was.
THEOREM OwnConnectPosted == Spec => []OwnConnectFirst
<1>1. TypeInv /\ Welcomed => OwnConnectFirst
  <2> SUFFICES ASSUME TypeInv, Welcomed, NEW c \in Conns, Stream(c) # <<>>
               PROVE  Stream(c)[1] = Connected(c)
    BY DEF OwnConnectFirst
  <2>1. /\ wire[c] \in Seq(Frame) /\ queue[c] \in Seq(Frame) /\ posted[c] \in Seq(Frame)
        /\ OwnFirst(c)
    BY DEF TypeInv, TypeOK, Welcomed
  <2>2. /\ wire[c] # <<>> => Stream(c)[1] = wire[c][1]
        /\ wire[c] = <<>> /\ queue[c] # <<>> => Stream(c)[1] = queue[c][1]
        /\ wire[c] = <<>> /\ queue[c] = <<>> => Stream(c) = posted[c]
    BY <2>1, StreamFirst, Zenon DEF Stream
  <2> QED BY <2>1, <2>2 DEF OwnFirst
<1> QED BY TypeInit, TypeStep, WelcomedInit, WelcomedStep, <1>1, PTL DEF Spec

-----------------------------------------------------------------------------
(* Streams *)

\* What each user has been accepted.
Streams == [c \in Conns |-> Stream(c)]

\* No message x occurs twice in s.
Once(s, x) == \A i, j \in DOMAIN s : s[i] = x /\ s[j] = x => i = j

\* What it means to append a message to a stream.
LEMMA AppendStream ==
    \A s \in Seq(Frame), p \in Frame :
        /\ \A x : Heard(Append(s, p), x) <=> Heard(s, x) \/ x = p
        /\ \A x : Once(s, x) /\ (x = p => ~Heard(s, x)) => Once(Append(s, p), x)
        /\ \A x, y : NotAfter(s, x, y) /\ x # y /\ (x = p => ~Heard(s, y))
                     => NotAfter(Append(s, p), x, y)
<1> SUFFICES ASSUME NEW s \in Seq(Frame), NEW p \in Frame
             PROVE  /\ \A x : Heard(Append(s, p), x) <=> Heard(s, x) \/ x = p
                    /\ \A x : Once(s, x) /\ (x = p => ~Heard(s, x)) => Once(Append(s, p), x)
                    /\ \A x, y : NotAfter(s, x, y) /\ x # y /\ (x = p => ~Heard(s, y))
                                 => NotAfter(Append(s, p), x, y)
  OBVIOUS
<1> DEFINE r == Append(s, p)
<1>1. /\ Len(s) \in Nat /\ DOMAIN s = 1..Len(s)
      /\ DOMAIN r = 1..(Len(s) + 1) /\ r[Len(s) + 1] = p
      /\ \A i \in 1..Len(s) : r[i] = s[i]
  OBVIOUS
<1> HIDE DEF r
<1>2. \A i \in DOMAIN r : (i \in DOMAIN s /\ r[i] = s[i]) \/ (i = Len(s) + 1 /\ r[i] = p)
  BY <1>1
<1>3. \A i \in DOMAIN s : i \in DOMAIN r /\ r[i] = s[i] /\ i < Len(s) + 1
  BY <1>1
<1>4. \A x : Heard(r, x) <=> Heard(s, x) \/ x = p
  BY <1>1, <1>2, <1>3 DEF Heard
<1>5. \A x : Once(s, x) /\ (x = p => ~Heard(s, x)) => Once(r, x)
  BY <1>2 DEF Once, Heard
<1>6. \A x, y : NotAfter(s, x, y) /\ x # y /\ (x = p => ~Heard(s, y)) => NotAfter(r, x, y)
  BY <1>2, <1>3 DEF NotAfter, Heard
<1> QED BY <1>4, <1>5, <1>6 DEF r

\* A queue is its head and what follows it, so handing the head on to the end of another
\* queue leaves the two together as they were.
LEMMA HandOn ==
    \A a, b \in Seq(Frame) : b # <<>> => Append(a, Head(b)) \o Tail(b) = a \o b
<1> SUFFICES ASSUME NEW a \in Seq(Frame), NEW b \in Seq(Frame), b # <<>>
             PROVE  Append(a, Head(b)) \o Tail(b) = a \o b
  OBVIOUS
<1>a. Head(b) \in Frame /\ Tail(b) \in Seq(Frame)
  OBVIOUS
<1>b. PICK h \in Frame : h = Head(b)
  BY <1>a
<1>c. PICK r \in Seq(Frame) : r = Tail(b)
  BY <1>a
<1>1. h = Head(b) /\ r = Tail(b)
  BY <1>b, <1>c
<1>2. <<h>> \in Seq(Frame) /\ Append(a, h) = a \o <<h>>
  BY AppendIsConcat
<1>3. <<h>> \o r = b
  <2>1. Len(b) \in Nat /\ Len(b) >= 1 /\ h = b[1] /\ Len(r) = Len(b) - 1
        /\ \A i \in 1..(Len(b) - 1) : r[i] = b[i + 1]
    BY <1>1
  <2>2. <<h>> \o r \in Seq(Frame) /\ Len(<<h>> \o r) = Len(b)
    BY <2>1
  <2>3. ASSUME NEW i \in 1..Len(b) PROVE (<<h>> \o r)[i] = b[i]
    <3>1. CASE i = 1
      BY <2>1, <3>1
    <3>2. CASE i # 1
      <4>1. (<<h>> \o r)[i] = r[i - 1] /\ i - 1 \in 1..(Len(b) - 1) /\ (i - 1) + 1 = i
        BY <2>1, <3>2
      <4> QED BY <2>1, <4>1
    <3> QED BY <3>1, <3>2
  <2> QED BY <2>2, <2>3, SeqEqual
<1>4. (a \o <<h>>) \o r = a \o (<<h>> \o r)
  BY <1>2, ConcatAssociative
<1> QED BY <1>1, <1>2, <1>3, <1>4

\* A stream through wire, queue and strand: appending to the last of them appends to the
\* whole, and moving a message from the head of one to the end of another changes nothing.
LEMMA Through ==
    \A a, b, c \in Seq(Frame) :
        /\ a \o b \o c \in Seq(Frame)
        /\ \A m \in Frame : a \o b \o Append(c, m) = Append(a \o b \o c, m)
        /\ c # <<>> => a \o Append(b, Head(c)) \o Tail(c) = a \o b \o c
        /\ b # <<>> => Append(a, Head(b)) \o Tail(b) \o c = a \o b \o c
<1> SUFFICES ASSUME NEW a \in Seq(Frame), NEW b \in Seq(Frame), NEW c \in Seq(Frame)
             PROVE  /\ a \o b \o c \in Seq(Frame)
                    /\ \A m \in Frame : a \o b \o Append(c, m) = Append(a \o b \o c, m)
                    /\ c # <<>> => a \o Append(b, Head(c)) \o Tail(c) = a \o b \o c
                    /\ b # <<>> => Append(a, Head(b)) \o Tail(b) \o c = a \o b \o c
  OBVIOUS
<1>1. a \o b \o c \in Seq(Frame) /\ a \o b \in Seq(Frame)
  OBVIOUS
<1>2. ASSUME NEW m \in Frame PROVE a \o b \o Append(c, m) = Append(a \o b \o c, m)
  <2>1. <<m>> \in Seq(Frame) /\ Append(c, m) = c \o <<m>>
        /\ Append(a \o b \o c, m) = (a \o b \o c) \o <<m>>
    BY <1>1, AppendIsConcat
  <2>2. (a \o b \o c) \o <<m>> = (a \o b) \o (c \o <<m>>)
    BY <1>1, <2>1, ConcatAssociative
  <2> QED BY <2>1, <2>2
<1>3. ASSUME c # <<>> PROVE a \o Append(b, Head(c)) \o Tail(c) = a \o b \o c
  <2>a. Append(b, Head(c)) \in Seq(Frame) /\ Tail(c) \in Seq(Frame)
    BY <1>3
  <2>b. PICK x \in Seq(Frame) : x = Append(b, Head(c))
    BY <2>a
  <2>1. PICK y \in Seq(Frame) : y = Tail(c)
    BY <2>a
  <2>2. x \o y = b \o c
    BY <1>3, <2>b, <2>1, HandOn
  <2>3. (a \o x) \o y = a \o (x \o y)
    BY ConcatAssociative
  <2>4. (a \o b) \o c = a \o (b \o c)
    BY ConcatAssociative
  <2> QED BY <2>b, <2>1, <2>2, <2>3, <2>4
<1>4. ASSUME b # <<>> PROVE Append(a, Head(b)) \o Tail(b) \o c = a \o b \o c
  BY <1>4, HandOn
<1> QED BY <1>1, <1>2, <1>3, <1>4

\* What is posted is appended to the stream.
LEMMA StreamPosts ==
    ASSUME TypeOK, NEW c \in Conns, NEW m \in Frame, Post(c, m), UNCHANGED <<wire, queue>>
    PROVE  Streams' = [Streams EXCEPT ![c] = Append(Streams[c], m)]
<1>1. /\ posted[c] \in Seq(Frame) /\ posted' = [posted EXCEPT ![c] = Append(posted[c], m)]
      /\ posted \in [Conns -> Seq(Frame)] /\ wire' = wire /\ queue' = queue
      /\ wire[c] \in Seq(Frame) /\ queue[c] \in Seq(Frame)
  BY DEF TypeOK, Post
<1>2. \A d \in Conns : posted'[d] = IF d = c THEN Append(posted[c], m) ELSE posted[d]
  BY <1>1
<1>3. wire[c] \o queue[c] \o Append(posted[c], m)
        = Append(wire[c] \o queue[c] \o posted[c], m)
  <2>1. \A x, y, z \in Seq(Frame) : \A p \in Frame : x \o y \o Append(z, p) = Append(x \o y \o z, p)
    BY Through
  <2> QED BY <1>1, <2>1
<1>4. \A d \in Conns : wire[d] \o queue[d] \o posted'[d]
                         = IF d = c THEN Append(Streams[c], m) ELSE Streams[d]
  BY <1>2, <1>3 DEF Streams, Stream
<1> QED BY <1>1, <1>4 DEF Streams, Stream

\* A message on its way to the wire stays where it is in the stream.
LEMMA StreamKept ==
    ASSUME TypeInv, NEW t \in Threads, NEW c \in Conns, OnSend(t, c) \/ OnWrite(t, c)
    PROVE  Streams' = Streams
<1>1. /\ wire \in [Conns -> Seq(Frame)] /\ queue \in [Conns -> Seq(Frame)]
      /\ posted \in [Conns -> Seq(Frame)]
      /\ wire[c] \in Seq(Frame) /\ queue[c] \in Seq(Frame) /\ posted[c] \in Seq(Frame)
  BY DEF TypeInv, TypeOK
<1>2. CASE OnSend(t, c)
  <2>1. /\ posted[c] # <<>> /\ wire' = wire
        /\ posted' = [posted EXCEPT ![c] = Tail(posted[c])]
        /\ queue' = [queue EXCEPT ![c] = Append(queue[c], Head(posted[c]))]
    BY <1>1, <1>2 DEF OnSend
  <2>2. wire[c] \o Append(queue[c], Head(posted[c])) \o Tail(posted[c])
          = wire[c] \o queue[c] \o posted[c]
    BY <1>1, <2>1, Through, Zenon
  <2>3. \A d \in Conns : wire'[d] \o queue'[d] \o posted'[d] = wire[d] \o queue[d] \o posted[d]
    BY <1>1, <2>1, <2>2
  <2> QED BY <2>3 DEF Streams, Stream
<1>3. CASE OnWrite(t, c)
  <2>1. /\ queue[c] # <<>> /\ posted' = posted
        /\ queue' = [queue EXCEPT ![c] = Tail(queue[c])]
        /\ wire' = [wire EXCEPT ![c] = Append(wire[c], Head(queue[c]))]
    BY <1>1, <1>3 DEF OnWrite, TypeInv, WritesHead
  <2>2. Append(wire[c], Head(queue[c])) \o Tail(queue[c]) \o posted[c]
          = wire[c] \o queue[c] \o posted[c]
    BY <1>1, <2>1, Through, Zenon
  <2>3. \A d \in Conns : wire'[d] \o queue'[d] \o posted'[d] = wire[d] \o queue[d] \o posted[d]
    BY <1>1, <2>1, <2>2
  <2> QED BY <2>3 DEF Streams, Stream
<1> QED BY <1>2, <1>3
-----------------------------------------------------------------------------
(* Who is broadcasting *)

\* The frames on the stacks, and those that thread t will not touch next.
Held == UNION {{stack[u][i] : i \in DOMAIN stack[u]} : u \in Threads}

Below(t) ==
    UNION {{stack[u][i] : i \in {k \in DOMAIN stack[u] : <<u, k>> # <<t, 1>>}} : u \in Threads}

\* A connection has one handler or destructor at a time.
OneFrame ==
    \A t, u \in Threads : \A i \in DOMAIN stack[t], j \in DOMAIN stack[u] :
        /\ stack[t][i].op # "drop" /\ stack[u][j].op # "drop"
        /\ stack[t][i].c = stack[u][j].c
        => t = u /\ i = j

\* The broadcast that t is in is the only one of its connection.
LEMMA Alone ==
    ASSUME OneFrame, stack \in [Threads -> Seq(StackFrame)], NEW t \in Threads, ~Idle(t)
    PROVE  /\ Top(t) \in Held /\ Below(t) \subseteq Held /\ Held \subseteq StackFrame
           /\ Top(t).op # "drop" =>
                 \A h \in Below(t) : h.op # "drop" => h.c # Top(t).c
<1>1. Top(t) = stack[t][1] /\ 1 \in DOMAIN stack[t]
  BY FramesAfter
<1>2. Top(t) \in Held /\ Below(t) \subseteq Held
  BY <1>1 DEF Held, Below
<1>3. Held \subseteq StackFrame
  BY DEF Held
<1>4. ASSUME Top(t).op # "drop", NEW h \in Below(t), h.op # "drop", h.c = Top(t).c
      PROVE  FALSE
  <2>a. PICK u \in Threads : \E i \in DOMAIN stack[u] : <<u, i>> # <<t, 1>> /\ h = stack[u][i]
    BY DEF Below
  <2>1. PICK i \in DOMAIN stack[u] : <<u, i>> # <<t, 1>> /\ h = stack[u][i]
    BY <2>a
  <2> QED BY <1>1, <1>4, <2>1 DEF OneFrame
<1> QED BY <1>2, <1>3, <1>4

\* What the stacks hold after a step of thread t.
LEMMA HeldAfter ==
    ASSUME stack \in [Threads -> Seq(StackFrame)], NEW t \in Threads
    PROVE  /\ \A f \in StackFrame : Push(t, f) => Held' \subseteq Held \cup {f}
           /\ ~Idle(t) =>
                /\ \A f \in StackFrame : Replace(t, f) => Held' \subseteq Below(t) \cup {f}
                /\ Pop(t) => Held' \subseteq Below(t)
                /\ \A f, g \in StackFrame :
                      stack' = [stack EXCEPT ![t] = <<f, g>> \o Tail(@)]
                          => Held' \subseteq Below(t) \cup {f, g}
<1>1. ASSUME NEW h \in Held'
      PROVE  \E u \in Threads : \E i \in DOMAIN stack'[u] : h = stack'[u][i]
  BY <1>1 DEF Held
<1>2. \A u \in Threads : \A j \in DOMAIN stack[u] :
        /\ stack[u][j] \in Held
        /\ <<u, j>> # <<t, 1>> => stack[u][j] \in Below(t)
  BY DEF Held, Below
<1>3. ASSUME NEW f \in StackFrame, Push(t, f), NEW h \in Held' PROVE h \in Held \cup {f}
  <2>a. PICK u \in Threads : \E i \in DOMAIN stack'[u] : h = stack'[u][i]
    BY <1>1
  <2>1. PICK i \in DOMAIN stack'[u] : h = stack'[u][i]
    BY <2>a
  <2>2. h = f \/ \E j \in DOMAIN stack[u] : h = stack[u][j]
    BY <1>3, <2>1, FramesAfter
  <2> QED BY <1>2, <2>2
<1>4. ASSUME ~Idle(t), NEW f \in StackFrame, Replace(t, f), NEW h \in Held'
      PROVE  h \in Below(t) \cup {f}
  <2>a. PICK u \in Threads : \E i \in DOMAIN stack'[u] : h = stack'[u][i]
    BY <1>1
  <2>1. PICK i \in DOMAIN stack'[u] : h = stack'[u][i]
    BY <2>a
  <2>2. h = f \/ \E j \in DOMAIN stack[u] : <<u, j>> # <<t, 1>> /\ h = stack[u][j]
    BY <1>4, <2>1, FramesAfter
  <2> QED BY <1>2, <2>2
<1>5. ASSUME ~Idle(t), Pop(t), NEW h \in Held' PROVE h \in Below(t)
  <2>a. PICK u \in Threads : \E i \in DOMAIN stack'[u] : h = stack'[u][i]
    BY <1>1
  <2>1. PICK i \in DOMAIN stack'[u] : h = stack'[u][i]
    BY <2>a
  <2>2. \E j \in DOMAIN stack[u] : <<u, j>> # <<t, 1>> /\ h = stack[u][j]
    BY <1>5, <2>1, FramesAfter
  <2> QED BY <1>2, <2>2
<1>6. ASSUME ~Idle(t), NEW f \in StackFrame, NEW g \in StackFrame,
             stack' = [stack EXCEPT ![t] = <<f, g>> \o Tail(@)], NEW h \in Held'
      PROVE  h \in Below(t) \cup {f, g}
  <2>a. PICK u \in Threads : \E i \in DOMAIN stack'[u] : h = stack'[u][i]
    BY <1>1
  <2>1. PICK i \in DOMAIN stack'[u] : h = stack'[u][i]
    BY <2>a
  <2>2. h = f \/ h = g \/ \E j \in DOMAIN stack[u] : <<u, j>> # <<t, 1>> /\ h = stack[u][j]
    BY <1>6, <2>1, FramesAfter
  <2> QED BY <1>2, <2>2
<1> QED BY <1>3, <1>4, <1>5, <1>6

\* The new stack r is the old one s with its first k places, all or none, gone and n new
\* ones on top.
Shifted(r, s, n, k) ==
    \A i \in DOMAIN r : i > n => i - n + k \in DOMAIN s /\ i - n + k > k /\ r[i] = s[i - n + k]

\* The places of the stack of t after a step.
LEMMA Shifts ==
    ASSUME stack \in [Threads -> Seq(StackFrame)], NEW t \in Threads
    PROVE  /\ \A f \in StackFrame : Push(t, f) =>
                 stack'[t][1] = f /\ Shifted(stack'[t], stack[t], 1, 0)
           /\ ~Idle(t) =>
                /\ \A f \in StackFrame : Replace(t, f) =>
                      stack'[t][1] = f /\ Shifted(stack'[t], stack[t], 1, 1)
                /\ Pop(t) => Shifted(stack'[t], stack[t], 0, 1)
                /\ \A f, g \in StackFrame :
                      stack' = [stack EXCEPT ![t] = <<f, g>> \o Tail(@)] =>
                          /\ stack'[t][1] = f /\ stack'[t][2] = g
                          /\ Shifted(stack'[t], stack[t], 2, 1)
<1> DEFINE s == stack[t] r == Tail(s)
<1>1. s \in Seq(StackFrame)
  OBVIOUS
<1>2. ASSUME ~Idle(t)
      PROVE  /\ r \in Seq(StackFrame) /\ Len(s) \in Nat /\ Len(s) >= 1 /\ Len(r) = Len(s) - 1
             /\ \A i \in 1..Len(r) : r[i] = s[i + 1]
  BY <1>1, <1>2 DEF Idle
<1>3. \A p \in Seq(StackFrame), f \in StackFrame :
        (<<f>> \o p)[1] = f /\ Shifted(<<f>> \o p, p, 1, 0)
  <2> SUFFICES ASSUME NEW p \in Seq(StackFrame), NEW f \in StackFrame
               PROVE  (<<f>> \o p)[1] = f /\ Shifted(<<f>> \o p, p, 1, 0)
    OBVIOUS
  <2> QED BY DEF Shifted
<1>4. \A p \in Seq(StackFrame), f, g \in StackFrame :
        /\ (<<f, g>> \o p)[1] = f /\ (<<f, g>> \o p)[2] = g
        /\ Shifted(<<f, g>> \o p, p, 2, 0)
  <2> SUFFICES ASSUME NEW p \in Seq(StackFrame), NEW f \in StackFrame, NEW g \in StackFrame
               PROVE  /\ (<<f, g>> \o p)[1] = f /\ (<<f, g>> \o p)[2] = g
                      /\ Shifted(<<f, g>> \o p, p, 2, 0)
    OBVIOUS
  <2> QED BY DEF Shifted
<1>5. /\ \A f : Push(t, f) => stack'[t] = <<f>> \o s
      /\ \A f : Replace(t, f) => stack'[t] = <<f>> \o r
      /\ Pop(t) => stack'[t] = r
      /\ \A f, g : stack' = [stack EXCEPT ![t] = <<f, g>> \o Tail(@)] => stack'[t] = <<f, g>> \o r
  BY DEF Push, Replace, Pop
<1> HIDE DEF s, r
<1>6. ASSUME ~Idle(t), NEW q, NEW n \in {0, 1, 2}, DOMAIN q \subseteq Nat, Shifted(q, r, n, 0)
      PROVE  Shifted(q, s, n, 1)
  <2>1. DOMAIN r = 1..Len(r) /\ DOMAIN s = 1..Len(s)
    BY <1>1, <1>2, <1>6
  <2> QED BY <1>2, <1>6, <2>1 DEF Shifted
<1>7. ASSUME ~Idle(t), NEW f \in StackFrame, Replace(t, f)
      PROVE  stack'[t][1] = f /\ Shifted(stack'[t], s, 1, 1)
  <2> DEFINE q == <<f>> \o r
  <2>1. stack'[t] = q
    BY <1>5, <1>7
  <2>2. q \in Seq(StackFrame)
    BY <1>2, <1>7, PushSeq
  <2>3. DOMAIN q = 1..Len(q) /\ DOMAIN q \subseteq Nat
    BY <2>2
  <2>4. q[1] = f /\ Shifted(q, r, 1, 0)
    BY <1>2, <1>3, <1>7
  <2> HIDE DEF q
  <2>5. Shifted(q, s, 1, 1)
    BY <1>6, <1>7, <2>3, <2>4
  <2> QED BY <2>1, <2>4, <2>5
<1>8. ASSUME ~Idle(t), Pop(t) PROVE Shifted(stack'[t], s, 0, 1)
  <2>1. stack'[t] = r /\ DOMAIN r = 1..Len(r) /\ DOMAIN s = 1..Len(s)
    BY <1>1, <1>2, <1>5, <1>8
  <2> QED BY <1>2, <1>8, <2>1 DEF Shifted
<1>9. ASSUME ~Idle(t), NEW f \in StackFrame, NEW g \in StackFrame,
             stack' = [stack EXCEPT ![t] = <<f, g>> \o Tail(@)]
      PROVE  stack'[t][1] = f /\ stack'[t][2] = g /\ Shifted(stack'[t], s, 2, 1)
  <2> DEFINE q == <<f, g>> \o r
  <2>1. stack'[t] = q
    BY <1>5, <1>9
  <2>2. q \in Seq(StackFrame)
    BY <1>2, <1>9
  <2>3. DOMAIN q = 1..Len(q) /\ DOMAIN q \subseteq Nat
    BY <2>2
  <2>4. q[1] = f /\ q[2] = g /\ Shifted(q, r, 2, 0)
    BY <1>2, <1>4, <1>9
  <2> HIDE DEF q
  <2>5. Shifted(q, s, 2, 1)
    BY <1>6, <1>9, <2>3, <2>4
  <2> QED BY <2>1, <2>4, <2>5
<1>10. \A f \in StackFrame : Push(t, f) => stack'[t][1] = f /\ Shifted(stack'[t], s, 1, 0)
  BY <1>1, <1>3, <1>5
<1> QED BY <1>7, <1>8, <1>9, <1>10 DEF s

\* A connection keeps to one frame if the new ones on top are at most one, the last of
\* them, and of a connection that has no other.
LEMMA OneShifted ==
    ASSUME OneFrame, NEW t \in Threads, NEW n \in {0, 1, 2}, NEW k \in {0, 1},
           DOMAIN stack[t] \subseteq Nat, DOMAIN stack'[t] \subseteq Nat \ {0},
           Shifted(stack'[t], stack[t], n, k),
           \A u \in Threads : u # t => stack'[u] = stack[u],
           \A i \in DOMAIN stack'[t] : i <= n /\ stack'[t][i].op # "drop" =>
               /\ i = n
               /\ \A u \in Threads : \A j \in DOMAIN stack[u] :
                     (u = t => j > k) /\ stack[u][j].op # "drop"
                         => stack[u][j].c # stack'[t][i].c
    PROVE  OneFrame'
<1> SUFFICES ASSUME NEW u \in Threads, NEW v \in Threads,
                    NEW i \in DOMAIN stack'[u], NEW j \in DOMAIN stack'[v],
                    stack'[u][i].op # "drop", stack'[v][j].op # "drop",
                    stack'[u][i].c = stack'[v][j].c
             PROVE  u = v /\ i = j
  BY DEF OneFrame
<1>1. ASSUME NEW w \in Threads, NEW l \in DOMAIN stack'[w], ~(w = t /\ l <= n)
      PROVE  \E m \in DOMAIN stack[w] :
                /\ stack'[w][l] = stack[w][m]
                /\ IF w = t THEN m = l - n + k /\ m > k ELSE m = l
  BY <1>1 DEF Shifted
<1>2. CASE u = t /\ i <= n
  <2>1. CASE v = t /\ j <= n
    BY <1>2, <2>1
  <2>2. CASE ~(v = t /\ j <= n)
    <3>1. PICK m \in DOMAIN stack[v] : stack'[v][j] = stack[v][m] /\ (v = t => m > k)
      BY <1>1, <2>2
    <3> QED BY <1>2, <3>1
  <2> QED BY <2>1, <2>2
<1>3. CASE ~(u = t /\ i <= n)
  <2>1. PICK m \in DOMAIN stack[u] :
            /\ stack'[u][i] = stack[u][m]
            /\ IF u = t THEN m = i - n + k /\ m > k ELSE m = i
    BY <1>1, <1>3
  <2>2. CASE v = t /\ j <= n
    BY <2>1, <2>2
  <2>3. CASE ~(v = t /\ j <= n)
    <3>1. PICK l \in DOMAIN stack[v] :
            /\ stack'[v][j] = stack[v][l]
            /\ IF v = t THEN l = j - n + k /\ l > k ELSE l = j
      BY <1>1, <2>3
    <3>2. u = v /\ m = l
      BY <2>1, <3>1 DEF OneFrame
    <3> QED BY <2>1, <3>1, <3>2
  <2> QED BY <2>2, <2>3
<1> QED BY <1>2, <1>3

\* No frame of F broadcasts for c.
None(F, c) == \A h \in F : h.op # "drop" => h.c # c

\* The same in terms of the step that is taken.
LEMMA OneFrameAfter ==
    ASSUME OneFrame, stack \in [Threads -> Seq(StackFrame)],
           stack' \in [Threads -> Seq(StackFrame)], NEW t \in Threads,
           NEW f \in StackFrame, NEW g \in StackFrame,
           \/ Push(t, f) /\ (f.op # "drop" => None(Held, f.c))
           \/ ~Idle(t) /\ Replace(t, f) /\ (f.op # "drop" => None(Below(t), f.c))
           \/ ~Idle(t) /\ Pop(t)
           \/ /\ ~Idle(t) /\ stack' = [stack EXCEPT ![t] = <<f, g>> \o Tail(@)]
              /\ f.op = "drop" /\ None(Below(t), g.c)
    PROVE  OneFrame'
<1>1. /\ DOMAIN stack[t] \subseteq Nat /\ DOMAIN stack'[t] \subseteq Nat \ {0}
  <2>1. stack[t] \in Seq(StackFrame) /\ stack'[t] \in Seq(StackFrame)
    OBVIOUS
  <2> QED BY <2>1
<1>2. \A u \in Threads : u # t => stack'[u] = stack[u]
  BY DEF Push, Replace, Pop
<1>3. \A u \in Threads : \A j \in DOMAIN stack[u] :
        /\ stack[u][j] \in Held
        /\ (u = t => j > 1) => stack[u][j] \in Below(t)
  <2> SUFFICES ASSUME NEW u \in Threads, NEW j \in DOMAIN stack[u]
               PROVE  /\ stack[u][j] \in Held
                      /\ (u = t => j > 1) => stack[u][j] \in Below(t)
    OBVIOUS
  <2>1. stack[u][j] \in Held
    BY DEF Held
  <2>2. ASSUME u = t => j > 1 PROVE stack[u][j] \in Below(t)
    <3>1. <<u, j>> # <<t, 1>>
      BY <2>2
    <3> QED BY <3>1 DEF Below
  <2> QED BY <2>1, <2>2
<1>4. CASE Push(t, f) /\ (f.op # "drop" => None(Held, f.c))
  <2>1. stack'[t][1] = f /\ Shifted(stack'[t], stack[t], 1, 0)
    BY <1>4, Shifts
  <2>2. ASSUME NEW i \in DOMAIN stack'[t], i <= 1, stack'[t][i].op # "drop"
        PROVE  /\ i = 1
               /\ \A u \in Threads : \A j \in DOMAIN stack[u] :
                     (u = t => j > 0) /\ stack[u][j].op # "drop"
                         => stack[u][j].c # stack'[t][i].c
    <3>1. i = 1 /\ stack'[t][i] = f
      BY <1>1, <2>1, <2>2
    <3> QED BY <1>3, <1>4, <2>2, <3>1 DEF None
  <2> QED BY <1>1, <1>2, <2>1, <2>2, OneShifted
<1>5. CASE ~Idle(t) /\ Replace(t, f) /\ (f.op # "drop" => None(Below(t), f.c))
  <2>1. stack'[t][1] = f /\ Shifted(stack'[t], stack[t], 1, 1)
    BY <1>5, Shifts
  <2>2. ASSUME NEW i \in DOMAIN stack'[t], i <= 1, stack'[t][i].op # "drop"
        PROVE  /\ i = 1
               /\ \A u \in Threads : \A j \in DOMAIN stack[u] :
                     (u = t => j > 1) /\ stack[u][j].op # "drop"
                         => stack[u][j].c # stack'[t][i].c
    <3>1. i = 1 /\ stack'[t][i] = f
      BY <1>1, <2>1, <2>2
    <3> QED BY <1>3, <1>5, <2>2, <3>1 DEF None
  <2> QED BY <1>1, <1>2, <2>1, <2>2, OneShifted
<1>6. CASE ~Idle(t) /\ Pop(t)
  <2>1. Shifted(stack'[t], stack[t], 0, 1)
    BY <1>6, Shifts
  <2>2. \A i \in DOMAIN stack'[t] : ~(i <= 0)
    BY <1>1
  <2> QED BY <1>1, <1>2, <2>1, <2>2, OneShifted
<1>7. CASE /\ ~Idle(t) /\ stack' = [stack EXCEPT ![t] = <<f, g>> \o Tail(@)]
           /\ f.op = "drop" /\ None(Below(t), g.c)
  <2>1. stack'[t][1] = f /\ stack'[t][2] = g /\ Shifted(stack'[t], stack[t], 2, 1)
    BY <1>7, Shifts
  <2>2. ASSUME NEW i \in DOMAIN stack'[t], i <= 2, stack'[t][i].op # "drop"
        PROVE  /\ i = 2
               /\ \A u \in Threads : \A j \in DOMAIN stack[u] :
                     (u = t => j > 1) /\ stack[u][j].op # "drop"
                         => stack[u][j].c # stack'[t][i].c
    <3>1. i = 1 \/ i = 2
      BY <1>1, <2>2
    <3>2. i = 2 /\ stack'[t][i] = g
      BY <1>7, <2>1, <2>2, <3>1
    <3> QED BY <1>3, <1>7, <2>2, <3>2 DEF None
  <2> QED BY <1>1, <1>2, <2>1, <2>2, OneShifted
<1> QED BY <1>4, <1>5, <1>6, <1>7
-----------------------------------------------------------------------------
(* Sessions in order *)

Kinds == {"connect", "chat", "disconnect", "error"}

\* The handshake of c is done.
Started(c) == conn[c] \notin {"none", "handshake"}

\* A broadcast may still send to x.
Awaits(f, x) == (f.pc = "lock" /\ (f.op = "connect" => x # f.c)) \/ x \in f.todo

\* A frame broadcasts the newest message of its own connection, which nobody it may still
\* send to has been sent, and while it does nothing more is read from that user.
Good(f) ==
    /\ f.op = "drop" <=> f.pc = "drop"
    /\ f.op # "drop" => Started(f.c)
    /\ f.op = "connect" => /\ f.m = Connected(f.c) /\ said[f.c] = 0
                           /\ ~reading[f.c] /\ f.c \notin clients \cup f.todo
    /\ f.op = "chat" => /\ \E a \in Kinds : f.m = NewChatMessage(a, f.c, said[f.c])
                        /\ said[f.c] \in Ordinals /\ ~reading[f.c]
    /\ f.op = "dtor" => f.m = Disconnected(f.c)
    /\ \A x \in Conns : Awaits(f, x) => ~Heard(Streams[x], f.m)

GoodFrames == \A f \in Held : Good(f)

\* Nobody hears of a session what has not happened yet.
Begun ==
    \A d \in Conns :
        /\ ~Started(d) => said[d] = 0 /\ ~reading[d] /\ d \notin clients
        /\ \A x \in Conns :
            /\ Heard(Streams[x], Connected(d)) => Started(d)
            /\ Heard(Streams[x], Disconnected(d)) => ~Alive(d)
            /\ \A a \in Kinds, k \in Ordinals :
                  Heard(Streams[x], NewChatMessage(a, d, k)) => k <= said[d]

\* What s tells of the session of d it tells in order.
Ordered(s, d) ==
    /\ Once(s, Connected(d)) /\ Once(s, Disconnected(d)) /\ \A k \in Ordinals : Once(s, Chat(d, k))
    /\ NotAfter(s, Connected(d), Disconnected(d))
    /\ \A k \in Ordinals :
        /\ NotAfter(s, Connected(d), Chat(d, k))
        /\ NotAfter(s, Chat(d, k), Disconnected(d))
        /\ k > 1 => NotAfter(s, Chat(d, k - 1), Chat(d, k))

InOrder == \A x, d \in Conns : Ordered(Streams[x], d)

Sessions == OneFrame /\ GoodFrames /\ Begun /\ InOrder

\* The messages of the server are told apart.
LEMMA Apart ==
    /\ \A c, d \in Conns :
        /\ Connected(c) # Disconnected(d) /\ Connected(c) # ErrorTo(d)
        /\ Disconnected(c) # ErrorTo(d)
        /\ Connected(c) = Connected(d) => c = d
        /\ Disconnected(c) = Disconnected(d) => c = d
    /\ \A c, d \in Conns, a \in Kinds, k \in Ordinals :
        /\ Connected(c) # NewChatMessage(a, d, k)
        /\ Disconnected(c) # NewChatMessage(a, d, k)
        /\ ErrorTo(c) # NewChatMessage(a, d, k)
    /\ \A c, d \in Conns, a, b \in Kinds, k, l \in Ordinals :
          NewChatMessage(a, c, k) = NewChatMessage(b, d, l) => c = d /\ k = l
<1>1. \A k \in Ordinals : k # 0
  BY CppAssumption DEF Ordinals
<1> QED BY <1>1 DEF Connected, Disconnected, ErrorTo, NewSystemMessage, NewChatMessage

\* A broadcast is about its own connection, and its kind says what it is.
LEMMA OwnMessage ==
    ASSUME NEW h \in StackFrame, Good(h), h.op # "drop"
    PROVE  /\ h.m.user = h.c
           /\ \A e \in Conns :
                /\ h.m = Connected(e) => h.op = "connect" /\ e = h.c
                /\ h.m = Disconnected(e) => h.op = "dtor" /\ e = h.c
                /\ h.m # ErrorTo(e)
                /\ \A a \in Kinds, k \in Ordinals :
                      h.m = NewChatMessage(a, e, k) => h.op = "chat" /\ e = h.c /\ k = said[e]
<1>1. h.c \in Conns /\ h.op \in {"connect", "chat", "dtor"}
  BY DEF StackFrame
<1>2. CASE h.op = "connect"
  <2>1. h.m = Connected(h.c)
    BY <1>2 DEF Good
  <2>2. h.m.user = h.c
    BY <2>1 DEF Connected, NewSystemMessage
  <2> QED BY <1>1, <1>2, <2>1, <2>2, Apart
<1>3. CASE h.op = "chat"
  <2>1. PICK a \in Kinds : h.m = NewChatMessage(a, h.c, said[h.c]) /\ said[h.c] \in Ordinals
    BY <1>3 DEF Good
  <2>2. h.m.user = h.c
    BY <2>1 DEF NewChatMessage
  <2> QED BY <1>1, <1>3, <2>1, <2>2, Apart
<1>4. CASE h.op = "dtor"
  <2>1. h.m = Disconnected(h.c)
    BY <1>4 DEF Good
  <2>2. h.m.user = h.c
    BY <2>1 DEF Disconnected, NewSystemMessage
  <2> QED BY <1>1, <1>4, <2>1, <2>2, Apart
<1> QED BY <1>1, <1>2, <1>3, <1>4

\* A shared_ptr about to be released broadcasts nothing.
LEMMA DropGood == \A c : Good(Drop(c)) /\ Good(Drop(c))'
BY DEF Good, Drop, Awaits

\* A frame stays good while its connection does nothing and nobody it may still send to is
\* sent its message.
LEMMA GoodKept ==
    ASSUME NEW h \in StackFrame, Good(h), Sound(h),
           h.op # "drop" =>
              /\ Started(h.c) => Started(h.c)'
              /\ said'[h.c] = said[h.c] /\ (reading'[h.c] => reading[h.c])
              /\ h.c \in clients' => h.c \in clients
              /\ \A x \in Conns : Heard(Streams'[x], h.m) => Heard(Streams[x], h.m) \/ ~Awaits(h, x)
    PROVE  Good(h)'
<1>1. CASE h.op = "drop"
  <2>1. h.pc = "drop" /\ h.todo = {}
    BY <1>1 DEF Good, Sound
  <2> QED BY <1>1, <2>1 DEF Good, Awaits
<1>2. CASE h.op # "drop"
  BY <1>2 DEF Good, Awaits
<1> QED BY <1>1, <1>2

\* Appending to a stream what it has not told yet, nothing later having been told, keeps
\* it in order.
LEMMA OrderedAppend ==
    ASSUME NEW s \in Seq(Frame), NEW m \in Frame, NEW d \in Conns, Ordered(s, d),
           m = Connected(d) =>
              /\ ~Heard(s, m) /\ ~Heard(s, Disconnected(d))
              /\ \A k \in Ordinals : ~Heard(s, Chat(d, k)),
           m = Disconnected(d) => ~Heard(s, m),
           \A k \in Ordinals : m = Chat(d, k) =>
              /\ ~Heard(s, m) /\ ~Heard(s, Disconnected(d))
              /\ \A l \in Ordinals : l > k => ~Heard(s, Chat(d, l))
    PROVE  Ordered(Append(s, m), d)
<1> DEFINE r == Append(s, m)
<1>1. /\ \A x : Once(s, x) /\ (x = m => ~Heard(s, x)) => Once(r, x)
      /\ \A x, y : NotAfter(s, x, y) /\ x # y /\ (x = m => ~Heard(s, y)) => NotAfter(r, x, y)
  BY AppendStream
<1> HIDE DEF r
<1>2. \A k \in Ordinals :
        /\ Connected(d) # Chat(d, k) /\ Disconnected(d) # Chat(d, k)
        /\ \A l \in Ordinals : Chat(d, k) = Chat(d, l) => k = l
  BY Apart DEF Chat, Kinds
<1>3. Connected(d) # Disconnected(d)
  BY Apart
<1>4. Once(r, Connected(d)) /\ Once(r, Disconnected(d)) /\ \A k \in Ordinals : Once(r, Chat(d, k))
  BY <1>1 DEF Ordered
<1>5. NotAfter(r, Connected(d), Disconnected(d))
  BY <1>1, <1>3 DEF Ordered
<1>6. ASSUME NEW k \in Ordinals
      PROVE  NotAfter(r, Connected(d), Chat(d, k)) /\ NotAfter(r, Chat(d, k), Disconnected(d))
  BY <1>1, <1>2 DEF Ordered
<1>7. ASSUME NEW k \in Ordinals, k > 1 PROVE NotAfter(r, Chat(d, k - 1), Chat(d, k))
  <2>1. k - 1 \in Ordinals /\ k > k - 1 /\ k - 1 # k
    BY <1>7, CppAssumption DEF Ordinals
  <2>2. NotAfter(s, Chat(d, k - 1), Chat(d, k)) /\ Chat(d, k - 1) # Chat(d, k)
    BY <1>2, <1>7, <2>1 DEF Ordered
  <2>3. Chat(d, k - 1) = m => ~Heard(s, Chat(d, k))
    BY <2>1
  <2> QED BY <1>1, <2>2, <2>3
<1> QED BY <1>4, <1>5, <1>6, <1>7 DEF Ordered, r

\* Nothing has happened at the start.
LEMMA SessionsInit == Init => Sessions
<1> SUFFICES ASSUME Init PROVE Sessions
  OBVIOUS
<1>1. \A c \in Conns : Streams[c] = <<>>
  BY DEF Init, Streams, Stream
<1>2. \A t \in Threads : stack[t] = <<>>
  BY DEF Init
<1>3. OneFrame /\ GoodFrames
  BY <1>2 DEF OneFrame, GoodFrames, Held
<1>4. Begun
  BY <1>1 DEF Init, Begun, Heard
<1>5. \A c, d \in Conns : Ordered(Streams[c], d)
  BY <1>1 DEF Ordered, Once, NotAfter
<1> QED BY <1>3, <1>4, <1>5 DEF Sessions, InOrder

\* Whatever is not posted, the streams stay.
LEMMA StreamsStill == UNCHANGED <<wire, queue, posted>> => Streams' = Streams
BY DEF Streams, Stream

\* Every stream is a sequence of messages.
LEMMA StreamTypes == TypeOK => Streams \in [Conns -> Seq(Frame)]
<1> SUFFICES ASSUME TypeOK, NEW c \in Conns PROVE Stream(c) \in Seq(Frame)
  BY DEF Streams
<1>1. wire[c] \in Seq(Frame) /\ queue[c] \in Seq(Frame) /\ posted[c] \in Seq(Frame)
  BY DEF TypeOK
<1> QED BY <1>1, Through DEF Stream

\* A step that posts nothing, ends no handshake and takes no message leaves what the users
\* have heard as it was.
LEMMA BegunKept ==
    ASSUME Begun, Streams' = Streams, said' = said,
           \A d \in Conns : /\ Started(d) => Started(d)'
                            /\ Alive(d)' => Alive(d)
                            /\ ~Started(d)' => reading'[d] = reading[d]
                                               /\ (d \in clients' => d \in clients)
    PROVE  Begun'
BY DEF Begun

\* A step that posts nothing leaves every stream in order.
LEMMA InOrderKept == ASSUME InOrder, Streams' = Streams PROVE InOrder'
BY DEF InOrder, Ordered

\* A step inside a broadcast or a release leaves everybody's session in order.
LEMMA SessionsInside ==
    ASSUME TypeInv, TypeInv', Pointers, Sessions, NEW t \in Threads, Inside(t)
    PROVE  Sessions'
<1> USE DEF cvars, uvars
<1>0. /\ stack \in [Threads -> Seq(StackFrame)] /\ stack' \in [Threads -> Seq(StackFrame)]
      /\ conn \in [Conns -> {"none", "handshake", "open", "dying", "freed"}]
      /\ clients \subseteq Conns /\ reading \in [Conns -> BOOLEAN]
      /\ TypeOK /\ OneFrame /\ GoodFrames /\ Begun /\ InOrder
      /\ Streams \in [Conns -> Seq(Frame)]
  BY StreamTypes DEF TypeInv, TypeOK, StackFrame, Sessions
<1>1. /\ ~Idle(t) /\ Top(t) \in StackFrame /\ Top(t).c \in Conns /\ Top(t).m \in Frame
      /\ Top(t).todo \subseteq Conns
  BY <1>0, StackTypes
     DEF Inside, LockShared, Visit, Unlock, Insert, ReadOn, Erase, Release, StackFrame
<1>2. /\ Top(t) \in Held /\ Below(t) \subseteq Held /\ Held \subseteq StackFrame
      /\ Top(t).op # "drop" => None(Below(t), Top(t).c)
  BY <1>0, <1>1, Alone DEF None
<1>3. /\ \A h \in Held : Good(h) /\ Sound(h) /\ h \in StackFrame
      /\ \A h \in Below(t) : Good(h) /\ Sound(h) /\ h \in StackFrame
  <2>1. \A h \in Held : \E u \in Threads : \E i \in DOMAIN stack[u] : h = stack[u][i]
    BY DEF Held
  <2>2. \A h \in Held : Sound(h)
    BY <2>1 DEF Pointers, SoundFrames
  <2> QED BY <1>0, <1>2, <2>2 DEF GoodFrames
<1>4. Good(Top(t)) /\ Sound(Top(t))
  BY <1>2, <1>3
<1>5. \A c \in Conns : Drop(c) \in StackFrame /\ Drop(c).op = "drop"
  BY FrameTypes DEF Drop
<1>6. ASSUME LockShared(t) \/ Unlock(t) PROVE Sessions'
  <2>1. /\ UNCHANGED <<conn, clients, reading, said>> /\ Streams' = Streams
    BY <1>6, StreamsStill DEF LockShared, Unlock
  <2>2. PICK f \in StackFrame : /\ Replace(t, f) /\ Good(f)'
                                /\ f.op = Top(t).op /\ f.c = Top(t).c
    <3>1. CASE LockShared(t)
      <4>0. PICK f \in StackFrame : f = [Top(t) EXCEPT !.pc = "loop", !.todo = clients]
        BY <1>0, <1>1 DEF StackFrame
      <4>1. /\ f \in StackFrame /\ f.op = Top(t).op /\ f.c = Top(t).c /\ f.m = Top(t).m
            /\ f.pc = "loop" /\ f.todo = clients /\ Replace(t, f)
        BY <1>0, <1>1, <3>1, <4>0 DEF StackFrame, LockShared
      <4>2. Good(f)
        BY <1>0, <1>4, <3>1, <4>1 DEF Good, Awaits, LockShared
      <4>3. Good(f)'
        BY <2>1, <4>2 DEF Good, Started
      <4> QED BY <4>1, <4>3
    <3>2. CASE Unlock(t)
      <4>0. PICK f \in StackFrame : f = [Top(t) EXCEPT !.pc = "finish"]
        BY <1>1 DEF StackFrame
      <4>1. /\ f \in StackFrame /\ f.op = Top(t).op /\ f.c = Top(t).c /\ f.m = Top(t).m
            /\ f.pc = "finish" /\ f.todo = {} /\ Replace(t, f)
        BY <1>1, <3>2, <4>0 DEF StackFrame, Unlock
      <4>2. Good(f)
        BY <1>4, <3>2, <4>1 DEF Good, Awaits, Unlock
      <4>3. Good(f)'
        BY <2>1, <4>2 DEF Good, Started
      <4> QED BY <4>1, <4>3
    <3> QED BY <1>6, <3>1, <3>2
  <2>3. Top(t).op # "drop"
    BY <1>4, <1>6 DEF LockShared, Unlock, Good
  <2>4. OneFrame'
    BY <1>0, <1>1, <1>2, <2>2, <2>3, OneFrameAfter
  <2>5. \A h : Good(h) => Good(h)'
    BY <2>1 DEF Good, Started
  <2>6. GoodFrames'
    <3>1. Held' \subseteq Below(t) \cup {f}
      BY <1>0, <1>1, <2>2, HeldAfter
    <3> QED BY <1>3, <2>2, <2>5, <3>1 DEF GoodFrames
  <2>7. Begun' /\ InOrder'
    BY <1>0, <2>1, BegunKept, InOrderKept DEF Started, Alive
  <2> QED BY <2>4, <2>6, <2>7 DEF Sessions
<1>7. ASSUME Visit(t) PROVE Sessions'
  <2>1. PICK d \in Top(t).todo :
          \/ Replace(t, [Top(t) EXCEPT !.todo = @ \ {d}]) /\ UNCHANGED posted
          \/ /\ stack' = [stack EXCEPT ![t] =
                             <<Drop(d), [Top(t) EXCEPT !.todo = @ \ {d}]>> \o Tail(@)]
             /\ Post(d, Top(t).m)
    BY <1>7 DEF Visit
  <2> DEFINE c == Top(t).c
             m == Top(t).m
  <2>2. /\ UNCHANGED <<conn, clients, reading, said, wire, queue>> /\ Top(t).pc = "loop"
        /\ Top(t).op # "drop" /\ d \in Conns
    BY <1>1, <1>4, <1>7 DEF Visit, Good
  <2>3. PICK g \in StackFrame : g = Drop(d) /\ g.op = "drop" /\ Good(g)'
    BY <1>5, <2>2, DropGood
  <2>4. PICK f \in StackFrame : f = [Top(t) EXCEPT !.todo = @ \ {d}]
    BY <1>1 DEF StackFrame
  <2>5. /\ f.op = Top(t).op /\ f.c = c /\ f.m = m /\ f.pc = "loop" /\ f.todo = Top(t).todo \ {d}
    BY <1>1, <2>2, <2>4 DEF StackFrame
  <2>6. \/ Streams' = Streams
        \/ Streams' = [Streams EXCEPT ![d] = Append(Streams[d], m)]
    BY <1>0, <1>1, <2>1, <2>2, StreamPosts, StreamsStill
  <2>7. /\ m.user = c
        /\ \A e \in Conns :
              /\ m = Connected(e) => Top(t).op = "connect" /\ e = c
              /\ m = Disconnected(e) => Top(t).op = "dtor" /\ e = c
              /\ m # ErrorTo(e)
              /\ \A a \in Kinds, k \in Ordinals :
                    m = NewChatMessage(a, e, k) => Top(t).op = "chat" /\ e = c /\ k = said[e]
    BY <1>1, <1>4, <2>2, OwnMessage
  <2>8. ~Heard(Streams[d], m)
    BY <1>4, <2>2 DEF Good, Awaits
  <2>a. \A z : Heard(Append(Streams[d], m), z) <=> Heard(Streams[d], z) \/ z = m
    BY <1>0, <1>1, <2>2, AppendStream
  <2>b. \A x \in Conns : Streams'[x] = Streams[x] \/ (x = d /\ Streams'[x] = Append(Streams[d], m))
    BY <1>0, <2>2, <2>6
  <2>9. \A x \in Conns : \A z : Heard(Streams'[x], z) => Heard(Streams[x], z) \/ (x = d /\ z = m)
    BY <2>a, <2>b
  <2>10. /\ Replace(t, f) \/ stack' = [stack EXCEPT ![t] = <<g, f>> \o Tail(@)]
    BY <2>1, <2>3, <2>4
  <2>11. None(Below(t), c)
    BY <1>2, <2>2
  <2> HIDE DEF c, m
  <2>12. OneFrame'
    <3>1. CASE Replace(t, f)
      BY <1>0, <1>1, <2>5, <2>11, <3>1, OneFrameAfter
    <3>2. CASE stack' = [stack EXCEPT ![t] = <<g, f>> \o Tail(@)]
      BY <1>0, <1>1, <2>3, <2>5, <2>11, <3>2, OneFrameAfter
    <3> QED BY <2>10, <3>1, <3>2
  <2>13. Good(f)'
    <3>1. ASSUME NEW x \in Conns, Awaits(f, x) PROVE ~Heard(Streams'[x], m)
      <4>1. x \in Top(t).todo /\ x # d
        BY <2>5, <3>1 DEF Awaits
      <4>2. ~Heard(Streams[x], m)
        BY <1>4, <4>1 DEF Good, Awaits, m
      <4> QED BY <2>9, <4>1, <4>2
    <3> QED BY <1>4, <2>2, <2>5, <3>1 DEF Good, Started, Awaits, c, m
  <2>14. ASSUME NEW h \in Below(t) PROVE Good(h)'
    <3>1. Good(h) /\ Sound(h) /\ h \in StackFrame
      BY <1>3
    <3>2. h.op # "drop" => h.m # m
      BY <2>7, <2>11, <3>1, OwnMessage DEF None
    <3> QED BY <2>2, <2>9, <3>1, <3>2, GoodKept DEF Started
  <2>15. GoodFrames'
    <3>1. Held' \subseteq Below(t) \cup {f, g}
      BY <1>0, <1>1, <2>10, HeldAfter
    <3> QED BY <2>3, <2>13, <2>14, <3>1 DEF GoodFrames
  <2>16. Begun'
    <3>1. \A e \in Conns : ~Started(e)' => said'[e] = 0 /\ ~reading'[e] /\ e \notin clients'
      BY <1>0, <2>2 DEF Begun, Started
    <3>2. ASSUME NEW e \in Conns, NEW x \in Conns, Heard(Streams'[x], Connected(e))
          PROVE  Started(e)'
      BY <1>0, <1>4, <2>2, <2>7, <2>9, <3>2 DEF Begun, Started, Good, c
    <3>3. ASSUME NEW e \in Conns, NEW x \in Conns, Heard(Streams'[x], Disconnected(e))
          PROVE  ~Alive(e)'
      BY <1>0, <1>4, <2>2, <2>7, <2>9, <3>3 DEF Begun, Alive, Sound, c
    <3>4. ASSUME NEW e \in Conns, NEW x \in Conns, NEW a \in Kinds, NEW k \in Ordinals,
                 Heard(Streams'[x], NewChatMessage(a, e, k))
          PROVE  k <= said'[e]
      <4>1. Heard(Streams[x], NewChatMessage(a, e, k)) \/ k = said[e]
        BY <2>7, <2>9, <3>4
      <4>2. k <= said[e]
        BY <1>0, <4>1 DEF Begun, Ordinals
      <4> QED BY <2>2, <4>2
    <3> QED BY <3>1, <3>2, <3>3, <3>4 DEF Begun
  <2>17. InOrder'
    <3>1. CASE Streams' = Streams
      BY <1>0, <3>1, InOrderKept
    <3>2. CASE Streams' = [Streams EXCEPT ![d] = Append(Streams[d], m)]
      <4>1. ASSUME NEW e \in Conns PROVE Ordered(Append(Streams[d], m), e)
        <5>1. Streams[d] \in Seq(Frame) /\ m \in Frame /\ Ordered(Streams[d], e)
          BY <1>0, <1>1, <2>2 DEF InOrder, m
        <5>2. m = Connected(e) => /\ ~Heard(Streams[d], Disconnected(e))
                                  /\ \A k \in Ordinals : ~Heard(Streams[d], Chat(e, k))
          <6> SUFFICES ASSUME m = Connected(e)
                       PROVE  /\ ~Heard(Streams[d], Disconnected(e))
                              /\ \A k \in Ordinals : ~Heard(Streams[d], Chat(e, k))
            OBVIOUS
          <6>1. e = c /\ Top(t).op = "connect" /\ said[e] = 0 /\ Alive(e)
            BY <1>4, <2>7 DEF Good, Sound, c
          <6>2. \A k \in Ordinals : ~(k <= 0)
            BY CppAssumption DEF Ordinals
          <6> QED BY <1>0, <2>2, <6>1, <6>2 DEF Begun, Chat, Kinds
        <5>3. ASSUME NEW k \in Ordinals, m = Chat(e, k)
              PROVE  /\ ~Heard(Streams[d], Disconnected(e))
                     /\ \A l \in Ordinals : l > k => ~Heard(Streams[d], Chat(e, l))
          <6>1. e = c /\ Top(t).op = "chat" /\ said[e] = k /\ Alive(e)
            BY <1>4, <2>7, <5>3 DEF Good, Sound, c, Chat, Kinds
          <6>2. \A l \in Ordinals : l > k => ~(l <= k)
            BY CppAssumption DEF Ordinals
          <6> QED BY <1>0, <2>2, <6>1, <6>2 DEF Begun, Chat, Kinds
        <5> QED BY <2>8, <5>1, <5>2, <5>3, OrderedAppend DEF m
      <4>2. \A x \in Conns : Streams'[x] = IF x = d THEN Append(Streams[d], m) ELSE Streams[x]
        BY <1>0, <3>2
      <4> QED BY <1>0, <4>1, <4>2 DEF InOrder
    <3> QED BY <2>6, <3>1, <3>2 DEF m
  <2> QED BY <2>12, <2>15, <2>16, <2>17 DEF Sessions
<1>8. ASSUME Insert(t) \/ ReadOn(t) PROVE Sessions'
  <2> DEFINE c == Top(t).c
  <2>1. /\ UNCHANGED <<conn, said>> /\ Streams' = Streams /\ Replace(t, Drop(c))
        /\ clients' \subseteq clients \cup {c} /\ reading' = [reading EXCEPT ![c] = TRUE]
        /\ Top(t).op # "drop" /\ c \in Conns /\ Started(c)
    BY <1>1, <1>4, <1>8, StreamsStill DEF Insert, ReadOn, Good
  <2>2. PICK f \in StackFrame : f = Drop(c) /\ f.op = "drop" /\ Good(f)'
    BY <1>5, <2>1, DropGood
  <2>3. None(Below(t), c) /\ Replace(t, f)
    BY <1>2, <2>1, <2>2
  <2>4. \A d \in Conns : d # c => reading'[d] = reading[d]
    BY <1>0, <2>1
  <2> HIDE DEF c
  <2>5. OneFrame'
    BY <1>0, <1>1, <2>2, <2>3, OneFrameAfter
  <2>6. ASSUME NEW h \in Below(t) PROVE Good(h)'
    <3>1. Good(h) /\ Sound(h) /\ h \in StackFrame /\ h.c \in Conns
      BY <1>3 DEF StackFrame
    <3>2. h.op # "drop" => h.c # c
      BY <2>3 DEF None
    <3> QED BY <2>1, <2>4, <3>1, <3>2, GoodKept DEF Started
  <2>7. GoodFrames'
    <3>1. Held' \subseteq Below(t) \cup {f}
      BY <1>0, <1>1, <2>3, HeldAfter
    <3> QED BY <2>2, <2>6, <3>1 DEF GoodFrames
  <2>8. Begun'
    <3>1. \A d \in Conns : ~Started(d) => reading'[d] = reading[d] /\ (d \in clients' => d \in clients)
      BY <2>1, <2>4
    <3> QED BY <1>0, <2>1, <3>1, BegunKept DEF Started, Alive
  <2>9. InOrder'
    BY <1>0, <2>1, InOrderKept
  <2> QED BY <2>5, <2>7, <2>8, <2>9 DEF Sessions
<1>9. ASSUME Erase(t) PROVE Sessions'
  <2>1. /\ UNCHANGED <<reading, said>> /\ Streams' = Streams /\ Pop(t) /\ clients' \subseteq clients
        /\ conn' = [conn EXCEPT ![Top(t).c] = "freed"]
    BY <1>9, StreamsStill DEF Erase
  <2>2. \A d \in Conns : (Started(d) => Started(d)') /\ (Alive(d)' => Alive(d))
    BY <1>0, <2>1 DEF Started, Alive
  <2>3. OneFrame'
    BY <1>0, <1>1, <2>1, OneFrameAfter
  <2>4. ASSUME NEW h \in Below(t) PROVE Good(h)'
    <3>1. Good(h) /\ Sound(h) /\ h \in StackFrame /\ h.c \in Conns
      BY <1>3 DEF StackFrame
    <3> QED BY <2>1, <2>2, <3>1, GoodKept
  <2>5. GoodFrames'
    <3>1. Held' \subseteq Below(t)
      BY <1>0, <1>1, <2>1, HeldAfter
    <3> QED BY <2>4, <3>1 DEF GoodFrames
  <2>6. Begun' /\ InOrder'
    BY <1>0, <2>1, <2>2, BegunKept, InOrderKept
  <2> QED BY <2>3, <2>5, <2>6 DEF Sessions
<1>10. ASSUME Release(t) PROVE Sessions'
  <2> DEFINE c == Top(t).c
  <2>1. /\ UNCHANGED <<clients, reading, said>> /\ Streams' = Streams
        /\ conn' = conn \/ conn' = [conn EXCEPT ![c] = "dying"]
        /\ c \in Conns /\ Alive(c)
    BY <1>1, <1>4, <1>10, StreamsStill DEF Release, Sound
  <2>2. \A d \in Conns : (Started(d) => Started(d)') /\ (Alive(d)' => Alive(d))
    BY <1>0, <2>1 DEF Started, Alive
  <2>3. \A h \in Held : Good(h)'
    <3> TAKE h \in Held
    <3>1. Good(h) /\ Sound(h) /\ h \in StackFrame /\ h.c \in Conns
      BY <1>3 DEF StackFrame
    <3> QED BY <2>1, <2>2, <3>1, GoodKept
  <2>4. Begun' /\ InOrder'
    BY <1>0, <2>1, <2>2, BegunKept, InOrderKept
  <2>5. CASE Referenced(c, t)
    <3>1. Pop(t)
      BY <1>10, <2>5 DEF Release
    <3>2. OneFrame'
      BY <1>0, <1>1, <3>1, OneFrameAfter
    <3>3. Held' \subseteq Held
      BY <1>0, <1>1, <1>2, <3>1, HeldAfter
    <3> QED BY <2>3, <2>4, <3>2, <3>3 DEF Sessions, GoodFrames
  <2>6. CASE ~Referenced(c, t)
    <3>1. PICK f \in StackFrame : f = Broadcast("dtor", c, Disconnected(c))
      BY <2>1, FrameTypes
    <3>2. /\ Replace(t, f) /\ conn' = [conn EXCEPT ![c] = "dying"]
          /\ f.op = "dtor" /\ f.c = c /\ f.m = Disconnected(c) /\ f.pc = "lock" /\ f.todo = {}
      BY <1>10, <2>6, <3>1 DEF Release, Broadcast
    <3>3. None(Below(t), c)
      <4> SUFFICES ASSUME NEW h \in Below(t), h.op # "drop", h.c = c PROVE FALSE
        BY DEF None
      <4>1. PICK u \in Threads : \E i \in DOMAIN stack[u] : <<u, i>> # <<t, 1>> /\ h = stack[u][i]
        BY DEF Below
      <4>2. PICK i \in DOMAIN stack[u] : <<u, i>> # <<t, 1>> /\ h = stack[u][i]
        BY <4>1
      <4>3. <<u, i>> \in Frames \ {<<t, 1>>} /\ At(<<u, i>>) = h
        BY <4>2, Places
      <4>4. h.op = "dtor"
        BY <2>6, <4>3 DEF Referenced
      <4> QED BY <1>3, <2>1, <4>4 DEF Sound
    <3>4. OneFrame'
      BY <1>0, <1>1, <3>2, <3>3, OneFrameAfter
    <3>5. Good(f)'
      <4>1. conn'[c] = "dying"
        BY <1>0, <2>1, <3>2
      <4>2. \A x \in Conns : ~Heard(Streams[x], Disconnected(c))
        BY <1>0, <2>1 DEF Begun
      <4> QED BY <2>1, <3>2, <4>1, <4>2 DEF Good, Started
    <3>6. Held' \subseteq Held \cup {f}
      BY <1>0, <1>1, <1>2, <3>2, HeldAfter
    <3> QED BY <2>3, <2>4, <3>4, <3>5, <3>6 DEF Sessions, GoodFrames
  <2> QED BY <2>5, <2>6
<1> QED BY <1>6, <1>7, <1>8, <1>9, <1>10 DEF Inside

\* A completed handshake leaves everybody's session in order.
LEMMA SessionsAccept ==
    ASSUME TypeInv, TypeInv', Pointers, Sessions, NEW t \in Threads, NEW c \in Conns, Accept(t, c)
    PROVE  Sessions'
<1> USE DEF cvars, uvars
<1>0. /\ stack \in [Threads -> Seq(StackFrame)] /\ stack' \in [Threads -> Seq(StackFrame)]
      /\ conn \in [Conns -> {"none", "handshake", "open", "dying", "freed"}]
      /\ TypeOK /\ OneFrame /\ GoodFrames /\ Begun /\ InOrder
      /\ Streams \in [Conns -> Seq(Frame)]
  BY StreamTypes DEF TypeInv, TypeOK, StackFrame, Sessions
<1>b. Held \subseteq StackFrame
  BY <1>0 DEF Held
<1>1. /\ UNCHANGED <<clients, reading, said>> /\ conn[c] = "handshake"
      /\ conn' = [conn EXCEPT ![c] = "open"] /\ Connected(c) \in Frame
      /\ Streams' = [Streams EXCEPT ![c] = Append(Streams[c], Connected(c))]
  BY <1>0, StreamPosts, FrameTypes DEF Accept
<1>2. ~Started(c) /\ Started(c)' /\ Alive(c) /\ Alive(c)'
      /\ \A d \in Conns : (Started(d) => Started(d)') /\ (Alive(d)' <=> Alive(d))
                          /\ (d # c => (Started(d)' <=> Started(d)))
  BY <1>0, <1>1 DEF Started, Alive
<1>3. \A h \in Held : Good(h) /\ Sound(h) /\ h \in StackFrame /\ h.c \in Conns
  <2>1. \A h \in Held : \E u \in Threads : \E i \in DOMAIN stack[u] : h = stack[u][i]
    BY DEF Held
  <2> QED BY <1>0, <1>b, <2>1 DEF GoodFrames, Pointers, SoundFrames, StackFrame
<1>4. None(Held, c)
  BY <1>2, <1>3 DEF None, Good
<1>5. \A x \in Conns : Streams'[x] = IF x = c THEN Append(Streams[c], Connected(c)) ELSE Streams[x]
  BY <1>0, <1>1
<1>6. \A x \in Conns : \A z :
        Heard(Streams'[x], z) => Heard(Streams[x], z) \/ (x = c /\ z = Connected(c))
  <2>1. \A z : Heard(Append(Streams[c], Connected(c)), z) <=> Heard(Streams[c], z) \/ z = Connected(c)
    BY <1>0, <1>1, AppendStream
  <2> QED BY <1>5, <2>1
<1>7. /\ said[c] = 0 /\ ~reading[c] /\ c \notin clients
      /\ \A x \in Conns : /\ ~Heard(Streams[x], Connected(c))
                          /\ ~Heard(Streams[x], Disconnected(c))
                          /\ \A a \in Kinds, k \in Ordinals : ~Heard(Streams[x], NewChatMessage(a, c, k))
  <2>1. \A k \in Ordinals : ~(k <= 0)
    BY CppAssumption DEF Ordinals
  <2> QED BY <1>0, <1>2, <2>1 DEF Begun
<1>8. PICK f \in StackFrame : f = Broadcast("connect", c, Connected(c))
  BY FrameTypes
<1>9. /\ Push(t, f) /\ f.op = "connect" /\ f.c = c /\ f.m = Connected(c) /\ f.pc = "lock"
      /\ f.todo = {}
  BY <1>8 DEF Accept, Broadcast
<1>10. OneFrame'
  BY <1>0, <1>4, <1>9, OneFrameAfter
<1>11. GoodFrames'
  <2>1. Held' \subseteq Held \cup {f}
    BY <1>0, <1>9, HeldAfter
  <2>2. ASSUME NEW h \in Held PROVE Good(h)'
    <3>1. h.op # "drop" => h.m # Connected(c)
      BY <1>3, <1>4, OwnMessage DEF None
    <3> QED BY <1>1, <1>2, <1>3, <1>6, <3>1, GoodKept
  <2>3. Good(f)'
    <3>1. \A x \in Conns : Awaits(f, x) => ~Heard(Streams'[x], f.m)
      BY <1>6, <1>7, <1>9 DEF Awaits
    <3> QED BY <1>1, <1>2, <1>7, <1>9, <3>1 DEF Good, Awaits
  <2> QED BY <2>1, <2>2, <2>3 DEF GoodFrames
<1>12. Begun'
  <2>1. ASSUME NEW d \in Conns, ~Started(d)' PROVE said'[d] = 0 /\ ~reading'[d] /\ d \notin clients'
    BY <1>0, <1>1, <1>2, <2>1 DEF Begun
  <2>2. ASSUME NEW d \in Conns, NEW x \in Conns, Heard(Streams'[x], Connected(d)) PROVE Started(d)'
    <3>1. Heard(Streams[x], Connected(d)) \/ d = c
      BY <1>6, <2>2, Apart
    <3> QED BY <1>0, <1>2, <3>1 DEF Begun
  <2>3. ASSUME NEW d \in Conns, NEW x \in Conns, Heard(Streams'[x], Disconnected(d)) PROVE ~Alive(d)'
    <3>1. Heard(Streams[x], Disconnected(d))
      BY <1>6, <2>3, Apart
    <3> QED BY <1>0, <1>2, <3>1 DEF Begun
  <2>4. ASSUME NEW d \in Conns, NEW x \in Conns, NEW a \in Kinds, NEW k \in Ordinals,
               Heard(Streams'[x], NewChatMessage(a, d, k))
        PROVE  k <= said'[d]
    <3>1. Heard(Streams[x], NewChatMessage(a, d, k))
      BY <1>6, <2>4, Apart
    <3> QED BY <1>0, <1>1, <3>1 DEF Begun
  <2> QED BY <2>1, <2>2, <2>3, <2>4 DEF Begun
<1>13. InOrder'
  <2>1. ASSUME NEW d \in Conns PROVE Ordered(Append(Streams[c], Connected(c)), d)
    <3>1. Streams[c] \in Seq(Frame) /\ Ordered(Streams[c], d)
      BY <1>0 DEF InOrder
    <3>2. Connected(c) = Connected(d) => c = d
      BY Apart
    <3>3. Connected(c) # Disconnected(d) /\ \A k \in Ordinals : Connected(c) # Chat(d, k)
      BY Apart DEF Chat, Kinds
    <3>4. \A k \in Ordinals : ~Heard(Streams[c], Chat(c, k))
      BY <1>7 DEF Chat, Kinds
    <3> QED BY <1>1, <1>7, <3>1, <3>2, <3>3, <3>4, OrderedAppend
  <2> QED BY <1>0, <1>5, <2>1 DEF InOrder
<1> QED BY <1>10, <1>11, <1>12, <1>13 DEF Sessions

\* So does a message taken from a user.
LEMMA SessionsHandle ==
    ASSUME TypeInv, TypeInv', Pointers, Sessions, NEW t \in Threads, NEW c \in Conns, Handle(t, c)
    PROVE  Sessions'
<1> USE DEF cvars, uvars
<1>0. /\ stack \in [Threads -> Seq(StackFrame)] /\ stack' \in [Threads -> Seq(StackFrame)]
      /\ reading \in [Conns -> BOOLEAN] /\ said \in [Conns -> 0..MaxChats]
      /\ TypeOK /\ OneFrame /\ GoodFrames /\ Begun /\ InOrder
  BY DEF TypeInv, TypeOK, StackFrame, Sessions
<1>b. Held \subseteq StackFrame
  BY <1>0 DEF Held
<1>1. /\ UNCHANGED <<clients, conn>> /\ Streams' = Streams /\ reading[c] /\ ~OnStrand(c)
      /\ said' = [said EXCEPT ![c] = said[c] + 1] /\ reading' = [reading EXCEPT ![c] = FALSE]
  BY <1>0, StreamsStill DEF Handle, ReadCompletes
<1>2. /\ said[c] + 1 \in Ordinals /\ said[c] \in Nat
      /\ \A d \in Conns : d # c => said'[d] = said[d] /\ reading'[d] = reading[d]
      /\ said'[c] = said[c] + 1 /\ ~reading'[c]
  BY <1>0, <1>1, CppAssumption DEF Handle, Ordinals
<1>3. Alive(c) /\ Started(c)
  BY <1>0, <1>1 DEF Pointers, Outstanding, Begun
<1>a. \A h \in Held : \E u \in Threads : \E i \in DOMAIN stack[u] : h = stack[u][i]
  BY DEF Held
<1>4. \A h \in Held : Good(h) /\ Sound(h) /\ h \in StackFrame /\ h.c \in Conns
  BY <1>0, <1>a, <1>b DEF GoodFrames, Pointers, SoundFrames, StackFrame
<1>5. None(Held, c)
  <2> SUFFICES ASSUME NEW h \in Held, h.op # "drop", h.c = c PROVE FALSE
    BY DEF None
  <2>1. PICK u \in Threads : \E i \in DOMAIN stack[u] : h = stack[u][i]
    BY <1>a
  <2>2. PICK i \in DOMAIN stack[u] : h = stack[u][i]
    BY <2>1
  <2>3. <<u, i>> \in Frames /\ At(<<u, i>>) = h
    BY <2>2, Places
  <2>4. h.op = "dtor"
    BY <1>1, <1>4, <2>3 DEF OnStrand, StackFrame
  <2> QED BY <1>3, <1>4, <2>4 DEF Sound
<1>6. PICK a \in Actions : Push(t, Broadcast("chat", c, NewChatMessage(a, c, said[c] + 1)))
  BY DEF Handle
<1>7. a \in Kinds
  BY CppAssumption DEF Kinds
<1>8. PICK f \in StackFrame : f = Broadcast("chat", c, NewChatMessage(a, c, said[c] + 1))
  BY <1>2, FrameTypes
<1>9. /\ Push(t, f) /\ f.op = "chat" /\ f.c = c /\ f.m = NewChatMessage(a, c, said[c] + 1)
      /\ f.pc = "lock" /\ f.todo = {}
  BY <1>6, <1>8 DEF Broadcast
<1>10. OneFrame'
  BY <1>0, <1>5, <1>9, OneFrameAfter
<1>11. GoodFrames'
  <2>1. Held' \subseteq Held \cup {f}
    BY <1>0, <1>9, HeldAfter
  <2>2. ASSUME NEW h \in Held PROVE Good(h)'
    <3>1. h.op # "drop" => h.c # c
      BY <1>5 DEF None
    <3> QED BY <1>1, <1>2, <1>4, <3>1, GoodKept DEF Started
  <2>3. Good(f)'
    <3>1. \A x \in Conns : ~Heard(Streams[x], f.m)
      <4>1. ~(said[c] + 1 <= said[c])
        BY <1>2
      <4> QED BY <1>0, <1>2, <1>7, <1>9, <4>1 DEF Begun
    <3> QED BY <1>1, <1>2, <1>3, <1>7, <1>9, <3>1 DEF Good, Started
  <2> QED BY <2>1, <2>2, <2>3 DEF GoodFrames
<1>12. Begun'
  <2>1. ASSUME NEW d \in Conns, ~Started(d) PROVE said'[d] = 0 /\ ~reading'[d] /\ d \notin clients
    <3>1. d # c
      BY <1>3, <2>1
    <3> QED BY <1>0, <1>2, <2>1, <3>1 DEF Begun
  <2>2. ASSUME NEW d \in Conns, NEW x \in Conns, NEW b \in Kinds, NEW k \in Ordinals,
               Heard(Streams[x], NewChatMessage(b, d, k))
        PROVE  k <= said'[d]
    <3>1. k <= said[d] /\ k \in Int /\ said[d] \in Int
      BY <1>0, <2>2, CppAssumption DEF Begun, Ordinals
    <3> QED BY <1>2, <3>1
  <2> QED BY <1>0, <1>1, <2>1, <2>2 DEF Begun, Started, Alive
<1>13. InOrder'
  BY <1>0, <1>1, InOrderKept
<1> QED BY <1>10, <1>11, <1>12, <1>13 DEF Sessions

\* So does the answer to a malformed one, which is nobody's news.
LEMMA SessionsHandleBad ==
    ASSUME TypeInv, Pointers, Sessions, NEW t \in Threads, NEW c \in Conns, HandleBad(t, c)
    PROVE  Sessions'
<1> USE DEF cvars, uvars
<1>0. /\ stack \in [Threads -> Seq(StackFrame)]
      /\ TypeOK /\ OneFrame /\ GoodFrames /\ Begun /\ InOrder
      /\ Streams \in [Conns -> Seq(Frame)]
  BY StreamTypes DEF TypeInv, TypeOK, StackFrame, Sessions
<1>1. /\ UNCHANGED <<stack, conn, clients, reading, said>> /\ ErrorTo(c) \in Frame
      /\ Streams' = [Streams EXCEPT ![c] = Append(Streams[c], ErrorTo(c))]
  BY <1>0, StreamPosts, FrameTypes DEF HandleBad
<1>2. \A x \in Conns : Streams'[x] = IF x = c THEN Append(Streams[c], ErrorTo(c)) ELSE Streams[x]
  BY <1>0, <1>1
<1>3. \A x \in Conns : \A z : Heard(Streams'[x], z) => Heard(Streams[x], z) \/ z = ErrorTo(c)
  <2>1. \A z : Heard(Append(Streams[c], ErrorTo(c)), z) <=> Heard(Streams[c], z) \/ z = ErrorTo(c)
    BY <1>0, <1>1, AppendStream
  <2> QED BY <1>2, <2>1
<1>4. \A h \in Held : Good(h) /\ Sound(h) /\ h \in StackFrame
  <2>1. \A h \in Held : \E u \in Threads : \E i \in DOMAIN stack[u] : h = stack[u][i]
    BY DEF Held
  <2> QED BY <1>0, <2>1 DEF GoodFrames, Pointers, SoundFrames
<1>5. OneFrame' /\ Held' = Held
  BY <1>0, <1>1 DEF OneFrame, Held
<1>6. GoodFrames'
  <2>1. ASSUME NEW h \in Held PROVE Good(h)'
    <3>1. h.op # "drop" => h.m # ErrorTo(c)
      BY <1>4, OwnMessage
    <3> QED BY <1>1, <1>3, <1>4, <3>1, GoodKept DEF Started
  <2> QED BY <1>5, <2>1 DEF GoodFrames
<1>7. Begun'
  <2>1. \A x, d \in Conns :
          /\ Heard(Streams'[x], Connected(d)) => Heard(Streams[x], Connected(d))
          /\ Heard(Streams'[x], Disconnected(d)) => Heard(Streams[x], Disconnected(d))
          /\ \A a \in Kinds, k \in Ordinals : Heard(Streams'[x], NewChatMessage(a, d, k))
                                              => Heard(Streams[x], NewChatMessage(a, d, k))
    BY <1>3, Apart
  <2> QED BY <1>0, <1>1, <2>1 DEF Begun, Started, Alive
<1>8. InOrder'
  <2>1. ASSUME NEW d \in Conns PROVE Ordered(Append(Streams[c], ErrorTo(c)), d)
    <3>1. Streams[c] \in Seq(Frame) /\ Ordered(Streams[c], d)
      BY <1>0 DEF InOrder
    <3>2. /\ ErrorTo(c) # Connected(d) /\ ErrorTo(c) # Disconnected(d)
          /\ \A k \in Ordinals : ErrorTo(c) # Chat(d, k)
      BY Apart DEF Chat, Kinds
    <3> QED BY <1>1, <3>1, <3>2, OrderedAppend
  <2> QED BY <1>0, <1>2, <2>1 DEF InOrder
<1> QED BY <1>5, <1>6, <1>7, <1>8 DEF Sessions

\* The other handlers post nothing and broadcast nothing.
LEMMA SessionsOther ==
    ASSUME TypeInv, TypeInv', Pointers, Sessions, NEW t \in Threads, NEW c \in Conns,
           \/ Upgrade(t, c) \/ AcceptFails(t, c) \/ HandleFails(t, c)
           \/ OnSend(t, c) \/ OnWrite(t, c) \/ OnWriteFails(t, c)
    PROVE  Sessions'
<1> USE DEF cvars, uvars
<1>0. /\ stack \in [Threads -> Seq(StackFrame)] /\ stack' \in [Threads -> Seq(StackFrame)]
      /\ conn \in [Conns -> {"none", "handshake", "open", "dying", "freed"}]
      /\ reading \in [Conns -> BOOLEAN]
      /\ OneFrame /\ GoodFrames /\ Begun /\ InOrder
  BY DEF TypeInv, TypeOK, StackFrame, Sessions
<1>b. Held \subseteq StackFrame
  BY <1>0 DEF Held
<1>1. /\ UNCHANGED <<clients, said>>
      /\ \A d \in Conns : reading'[d] => reading[d]
      /\ \A d \in Conns : (Started(d) => Started(d)') /\ (Alive(d)' => Alive(d))
      /\ stack' = stack \/ Push(t, Drop(c))
  BY <1>0 DEF Upgrade, AcceptFails, HandleFails, OnSend, OnWrite, OnWriteFails, Started, Alive
<1>2. Streams' = Streams
  BY StreamKept, StreamsStill DEF Upgrade, AcceptFails, HandleFails, OnWriteFails
<1>3. PICK f \in StackFrame : f = Drop(c) /\ f.op = "drop" /\ Good(f)'
  <2>1. Drop(c) \in StackFrame /\ Drop(c).op = "drop"
    BY FrameTypes DEF Drop
  <2> QED BY <2>1, DropGood
<1>4. OneFrame' /\ Held' \subseteq Held \cup {f}
  <2>1. CASE stack' = stack
    BY <1>0, <2>1 DEF OneFrame, Held
  <2>2. CASE Push(t, f)
    BY <1>0, <1>3, <2>2, OneFrameAfter, HeldAfter
  <2> QED BY <1>1, <1>3, <2>1, <2>2
<1>5. GoodFrames'
  <2>1. \A h \in Held : \E u \in Threads : \E i \in DOMAIN stack[u] : h = stack[u][i]
    BY DEF Held
  <2>2. ASSUME NEW h \in Held PROVE Good(h)'
    <3>1. Good(h) /\ Sound(h) /\ h \in StackFrame /\ h.c \in Conns
      BY <1>0, <1>b, <2>1 DEF GoodFrames, Pointers, SoundFrames, StackFrame
    <3> QED BY <1>1, <1>2, <3>1, GoodKept
  <2> QED BY <1>3, <1>4, <2>2 DEF GoodFrames
<1>6. Begun'
  <2>1. \A d \in Conns : ~Started(d)' => ~Started(d) /\ ~reading'[d]
    BY <1>0, <1>1 DEF Begun
  <2> QED BY <1>0, <1>1, <1>2, <2>1 DEF Begun
<1>7. InOrder'
  BY <1>0, <1>2, InOrderKept
<1> QED BY <1>4, <1>5, <1>6, <1>7 DEF Sessions

\* No step tells a session out of order.
LEMMA SessionsStep == TypeInv /\ TypeInv' /\ Pointers /\ Sessions /\ [Next]_vars => Sessions'
<1> SUFFICES ASSUME TypeInv, TypeInv', Pointers, Sessions, [Next]_vars PROVE Sessions'
  OBVIOUS
<1>1. ASSUME NEW t \in Threads, Inside(t) PROVE Sessions'
  BY <1>1, SessionsInside
<1>2. ASSUME NEW t \in Threads, Completion(t) \/ UserStep(t) PROVE Sessions'
  BY <1>2, SessionsAccept, SessionsHandle, SessionsHandleBad, SessionsOther
     DEF Completion, UserStep
<1>3. CASE UNCHANGED vars \/ \E c \in Conns : PeerGone(c)
  <2>1. UNCHANGED <<stack, conn, clients, reading, said, wire, queue, posted>>
    BY <1>3 DEF vars, PeerGone, cvars, uvars
  <2>2. Streams' = Streams
    BY <2>1, StreamsStill
  <2>3. OneFrame' /\ GoodFrames'
    BY <2>1, <2>2 DEF Sessions, OneFrame, GoodFrames, Held, Good, Started, Awaits
  <2>4. Begun' /\ InOrder'
    BY <2>1, <2>2, BegunKept, InOrderKept DEF Sessions, Started, Alive
  <2> QED BY <2>3, <2>4 DEF Sessions
<1> QED BY <1>1, <1>2, <1>3 DEF Next

\* What a user is sent about another is that user's session in order and without
\* repetition, whichever threads broadcast it: a broadcast's message is the newest of its
\* connection, whose next one is not read, and whose destructor does not run, before the
\* broadcast has ended.
THEOREM SessionsInOrder == Spec => []SessionOrder
<1>1. Sessions => SessionOrder
  <2> SUFFICES ASSUME Sessions, NEW c \in Conns, NEW d \in Conns
               PROVE  /\ \A m \in {Connected(d), Disconnected(d)} \cup {Chat(d, k) : k \in Ordinals} :
                            Once(Stream(c), m)
                      /\ NotAfter(Stream(c), Connected(d), Disconnected(d))
                      /\ \A k \in Ordinals :
                          /\ NotAfter(Stream(c), Connected(d), Chat(d, k))
                          /\ NotAfter(Stream(c), Chat(d, k), Disconnected(d))
                          /\ k > 1 => NotAfter(Stream(c), Chat(d, k - 1), Chat(d, k))
    BY DEF SessionOrder, Once
  <2>1. Streams[c] = Stream(c)
    BY DEF Streams
  <2> QED BY <2>1 DEF Sessions, InOrder, Ordered
<1> QED BY TypeInit, TypeStep, PointersInit, PointersStep, SessionsInit, SessionsStep, <1>1, PTL
        DEF Spec

-----------------------------------------------------------------------------
(* Streams that agree *)

\* How many shared messages follow is a number.
LEMMA SinceType ==
    \A s \in Seq(Frame) : \A i :
        /\ IsFiniteSet({j \in SharedAt(s) : j > i})
        /\ Since(s, i) \in Nat
<1> SUFFICES ASSUME NEW s \in Seq(Frame), NEW i
             PROVE  IsFiniteSet({j \in SharedAt(s) : j > i}) /\ Since(s, i) \in Nat
  OBVIOUS
<1>1. Len(s) \in Nat /\ DOMAIN s = 1..Len(s)
  OBVIOUS
<1>2. IsFiniteSet(1..Len(s))
  BY <1>1, FS_Interval
<1>3. {j \in SharedAt(s) : j > i} \in SUBSET (1..Len(s))
  BY <1>1 DEF SharedAt
<1>4. IsFiniteSet({j \in SharedAt(s) : j > i})
  BY <1>2, <1>3, FS_Subset
<1> QED BY <1>4, FS_CardinalityType DEF Since

\* A shared message that is appended follows all others; an error is as if it were not
\* there.
LEMMA SinceAppend ==
    ASSUME NEW s \in Seq(Frame), NEW m \in Frame
    PROVE  /\ \A i \in SharedAt(s) : i \in DOMAIN s /\ Append(s, m)[i] = s[i]
           /\ m # ErrorTo(m.user) =>
                /\ SharedAt(Append(s, m)) = SharedAt(s) \cup {Len(s) + 1}
                /\ Append(s, m)[Len(s) + 1] = m
                /\ Since(Append(s, m), Len(s) + 1) = 0
                /\ \A i \in SharedAt(s) : Since(Append(s, m), i) = Since(s, i) + 1
           /\ m = ErrorTo(m.user) =>
                /\ SharedAt(Append(s, m)) = SharedAt(s)
                /\ \A i \in SharedAt(s) : Since(Append(s, m), i) = Since(s, i)
<1> DEFINE r == Append(s, m)
           n == Len(s) + 1
<1>1. /\ Len(s) \in Nat /\ DOMAIN s = 1..Len(s) /\ DOMAIN r = 1..n /\ r[n] = m
      /\ \A i \in 1..Len(s) : r[i] = s[i]
  OBVIOUS
<1> HIDE DEF r
<1>2. \A i \in SharedAt(s) : i \in 1..Len(s) /\ i \in DOMAIN s /\ r[i] = s[i]
  BY <1>1 DEF SharedAt
<1>3. ASSUME m # ErrorTo(m.user)
      PROVE  /\ SharedAt(r) = SharedAt(s) \cup {n}
             /\ Since(r, n) = 0
             /\ \A i \in SharedAt(s) : Since(r, i) = Since(s, i) + 1
  <2>1. SharedAt(r) = SharedAt(s) \cup {n}
    BY <1>1, <1>3 DEF SharedAt
  <2>2. {j \in SharedAt(r) : j > n} = {}
    BY <1>1, <1>2, <2>1
  <2>3. ASSUME NEW i \in SharedAt(s) PROVE Since(r, i) = Since(s, i) + 1
    <3> DEFINE A == {j \in SharedAt(s) : j > i}
    <3>1. {j \in SharedAt(r) : j > i} = A \cup {n}
      BY <1>1, <1>2, <2>1
    <3>2. IsFiniteSet(A)
      BY SinceType
    <3>3. n \notin A
      BY <1>1, <1>2
    <3> HIDE DEF A
    <3>4. Cardinality(A \cup {n}) = Cardinality(A) + 1
      BY <3>2, <3>3, FS_AddElement
    <3> QED BY <3>1, <3>4 DEF Since, A
  <2> QED BY <2>1, <2>2, <2>3, FS_EmptySet DEF Since
<1>4. ASSUME m = ErrorTo(m.user)
      PROVE  SharedAt(r) = SharedAt(s) /\ \A i \in SharedAt(s) : Since(r, i) = Since(s, i)
  <2>1. SharedAt(r) = SharedAt(s)
    BY <1>1, <1>4 DEF SharedAt
  <2> QED BY <2>1 DEF Since
<1> QED BY <1>1, <1>2, <1>3, <1>4 DEF r

\* Agreement reads the same both ways.
LEMMA AlignedSym == \A s, r : Aligned(s, r) => Aligned(r, s)
BY DEF Aligned

\* What is sent to both of two users keeps their streams in agreement, whatever it is; an
\* error sent to one of them does as well.
LEMMA AlignedAppend ==
    \A s, r \in Seq(Frame), m \in Frame : Aligned(s, r) =>
        /\ m # ErrorTo(m.user) => Aligned(Append(s, m), Append(r, m))
        /\ m = ErrorTo(m.user) => Aligned(Append(s, m), r)
<1> SUFFICES ASSUME NEW s \in Seq(Frame), NEW r \in Seq(Frame), NEW m \in Frame, Aligned(s, r)
             PROVE  /\ m # ErrorTo(m.user) => Aligned(Append(s, m), Append(r, m))
                    /\ m = ErrorTo(m.user) => Aligned(Append(s, m), r)
  OBVIOUS
<1> DEFINE p == Append(s, m)
           q == Append(r, m)
<1>1. ASSUME m # ErrorTo(m.user) PROVE Aligned(p, q)
  <2>1. /\ \A i \in SharedAt(s) : p[i] = s[i] /\ Since(p, i) = Since(s, i) + 1
        /\ SharedAt(p) = SharedAt(s) \cup {Len(s) + 1} /\ p[Len(s) + 1] = m
        /\ Since(p, Len(s) + 1) = 0
    BY <1>1, SinceAppend
  <2>2. /\ \A i \in SharedAt(r) : q[i] = r[i] /\ Since(q, i) = Since(r, i) + 1
        /\ SharedAt(q) = SharedAt(r) \cup {Len(r) + 1} /\ q[Len(r) + 1] = m
        /\ Since(q, Len(r) + 1) = 0
    BY <1>1, SinceAppend
  <2>3. (\A i : Since(s, i) \in Nat) /\ (\A i : Since(r, i) \in Nat)
    BY SinceType
  <2> HIDE DEF p, q
  <2> SUFFICES ASSUME NEW i \in SharedAt(p), NEW j \in SharedAt(q), Since(p, i) = Since(q, j)
               PROVE  p[i] = q[j]
    BY DEF Aligned
  <2>4. CASE i \in SharedAt(s) /\ j \in SharedAt(r)
    <3>1. Since(s, i) = Since(r, j)
      BY <2>1, <2>2, <2>3, <2>4
    <3> QED BY <2>1, <2>2, <2>4, <3>1 DEF Aligned
  <2>5. CASE i = Len(s) + 1 /\ j = Len(r) + 1
    BY <2>1, <2>2, <2>5
  <2>6. CASE i = Len(s) + 1 /\ j \in SharedAt(r)
    BY <2>1, <2>2, <2>3, <2>6
  <2>7. CASE i \in SharedAt(s) /\ j = Len(r) + 1
    BY <2>1, <2>2, <2>3, <2>7
  <2> QED BY <2>1, <2>2, <2>4, <2>5, <2>6, <2>7
<1>2. ASSUME m = ErrorTo(m.user) PROVE Aligned(p, r)
  <2>1. /\ \A i \in SharedAt(s) : p[i] = s[i] /\ Since(p, i) = Since(s, i)
        /\ SharedAt(p) = SharedAt(s)
    BY <1>2, SinceAppend
  <2> QED BY <2>1 DEF Aligned
<1> QED BY <1>1, <1>2

\* Whoever has been sent nothing yet agrees with everybody.
LEMMA AlignedEmpty == \A r : Aligned(<<>>, r)
BY DEF Aligned, SharedAt

\* A stream agrees with itself: no two of its messages are followed by as many.
LEMMA AlignedSelf == \A s \in Seq(Frame) : Aligned(s, s)
<1> SUFFICES ASSUME NEW s \in Seq(Frame) PROVE Aligned(s, s)
  OBVIOUS
<1>1. SharedAt(s) \subseteq Nat
  BY DEF SharedAt
<1>2. ASSUME NEW i \in SharedAt(s), NEW j \in SharedAt(s), i < j PROVE Since(s, i) # Since(s, j)
  <2> DEFINE A == {k \in SharedAt(s) : k > i}
             B == {k \in SharedAt(s) : k > j}
  <2>1. B \in SUBSET A /\ j \in A /\ j \notin B
    BY <1>1, <1>2
  <2>2. IsFiniteSet(A)
    BY SinceType
  <2> HIDE DEF A, B
  <2>3. Cardinality(A) # Cardinality(B)
    BY <2>1, <2>2, FS_Subset
  <2> QED BY <2>3 DEF Since, A, B
<1>3. ASSUME NEW i \in SharedAt(s), NEW j \in SharedAt(s), Since(s, i) = Since(s, j) PROVE i = j
  BY <1>1, <1>2, <1>3
<1> QED BY <1>3 DEF Aligned

-----------------------------------------------------------------------------
(* One broadcast at a time *)

\* Below the top of a stack there are only broadcasts in their loop, and above the bottom
\* only destructors and shared_ptrs to be released.
Stacked(s) ==
    \A i \in DOMAIN s : (i > 1 => s[i].pc = "loop") /\ (i < Len(s) => s[i].op \in {"dtor", "drop"})

\* No destructor has come to broadcast from within a broadcast.
CalmSeq(s) == Len(s) <= 1 \/ (Len(s) = 2 /\ s[1].op = "drop")

\* The lengths of a calm stack.
LEMMA CalmLength ==
    \A s \in Seq(StackFrame) :
        CalmSeq(s) <=> Len(s) = 0 \/ Len(s) = 1 \/ (Len(s) = 2 /\ s[1].op = "drop")
<1> TAKE s \in Seq(StackFrame)
<1>1. Len(s) \in Nat
  OBVIOUS
<1>2. PICK n \in Nat : n = Len(s)
  BY <1>1
<1>3. n <= 1 <=> n = 0 \/ n = 1
  OBVIOUS
<1> QED BY <1>2, <1>3 DEF CalmSeq

Stacks == \A t \in Threads : Stacked(stack[t])
Calm   == \A t \in Threads : CalmSeq(stack[t])

\* What replacing, popping and pushing onto the top frame does to the places.
LEMMA TopSeq ==
    ASSUME NEW s \in Seq(StackFrame), s # <<>>, NEW f \in StackFrame, NEW g \in StackFrame
    PROVE  /\ Len(s) \in Nat /\ Len(s) >= 1 /\ DOMAIN s = 1..Len(s)
           /\ LET r == <<f>> \o Tail(s) IN
              /\ Len(r) = Len(s) /\ DOMAIN r = 1..Len(s) /\ r[1] = f
              /\ \A i \in 2..Len(s) : r[i] = s[i]
           /\ LET r == Tail(s) IN
              /\ Len(r) = Len(s) - 1 /\ DOMAIN r = 1..(Len(s) - 1)
              /\ \A i \in 1..(Len(s) - 1) : r[i] = s[i + 1]
           /\ LET r == <<g, f>> \o Tail(s) IN
              /\ Len(r) = Len(s) + 1 /\ DOMAIN r = 1..(Len(s) + 1) /\ r[1] = g /\ r[2] = f
              /\ \A i \in 3..(Len(s) + 1) : r[i] = s[i - 1]
<1>1. Len(s) \in Nat /\ Len(s) >= 1 /\ DOMAIN s = 1..Len(s)
  OBVIOUS
<1>a. Tail(s) \in Seq(StackFrame)
  OBVIOUS
<1>b. PICK q \in Seq(StackFrame) : q = Tail(s)
  BY <1>a
<1>2. Len(q) = Len(s) - 1 /\ DOMAIN q = 1..(Len(s) - 1) /\ \A i \in 1..(Len(s) - 1) : q[i] = s[i + 1]
  BY <1>1, <1>b
<1>3. /\ Len(<<f>> \o q) = Len(s) /\ DOMAIN (<<f>> \o q) = 1..Len(s) /\ (<<f>> \o q)[1] = f
      /\ \A i \in 2..Len(s) : (<<f>> \o q)[i] = s[i]
  <2>m. <<f>> \o q \in Seq(StackFrame) /\ Len(<<f>> \o q) = Len(q) + 1 /\ (<<f>> \o q)[1] = f
    OBVIOUS
  <2>a. PICK r \in Seq(StackFrame) : r = <<f>> \o q /\ Len(r) = Len(q) + 1 /\ r[1] = f
    BY <2>m
  <2>b. Len(r) = Len(s) /\ DOMAIN r = 1..Len(r)
    <3>1. Len(r) = Len(s)
      <4>1. PICK n \in Nat : n = Len(s)
        BY <1>1
      <4>2. Len(q) = n - 1 /\ (n - 1) + 1 = n
        BY <1>2, <4>1
      <4> QED BY <2>a, <4>1, <4>2
    <3>2. DOMAIN r = 1..Len(r)
      BY <2>a
    <3> QED BY <3>1, <3>2
  <2>1. Len(<<f>> \o q) = Len(s) /\ DOMAIN (<<f>> \o q) = 1..Len(s) /\ (<<f>> \o q)[1] = f
    BY <2>a, <2>b
  <2>2. ASSUME NEW i \in 2..Len(s) PROVE (<<f>> \o q)[i] = s[i]
    <3>1. (<<f>> \o q)[i] = q[i - 1] /\ i - 1 \in 1..(Len(s) - 1) /\ (i - 1) + 1 = i
      BY <1>1, <1>2
    <3> QED BY <1>2, <3>1
  <2> QED BY <2>1, <2>2
<1>4. /\ Len(<<g, f>> \o q) = Len(s) + 1 /\ DOMAIN (<<g, f>> \o q) = 1..(Len(s) + 1)
      /\ (<<g, f>> \o q)[1] = g /\ (<<g, f>> \o q)[2] = f
      /\ \A i \in 3..(Len(s) + 1) : (<<g, f>> \o q)[i] = s[i - 1]
  <2>1. /\ Len(<<g, f>> \o q) = Len(s) + 1 /\ DOMAIN (<<g, f>> \o q) = 1..(Len(s) + 1)
        /\ (<<g, f>> \o q)[1] = g /\ (<<g, f>> \o q)[2] = f
    BY <1>1, <1>2
  <2>2. ASSUME NEW i \in 3..(Len(s) + 1) PROVE (<<g, f>> \o q)[i] = s[i - 1]
    <3>1. (<<g, f>> \o q)[i] = q[i - 2] /\ i - 2 \in 1..(Len(s) - 1) /\ (i - 2) + 1 = i - 1
      BY <1>1, <1>2
    <3> QED BY <1>2, <3>1
  <2> QED BY <2>1, <2>2
<1> QED BY <1>1, <1>2, <1>3, <1>4, <1>b

\* A step inside a broadcast or a release keeps the order of the stack; a destructor that
\* has come to broadcast from within a broadcast never leaves, since it cannot erase its
\* pointer while that broadcast, below it on the same thread, holds the shared lock.
LEMMA StackInside ==
    ASSUME TypeInv, Sessions, Stacks, NEW t \in Threads, Inside(t)
    PROVE  Stacked(stack'[t]) /\ (CalmSeq(stack'[t]) => CalmSeq(stack[t]))
<1> DEFINE s == stack[t]
<1>0. stack \in [Threads -> Seq(StackFrame)] /\ s \in Seq(StackFrame) /\ Stacked(s)
  BY DEF TypeInv, TypeOK, StackFrame, Stacks
<1>1. s # <<>> /\ Top(t) = s[1] /\ Top(t) \in StackFrame
  BY <1>0, StackTypes, FramesAfter
     DEF Inside, LockShared, Visit, Unlock, Insert, ReadOn, Erase, Release, Idle
<1>2. \A i \in DOMAIN s : Good(s[i]) /\ <<t, i>> \in Frames /\ At(<<t, i>>) = s[i]
  BY Places DEF Sessions, GoodFrames, Held
<1>3. Len(s) \in Nat /\ Len(s) >= 1 /\ DOMAIN s = 1..Len(s)
  BY <1>0, <1>1, TopSeq
<1>4. Len(s) > 1 => /\ SharedLocked /\ s[1].op \in {"dtor", "drop"}
                    /\ s[2].pc = "loop" /\ s[2].op # "drop"
  <2> SUFFICES ASSUME Len(s) > 1
               PROVE  /\ SharedLocked /\ s[1].op \in {"dtor", "drop"}
                      /\ s[2].pc = "loop" /\ s[2].op # "drop"
    OBVIOUS
  <2>1. 1 \in DOMAIN s /\ 2 \in DOMAIN s
    BY <1>3
  <2>2. s[1].op \in {"dtor", "drop"} /\ s[2].pc = "loop"
    BY <1>0, <2>1 DEF Stacked
  <2>3. SharedLocked
    BY <1>2, <2>1, <2>2 DEF SharedLocked
  <2>4. s[2].op # "drop"
    BY <1>2, <2>1, <2>2 DEF Good
  <2> QED BY <2>2, <2>3, <2>4
<1>5. ASSUME NEW f \in StackFrame, Replace(t, f), f.op \in {"dtor", "drop"} \/ f.op = s[1].op
      PROVE  /\ Stacked(stack'[t]) /\ Len(stack'[t]) = Len(s) /\ stack'[t][1] = f
  <2>1. stack'[t] = <<f>> \o Tail(s)
    BY <1>0, <1>5 DEF Replace
  <2> DEFINE r == <<f>> \o Tail(s)
  <2>2. /\ Len(r) = Len(s) /\ DOMAIN r = 1..Len(s) /\ r[1] = f /\ \A i \in 2..Len(s) : r[i] = s[i]
    BY <1>0, <1>1, TopSeq
  <2> HIDE DEF r, s
  <2>3. Stacked(r)
    BY <1>0, <1>3, <1>5, <2>2 DEF Stacked
  <2> QED BY <2>1, <2>2, <2>3 DEF r
<1>6. CASE LockShared(t) \/ Unlock(t)
  <2>1. PICK f \in StackFrame : Replace(t, f) /\ f.op = s[1].op
    <3>1. CASE LockShared(t)
      <4>1. clients \subseteq Conns
        BY DEF TypeInv, TypeOK
      <4>2. PICK f \in StackFrame : f = [Top(t) EXCEPT !.pc = "loop", !.todo = clients]
        BY <1>1, <4>1 DEF StackFrame
      <4> QED BY <1>1, <3>1, <4>2 DEF LockShared, StackFrame
    <3>2. CASE Unlock(t)
      <4>1. PICK f \in StackFrame : f = [Top(t) EXCEPT !.pc = "finish"]
        BY <1>1 DEF StackFrame
      <4> QED BY <1>1, <3>2, <4>1 DEF Unlock, StackFrame
    <3> QED BY <1>6, <3>1, <3>2
  <2> QED BY <1>5, <2>1 DEF CalmSeq
<1>7. CASE Visit(t)
  <2>1. PICK d \in Top(t).todo :
          \/ Replace(t, [Top(t) EXCEPT !.todo = @ \ {d}])
          \/ stack' = [stack EXCEPT ![t] =
                           <<Drop(d), [Top(t) EXCEPT !.todo = @ \ {d}]>> \o Tail(@)]
    BY <1>7 DEF Visit
  <2>2. PICK f \in StackFrame : f = [Top(t) EXCEPT !.todo = @ \ {d}]
    BY <1>1 DEF StackFrame
  <2>3. f.op = s[1].op /\ f.pc = "loop"
    BY <1>1, <1>7, <2>2 DEF StackFrame, Visit
  <2>4. CASE Replace(t, f)
    BY <1>5, <2>3, <2>4 DEF CalmSeq
  <2>5. CASE stack' = [stack EXCEPT ![t] = <<Drop(d), f>> \o Tail(@)]
    <3>1. PICK g \in StackFrame : g = Drop(d) /\ g.op = "drop"
      <4>1. d \in Conns
        BY <1>1 DEF StackFrame
      <4> QED BY <4>1, FrameTypes DEF Drop
    <3> DEFINE r == <<g, f>> \o Tail(s)
    <3>2. stack'[t] = r
      BY <1>0, <2>5, <3>1
    <3>3. /\ Len(r) = Len(s) + 1 /\ DOMAIN r = 1..(Len(s) + 1) /\ r[1] = g /\ r[2] = f
          /\ \A i \in 3..(Len(s) + 1) : r[i] = s[i - 1]
      BY <1>0, <1>1, TopSeq
    <3> HIDE DEF r, s
    <3>4. ASSUME NEW i \in DOMAIN r
          PROVE  (i > 1 => r[i].pc = "loop") /\ (i < Len(r) => r[i].op \in {"dtor", "drop"})
      <4>1. CASE i = 1
        BY <3>1, <3>3, <4>1
      <4>2. CASE i = 2
        BY <1>3, <1>4, <2>3, <3>3, <4>2
      <4>3. CASE i > 2
        <5>1. i \in 3..(Len(s) + 1) /\ i - 1 \in DOMAIN s /\ i - 1 > 1
              /\ (i < Len(r) => i - 1 < Len(s))
          BY <1>3, <3>3, <4>3
        <5> QED BY <1>0, <3>3, <5>1 DEF Stacked
      <4> QED BY <1>3, <3>3, <4>1, <4>2, <4>3
    <3>5. Stacked(r)
      BY <3>4 DEF Stacked
    <3>6. CalmSeq(r) => CalmSeq(s)
      BY <1>3, <3>3 DEF CalmSeq
    <3> QED BY <3>2, <3>5, <3>6 DEF s
  <2> QED BY <2>1, <2>2, <2>4, <2>5
<1>8. CASE Insert(t) \/ ReadOn(t)
  <2>1. PICK f \in StackFrame : f = Drop(Top(t).c) /\ f.op = "drop"
    <3>1. Top(t).c \in Conns
      BY <1>1 DEF StackFrame
    <3> QED BY <3>1, FrameTypes DEF Drop
  <2>2. Replace(t, f)
    BY <1>8, <2>1 DEF Insert, ReadOn
  <2>3. ~(Len(s) > 1)
    BY <1>1, <1>4, <1>8 DEF Insert, ReadOn
  <2> QED BY <1>3, <1>5, <2>1, <2>2, <2>3 DEF CalmSeq
<1>p. ASSUME Pop(t)
      PROVE  /\ Stacked(stack'[t]) /\ Len(stack'[t]) = Len(s) - 1
             /\ Len(s) > 1 => stack'[t][1] = s[2]
  <2>1. stack'[t] = Tail(s)
    BY <1>0, <1>p DEF Pop
  <2> DEFINE r == Tail(s)
  <2>2. Len(r) = Len(s) - 1 /\ DOMAIN r = 1..(Len(s) - 1) /\ \A i \in 1..(Len(s) - 1) : r[i] = s[i + 1]
    BY <1>0, <1>1, TopSeq
  <2> HIDE DEF r, s
  <2>3. ASSUME NEW i \in DOMAIN r
        PROVE  (i > 1 => r[i].pc = "loop") /\ (i < Len(r) => r[i].op \in {"dtor", "drop"})
    <3>1. r[i] = s[i + 1] /\ i + 1 \in DOMAIN s /\ i + 1 > 1 /\ (i < Len(r) => i + 1 < Len(s))
      BY <1>3, <2>2
    <3> QED BY <1>0, <3>1 DEF Stacked
  <2>4. Stacked(r)
    BY <2>3 DEF Stacked
  <2>5. Len(s) > 1 => r[1] = s[2]
    BY <1>3, <2>2
  <2> QED BY <2>1, <2>2, <2>4, <2>5 DEF r
<1>9. CASE Erase(t)
  <2>1. Pop(t) /\ ~(Len(s) > 1)
    BY <1>4, <1>9 DEF Erase
  <2> QED BY <1>3, <1>p, <2>1 DEF CalmSeq
<1>10. CASE Release(t)
  <2>1. s[1].op = "drop"
    BY <1>1, <1>10 DEF Release
  <2>2. CASE Pop(t)
    <3>1. Len(s) > 1 => stack'[t][1].op # "drop"
      BY <1>4, <1>p, <2>2
    <3>2. Len(stack'[t]) = Len(s) - 1
      BY <1>p, <2>2
    <3>3. CASE Len(s) <= 2
      <4>1. CalmSeq(s)
        <5>1. Len(s) = 1 \/ Len(s) = 2
          <6>1. PICK n \in Nat : n = Len(s)
            BY <1>3
          <6>2. n <= 2 /\ n >= 1
            BY <1>3, <3>3, <6>1
          <6>3. n = 1 \/ n = 2
            BY <6>2
          <6> QED BY <6>1, <6>3
        <5> QED BY <1>0, <2>1, <5>1, CalmLength
      <4> QED BY <1>p, <2>2, <4>1
    <3>4. CASE Len(s) > 2
      BY <1>3, <1>p, <2>2, <3>1, <3>2, <3>4 DEF CalmSeq
    <3> QED BY <1>3, <3>3, <3>4
  <2>3. CASE Replace(t, Broadcast("dtor", Top(t).c, Disconnected(Top(t).c)))
    <3>1. PICK f \in StackFrame : f = Broadcast("dtor", Top(t).c, Disconnected(Top(t).c))
      <4>1. Top(t).c \in Conns
        BY <1>1 DEF StackFrame
      <4> QED BY <4>1, FrameTypes
    <3>2. Replace(t, f) /\ f.op = "dtor"
      BY <2>3, <3>1 DEF Broadcast
    <3>3. Stacked(stack'[t]) /\ Len(stack'[t]) = Len(s)
      BY <1>5, <3>2
    <3> QED BY <1>3, <2>1, <3>3 DEF CalmSeq
  <2> QED BY <1>10, <2>2, <2>3 DEF Release
<1> QED BY <1>6, <1>7, <1>8, <1>9, <1>10 DEF Inside

\* The stacks keep their order, and a thread that is stuck stays so.
LEMMA StacksStep ==
    ASSUME TypeInv, Sessions, Stacks, [Next]_vars
    PROVE  Stacks' /\ (Calm' => Calm)
<1>0. stack \in [Threads -> Seq(StackFrame)]
  BY DEF TypeInv, TypeOK, StackFrame
<1>1. ASSUME NEW t \in Threads, Inside(t) PROVE Stacks' /\ (Calm' => Calm)
  <2>1. \A u \in Threads : u # t => stack'[u] = stack[u]
    BY <1>0, <1>1 DEF Inside, LockShared, Visit, Unlock, Insert, ReadOn, Erase, Release, Push,
                      Replace, Pop
  <2>2. Stacked(stack'[t]) /\ (CalmSeq(stack'[t]) => CalmSeq(stack[t]))
    BY <1>1, StackInside
  <2> QED BY <2>1, <2>2 DEF Stacks, Calm
<1>2. ASSUME NEW t \in Threads, NEW f \in StackFrame, Idle(t), Push(t, f)
      PROVE  Stacks' /\ (Calm' => Calm)
  <2>1. \A u \in Threads : u # t => stack'[u] = stack[u]
    BY <1>2 DEF Push
  <2>2. stack'[t] = <<f>> \o <<>> /\ stack[t] = <<>>
    BY <1>0, <1>2 DEF Push, Idle
  <2>3. Len(<<f>> \o <<>>) = 1 /\ DOMAIN (<<f>> \o <<>>) = {1}
    OBVIOUS
  <2>4. Stacked(<<f>> \o <<>>) /\ CalmSeq(<<f>> \o <<>>) /\ CalmSeq(<<>>)
    BY <2>3 DEF Stacked, CalmSeq
  <2> QED BY <2>1, <2>2, <2>4 DEF Stacks, Calm
<1>3. CASE UNCHANGED stack
  BY <1>3 DEF Stacks, Calm
<1>4. ASSUME NEW t \in Threads, NEW c \in Conns, Accept(t, c)
      PROVE  Idle(t) /\ \E f \in StackFrame : Push(t, f)
  BY <1>4, FrameTypes DEF Accept
<1>5. ASSUME NEW t \in Threads, NEW c \in Conns, Handle(t, c)
      PROVE  Idle(t) /\ \E f \in StackFrame : Push(t, f)
  <2>1. said[c] + 1 \in Ordinals
    BY <1>5, CppAssumption DEF Handle, Ordinals, TypeInv, TypeOK
  <2> QED BY <1>5, <2>1, FrameTypes DEF Handle, ReadCompletes
<1>6. ASSUME NEW t \in Threads, NEW c \in Conns,
             \/ AcceptFails(t, c) \/ HandleFails(t, c)
             \/ OnSend(t, c) \/ OnWrite(t, c) \/ OnWriteFails(t, c)
      PROVE  Idle(t) /\ \E f \in StackFrame : Push(t, f)
  BY <1>6, FrameTypes DEF AcceptFails, HandleFails, OnSend, OnWrite, OnWriteFails, ReadCompletes
<1>7. ASSUME NEW t \in Threads, NEW c \in Conns, Upgrade(t, c) \/ HandleBad(t, c)
      PROVE  UNCHANGED stack
  BY <1>7 DEF Upgrade, HandleBad
<1>8. ASSUME UNCHANGED vars \/ \E c \in Conns : PeerGone(c) PROVE UNCHANGED stack
  BY <1>8 DEF vars, PeerGone
<1> QED BY <1>1, <1>2, <1>3, <1>4, <1>5, <1>6, <1>7, <1>8 DEF Next, Completion, UserStep


-----------------------------------------------------------------------------
(* The single thread *)

\* No two threads.
OneThread == \A t, u \in Threads : t = u

\* What short stacks hold.
LEMMA ShortSeq ==
    \A x, y :
        /\ {<<>>[i] : i \in DOMAIN <<>>} = {}
        /\ {<<x>>[i] : i \in DOMAIN <<x>>} = {x}
        /\ {<<x, y>>[i] : i \in DOMAIN <<x, y>>} = {x, y}
<1> TAKE x, y
<1>1. DOMAIN <<>> = {} /\ DOMAIN <<x>> = {1} /\ DOMAIN <<x, y>> = {1, 2}
  OBVIOUS
<1>2. <<x>>[1] = x /\ <<x, y>>[1] = x /\ <<x, y>>[2] = y
  OBVIOUS
<1> QED BY <1>1, <1>2

\* Every frame is on the one stack.
LEMMA LoneHeld ==
    ASSUME OneThread, NEW t \in Threads
    PROVE  /\ Held = {stack[t][i] : i \in DOMAIN stack[t]}
           /\ Held' = {stack'[t][i] : i \in DOMAIN stack'[t]}
<1>1. Threads = {t}
  BY DEF OneThread
<1>2. Held = {stack[t][i] : i \in DOMAIN stack[t]}
  BY <1>1 DEF Held
<1>3. Held' = {stack'[t][i] : i \in DOMAIN stack'[t]}
  BY <1>1 DEF Held
<1> QED BY <1>2, <1>3

\* A calm thread is idle, or in one frame, or about to release a pointer in its broadcast.
LEMMA CalmShape ==
    ASSUME TypeInv, Pointers, Sessions, Stacks, Calm, OneThread, NEW t \in Threads
    PROVE  \/ stack[t] = <<>> /\ Held = {}
           \/ \E f \in StackFrame : stack[t] = <<f>> /\ Held = {f}
           \/ \E d, b \in StackFrame :
                 /\ stack[t] = <<d, b>> /\ Held = {d, b}
                 /\ d.op = "drop" /\ d.pc = "drop" /\ d.todo = {} /\ b.pc = "loop" /\ b.op # "drop"
<1> DEFINE s == stack[t]
<1>1. s \in Seq(StackFrame) /\ Stacked(s) /\ CalmSeq(s)
  BY DEF TypeInv, TypeOK, StackFrame, Stacks, Calm
<1>2. Held = {s[i] : i \in DOMAIN s}
  BY LoneHeld
<1>3. \A i \in DOMAIN s : Good(s[i]) /\ Sound(s[i])
  BY <1>2 DEF Sessions, GoodFrames, Pointers, SoundFrames
<1> HIDE DEF s
<1>4. Len(s) \in Nat /\ (Len(s) = 0 \/ Len(s) = 1 \/ (Len(s) = 2 /\ s[1].op = "drop"))
  <2>1. Len(s) \in Nat
    BY <1>1
  <2> QED BY <1>1, <2>1, CalmLength
<1>5. CASE Len(s) = 0
  <2>1. s = <<>>
    BY <1>1, <1>5
  <2> QED BY <1>2, <2>1, ShortSeq DEF s
<1>6. CASE Len(s) = 1
  <2>1. s[1] \in StackFrame /\ s = <<s[1]>>
    BY <1>1, <1>6
  <2>2. PICK f \in StackFrame : s = <<f>>
    BY <2>1
  <2>3. Held = {f}
    BY <1>2, <2>2, ShortSeq
  <2> QED BY <2>2, <2>3 DEF s
<1>7. CASE Len(s) = 2 /\ s[1].op = "drop"
  <2>1. s[1] \in StackFrame /\ s[2] \in StackFrame /\ s = <<s[1], s[2]>>
        /\ 1 \in DOMAIN s /\ 2 \in DOMAIN s
    BY <1>1, <1>7
  <2>2. PICK d \in StackFrame : d = s[1]
    BY <2>1
  <2>3. PICK b \in StackFrame : b = s[2]
    BY <2>1
  <2>4. s = <<d, b>>
    BY <2>1, <2>2, <2>3
  <2>5. Held = {d, b}
    BY <1>2, <2>4, ShortSeq
  <2>6. d.op = "drop" /\ b.pc = "loop"
    BY <1>1, <1>7, <2>1, <2>2, <2>3 DEF Stacked
  <2>7. Good(d) /\ Sound(d) /\ Good(b)
    BY <1>3, <2>1, <2>2, <2>3
  <2>8. d.pc = "drop" /\ d.todo = {} /\ b.op # "drop"
    BY <2>6, <2>7 DEF Good, Sound
  <2> QED BY <2>4, <2>5, <2>6, <2>8 DEF s
<1> QED BY <1>4, <1>5, <1>6, <1>7

\* The steps of a calm thread.
LEMMA LoneAfter ==
    ASSUME OneThread, stack \in [Threads -> Seq(StackFrame)], NEW t \in Threads,
           NEW f \in StackFrame
    PROVE  /\ stack[t] = <<>> => Idle(t) /\ (Push(t, f) => Held' = {f})
           /\ \A x \in StackFrame : stack[t] = <<x>> =>
                 /\ ~Idle(t) /\ Top(t) = x
                 /\ Replace(t, f) => Held' = {f}
                 /\ Pop(t) => Held' = {}
                 /\ \A g \in StackFrame :
                       stack' = [stack EXCEPT ![t] = <<g, f>> \o Tail(@)] => Held' = {g, f}
           /\ \A x, y \in StackFrame : stack[t] = <<x, y>> =>
                 /\ ~Idle(t) /\ Top(t) = x
                 /\ Replace(t, f) => stack'[t] = <<f, y>>
                 /\ Pop(t) => Held' = {y}
<1>1. Held' = {stack'[t][i] : i \in DOMAIN stack'[t]}
  BY LoneHeld
<1>2. ASSUME stack[t] = <<>> PROVE Idle(t) /\ (Push(t, f) => Held' = {f})
  <2>1. <<f>> \o <<>> = <<f>>
    OBVIOUS
  <2>2. Push(t, f) => stack'[t] = <<f>>
    BY <1>2, <2>1 DEF Push
  <2> QED BY <1>1, <1>2, <2>2, ShortSeq DEF Idle
<1>3. ASSUME NEW x \in StackFrame, stack[t] = <<x>>
      PROVE  /\ ~Idle(t) /\ Top(t) = x
             /\ Replace(t, f) => Held' = {f}
             /\ Pop(t) => Held' = {}
             /\ \A g \in StackFrame :
                   stack' = [stack EXCEPT ![t] = <<g, f>> \o Tail(@)] => Held' = {g, f}
  <2>1. <<x>> # <<>> /\ Head(<<x>>) = x /\ Tail(<<x>>) = <<>> /\ <<f>> \o <<>> = <<f>>
    OBVIOUS
  <2>2. ~Idle(t) /\ Top(t) = x
    BY <1>3, <2>1 DEF Idle, Top
  <2>3. (Replace(t, f) => stack'[t] = <<f>>) /\ (Pop(t) => stack'[t] = <<>>)
    BY <1>3, <2>1 DEF Replace, Pop
  <2>4. ASSUME NEW g \in StackFrame, stack' = [stack EXCEPT ![t] = <<g, f>> \o Tail(@)]
        PROVE  Held' = {g, f}
    <3>1. <<g, f>> \o <<>> = <<g, f>>
      OBVIOUS
    <3>2. stack'[t] = <<g, f>>
      BY <1>3, <2>1, <2>4, <3>1
    <3> QED BY <1>1, <3>2, ShortSeq
  <2>5. Replace(t, f) => Held' = {f}
    BY <1>1, <2>3, ShortSeq
  <2>6. Pop(t) => Held' = {}
    BY <1>1, <2>3, ShortSeq
  <2> QED BY <2>2, <2>4, <2>5, <2>6
<1>4. ASSUME NEW x \in StackFrame, NEW y \in StackFrame, stack[t] = <<x, y>>
      PROVE  /\ ~Idle(t) /\ Top(t) = x
             /\ Replace(t, f) => stack'[t] = <<f, y>>
             /\ Pop(t) => Held' = {y}
  <2>a. <<x, y>> # <<>> /\ Head(<<x, y>>) = x
    OBVIOUS
  <2>b. Tail(<<x, y>>) = <<y>>
    OBVIOUS
  <2>c. <<f>> \o <<y>> = <<f, y>>
    <3>1. Len(<<f>> \o <<y>>) = 2 /\ (<<f>> \o <<y>>)[1] = f /\ (<<f>> \o <<y>>)[2] = y
          /\ <<f>> \o <<y>> \in Seq(StackFrame)
      OBVIOUS
    <3>2. PICK r \in Seq(StackFrame) : r = <<f>> \o <<y>>
      BY <3>1
    <3>3. Len(r) = 2 /\ r[1] = f /\ r[2] = y
      BY <3>1, <3>2
    <3>4. r = <<f, y>>
      BY <3>3
    <3> QED BY <3>2, <3>4
  <2>1. <<x, y>> # <<>> /\ Head(<<x, y>>) = x /\ Tail(<<x, y>>) = <<y>>
        /\ <<f>> \o <<y>> = <<f, y>>
    BY <2>a, <2>b, <2>c
  <2>2. ~Idle(t) /\ Top(t) = x
    BY <1>4, <2>1 DEF Idle, Top
  <2>3. (Replace(t, f) => stack'[t] = <<f, y>>) /\ (Pop(t) => stack'[t] = <<y>>)
    BY <1>4, <2>1 DEF Replace, Pop
  <2> QED BY <1>1, <2>2, <2>3, ShortSeq
<1> QED BY <1>2, <1>3, <1>4


-----------------------------------------------------------------------------
(* Who should have been sent the same *)

\* Those on the list, and the newcomer whose own "connect" the others are being sent.
Audience ==
    {c \in Conns :
        /\ Alive(c)
        /\ \/ c \in clients
           \/ \E h \in Held : h.op = "connect" /\ h.c = c /\ h.pc \in {"loop", "finish"}}

\* What each user will have been accepted once the broadcast that is under way has
\* reached them.
Expected ==
    [c \in Conns |->
        IF \E h \in Held : c \in h.todo
        THEN Append(Streams[c], (CHOOSE h \in Held : c \in h.todo).m)
        ELSE Streams[c]]

Together == \A c, d \in Audience : c # d => Aligned(Expected[c], Expected[d])

\* While a WsConn is being destroyed its destructor is on the stack; a newcomer has been
\* sent their own "connect" only; and the audience agrees.
Room ==
    /\ \A c \in Conns : conn[c] = "dying" => \E h \in Held : h.op = "dtor" /\ h.c = c
    /\ \A h \in Held : h.op = "connect" => Streams[h.c] = <<Connected(h.c)>>
    /\ Together

CalmRoom == Calm => Room

\* At most one broadcast is in its loop: it alone says what is expected.
LEMMA ExpectedIs ==
    \A f :
        /\ (\A h \in Held : h.todo # {} => h = f) /\ f \in Held =>
              \A c \in Conns :
                  Expected[c] = IF c \in f.todo THEN Append(Streams[c], f.m) ELSE Streams[c]
        /\ (\A h \in Held' : h.todo # {} => h = f) /\ f \in Held' =>
              \A c \in Conns :
                  Expected'[c] = IF c \in f.todo THEN Append(Streams'[c], f.m) ELSE Streams'[c]
<1> TAKE f
<1>1. ASSUME \A h \in Held : h.todo # {} => h = f, f \in Held, NEW c \in Conns
      PROVE  Expected[c] = IF c \in f.todo THEN Append(Streams[c], f.m) ELSE Streams[c]
  <2>1. CASE c \in f.todo
    <3>1. (CHOOSE h \in Held : c \in h.todo) = f
      BY <1>1, <2>1
    <3> QED BY <1>1, <2>1, <3>1 DEF Expected
  <2>2. CASE c \notin f.todo
    <3>1. ~\E h \in Held : c \in h.todo
      BY <1>1, <2>2
    <3> QED BY <2>2, <3>1 DEF Expected
  <2> QED BY <2>1, <2>2
<1>2. ASSUME \A h \in Held' : h.todo # {} => h = f, f \in Held', NEW c \in Conns
      PROVE  Expected'[c] = IF c \in f.todo THEN Append(Streams'[c], f.m) ELSE Streams'[c]
  <2>1. CASE c \in f.todo
    <3>1. (CHOOSE h \in Held' : c \in h.todo) = f
      BY <1>2, <2>1
    <3> QED BY <1>2, <2>1, <3>1 DEF Expected
  <2>2. CASE c \notin f.todo
    <3>1. ~\E h \in Held' : c \in h.todo
      BY <1>2, <2>2
    <3> QED BY <2>2, <3>1 DEF Expected
  <2> QED BY <2>1, <2>2
<1> QED BY <1>1, <1>2

\* With no broadcast in its loop nothing more is expected.
LEMMA ExpectedNow ==
    /\ (\A h \in Held : h.todo = {}) => Expected = Streams
    /\ (\A h \in Held' : h.todo = {}) => Expected' = Streams'
<1>1. ASSUME \A h \in Held : h.todo = {} PROVE Expected = Streams
  <2>1. \A c : ~\E h \in Held : c \in h.todo
    BY <1>1
  <2>2. Streams = [c \in Conns |-> Streams[c]]
    BY DEF Streams
  <2> QED BY <2>1, <2>2 DEF Expected
<1>2. ASSUME \A h \in Held' : h.todo = {} PROVE Expected' = Streams'
  <2>1. \A c : ~\E h \in Held' : c \in h.todo
    BY <1>2
  <2>2. Streams' = [c \in Conns |-> Streams'[c]]
    BY DEF Streams
  <2> QED BY <2>1, <2>2 DEF Expected
<1> QED BY <1>1, <1>2

\* At the start there is no audience.
LEMMA RoomInit == Init => CalmRoom
<1> SUFFICES ASSUME Init PROVE Room
  BY DEF CalmRoom
<1>1. Held = {} /\ clients = {} /\ \A c \in Conns : conn[c] = "none"
  BY DEF Init, Held
<1>2. Audience = {}
  BY <1>1 DEF Audience
<1> QED BY <1>1, <1>2 DEF Room, Together

\* A step after which nobody new is in the audience and no more is expected of anybody in
\* it leaves them in agreement.
LEMMA TogetherKept ==
    ASSUME Together, Audience' \subseteq Audience, \A c \in Audience' : Expected'[c] = Expected[c]
    PROVE  Together'
BY DEF Together


\* What is under way when the one thread goes on with its broadcast f.
LEMMA RoomBroadcast ==
    ASSUME TypeInv, Pointers, Sessions, Room, OneThread,
           NEW t \in Threads, NEW f \in StackFrame, stack[t] = <<f>>, Held = {f},
           LockShared(t) \/ Visit(t) \/ Unlock(t)
    PROVE  Room'
<1> USE DEF cvars, uvars
<1>0. /\ stack \in [Threads -> Seq(StackFrame)] /\ TypeOK /\ clients \subseteq Conns
      /\ Streams \in [Conns -> Seq(Frame)] /\ Together /\ Audience \subseteq Conns
  BY StreamTypes DEF TypeInv, TypeOK, StackFrame, Room, Audience
<1>1. Good(f) /\ Sound(f) /\ f.c \in Conns /\ f.m \in Frame /\ f.todo \subseteq Conns
  <2>1. <<f>>[1] = f /\ 1 \in DOMAIN <<f>>
    OBVIOUS
  <2>2. Sound(f)
    BY <2>1 DEF Pointers, SoundFrames
  <2> QED BY <2>2 DEF Sessions, GoodFrames, StackFrame
<1>2. Top(t) = f /\ UNCHANGED <<conn, clients>>
  BY <1>0, LoneAfter DEF LockShared, Visit, Unlock
<1>3. \A c \in Conns : Alive(c)' <=> Alive(c)
  BY <1>2 DEF Alive
<1>4. \A c \in Conns : Expected[c] = IF c \in f.todo THEN Append(Streams[c], f.m) ELSE Streams[c]
  BY ExpectedIs
<1>5. CASE LockShared(t)
  <2>1. PICK g \in StackFrame : g = [f EXCEPT !.pc = "loop", !.todo = clients]
    BY <1>0 DEF StackFrame
  <2>2. /\ g.op = f.op /\ g.c = f.c /\ g.m = f.m /\ g.pc = "loop" /\ g.todo = clients
        /\ f.pc = "lock" /\ Replace(t, g)
    BY <1>2, <1>5, <2>1 DEF LockShared, StackFrame
  <2>3. Held' = {g}
    BY <1>0, <2>2, LoneAfter
  <2>4. Streams' = Streams
    BY <1>5, StreamsStill DEF LockShared
  <2>5. f.todo = {} /\ f.op # "drop"
    BY <1>1, <2>2 DEF Good, Sound
  <2>6. f.m # ErrorTo(f.m.user)
    <3>1. \A e \in Conns : f.m # ErrorTo(e)
      BY <1>1, <2>5, OwnMessage
    <3>2. f.m.user \in Conns
      BY <1>1 DEF Frame, Message
    <3> QED BY <3>1, <3>2
  <2>7. \A c \in Conns :
          /\ Expected[c] = Streams[c] /\ Streams[c] \in Seq(Frame)
          /\ Expected'[c] = IF c \in clients THEN Append(Streams[c], f.m) ELSE Streams[c]
    BY <1>0, <1>4, <2>2, <2>3, <2>4, <2>5, ExpectedIs
  <2>8. ASSUME NEW c \in Audience'
        PROVE  c \in Conns /\ Alive(c) /\ (c \in clients \/ (f.op = "connect" /\ c = f.c))
    BY <1>2, <1>3, <2>2, <2>3, <2>8 DEF Audience
  <2>9. \A c \in Conns : Alive(c) /\ c \in clients => c \in Audience
    BY DEF Audience
  <2>10. f.op = "connect" => /\ Streams[f.c] = <<f.m>> /\ <<f.m>> = Append(<<>>, f.m)
                             /\ <<>> \in Seq(Frame) /\ f.c \notin clients
    <3> HAVE f.op = "connect"
    <3>1. f.m = Connected(f.c) /\ f.c \notin clients
      BY <1>1 DEF Good
    <3>2. Streams[f.c] = <<Connected(f.c)>>
      BY DEF Room
    <3> QED BY <1>1, <3>1, <3>2
  <2>11. ASSUME NEW c \in Audience', NEW d \in Audience', c # d
         PROVE  Aligned(Expected'[c], Expected'[d])
    <3>1. CASE c \in clients /\ d \in clients
      <4>1. Aligned(Streams[c], Streams[d])
        BY <1>0, <2>7, <2>8, <2>9, <2>11, <3>1 DEF Together
      <4>2. Aligned(Append(Streams[c], f.m), Append(Streams[d], f.m))
        BY <1>1, <2>6, <2>7, <2>8, <4>1, AlignedAppend
      <4> QED BY <2>7, <2>8, <3>1, <4>2
    <3>2. ASSUME NEW e \in Conns, e \in clients, f.op = "connect"
          PROVE  Aligned(Expected'[f.c], Expected'[e])
      <4>1. Aligned(<<>>, Streams[e])
        BY AlignedEmpty
      <4>2. Aligned(Append(<<>>, f.m), Append(Streams[e], f.m))
        BY <1>1, <2>6, <2>7, <2>10, <3>2, <4>1, AlignedAppend
      <4> QED BY <1>1, <2>7, <2>10, <3>2, <4>2
    <3>3. CASE c \notin clients \/ d \notin clients
      BY <2>8, <2>11, <3>2, <3>3, AlignedSym
    <3> QED BY <3>1, <3>3
  <2>12. Together'
    BY <2>11 DEF Together
  <2>13. \A h \in Held' : h.op = "connect" => Streams'[h.c] = <<Connected(h.c)>>
    BY <2>2, <2>3, <2>4 DEF Room
  <2>14. \A c \in Conns : conn'[c] = "dying" => \E h \in Held' : h.op = "dtor" /\ h.c = c
    BY <1>2, <2>2, <2>3 DEF Room
  <2> QED BY <2>12, <2>13, <2>14 DEF Room
<1>6. CASE Unlock(t)
  <2>1. PICK g \in StackFrame : g = [f EXCEPT !.pc = "finish"]
    BY DEF StackFrame
  <2>2. /\ g.op = f.op /\ g.c = f.c /\ g.pc = "finish" /\ g.todo = {}
        /\ f.pc = "loop" /\ f.todo = {} /\ Replace(t, g)
    BY <1>2, <1>6, <2>1 DEF Unlock, StackFrame
  <2>3. Held' = {g}
    BY <1>0, <2>2, LoneAfter
  <2>4. Streams' = Streams
    BY <1>6, StreamsStill DEF Unlock
  <2>5. Expected = Streams /\ Expected' = Streams'
    BY <2>2, <2>3, ExpectedNow
  <2>6. Audience' \subseteq Audience
    BY <1>2, <1>3, <2>2, <2>3 DEF Audience
  <2>7. Together'
    BY <1>0, <2>4, <2>5, <2>6, TogetherKept
  <2> QED BY <1>2, <2>2, <2>3, <2>4, <2>7 DEF Room
<1>7. CASE Visit(t)
  <2>1. PICK d \in f.todo :
          \/ /\ conn[d] = "dying" /\ Replace(t, [f EXCEPT !.todo = @ \ {d}]) /\ UNCHANGED posted
          \/ /\ stack' = [stack EXCEPT ![t] = <<Drop(d), [f EXCEPT !.todo = @ \ {d}]>> \o Tail(@)]
             /\ Post(d, f.m)
    BY <1>2, <1>7 DEF Visit
  <2>2. PICK g \in StackFrame : g = [f EXCEPT !.todo = f.todo \ {d}]
    BY DEF StackFrame
  <2>3. /\ g.op = f.op /\ g.c = f.c /\ g.m = f.m /\ g.pc = "loop" /\ f.pc = "loop"
        /\ g.todo = f.todo \ {d} /\ d \in Conns
    BY <1>1, <1>2, <1>7, <2>2 DEF Visit, StackFrame
  <2>4. UNCHANGED <<wire, queue>>
    BY <1>7 DEF Visit
  <2>5. CASE conn[d] = "dying" /\ Replace(t, g) /\ UNCHANGED posted
    <3>1. Held' = {g} /\ Streams' = Streams
      BY <1>0, <2>4, <2>5, LoneAfter, StreamsStill
    <3>2. \A c \in Conns : Expected'[c] = IF c \in g.todo THEN Append(Streams[c], f.m) ELSE Streams[c]
      BY <2>3, <3>1, ExpectedIs
    <3>3. Audience' \subseteq Audience
      BY <1>2, <1>3, <2>3, <3>1 DEF Audience
    <3>4. d \notin Audience
      BY <2>5 DEF Audience, Alive
    <3>5. \A c \in Audience' : Expected'[c] = Expected[c]
      BY <1>0, <1>4, <2>3, <3>2, <3>3, <3>4
    <3>6. Together'
      BY <1>0, <3>3, <3>5, TogetherKept
    <3> QED BY <1>2, <2>3, <3>1, <3>6 DEF Room
  <2>6. CASE stack' = [stack EXCEPT ![t] = <<Drop(d), g>> \o Tail(@)] /\ Post(d, f.m)
    <3>1. PICK x \in StackFrame : x = Drop(d) /\ x.op = "drop" /\ x.todo = {}
      <4>1. Drop(d) \in StackFrame
        BY <2>3, FrameTypes
      <4> QED BY <4>1 DEF Drop
    <3>2. Held' = {x, g}
      BY <1>0, <2>6, <3>1, LoneAfter
    <3>3. Streams' = [Streams EXCEPT ![d] = Append(Streams[d], f.m)]
      BY <1>0, <1>1, <2>3, <2>4, <2>6, StreamPosts
    <3>4. \A c \in Conns : Streams'[c] = IF c = d THEN Append(Streams[d], f.m) ELSE Streams[c]
      BY <1>0, <3>3
    <3>5. \A c \in Conns : Expected'[c] = IF c \in g.todo THEN Append(Streams'[c], f.m) ELSE Streams'[c]
      BY <2>3, <3>1, <3>2, ExpectedIs
    <3>6. Audience' \subseteq Audience
      BY <1>2, <1>3, <2>3, <3>1, <3>2 DEF Audience
    <3>7. \A c \in Audience' : Expected'[c] = Expected[c]
      <4> TAKE c \in Audience'
      <4>1. c \in Conns
        BY <1>0, <3>6
      <4>2. c = d => Expected'[c] = Append(Streams[c], f.m) /\ Expected[c] = Append(Streams[c], f.m)
        BY <1>4, <2>3, <3>4, <3>5, <4>1
      <4>3. c # d => (c \in g.todo <=> c \in f.todo) /\ Streams'[c] = Streams[c]
        BY <2>3, <3>4, <4>1
      <4> QED BY <1>4, <3>5, <4>1, <4>2, <4>3
    <3>8. Together'
      BY <1>0, <3>6, <3>7, TogetherKept
    <3>9. \A h \in Held' : h.op = "connect" => Streams'[h.c] = <<Connected(h.c)>>
      <4> SUFFICES ASSUME f.op = "connect" PROVE Streams'[f.c] = <<Connected(f.c)>>
        BY <2>3, <3>1, <3>2
      <4>1. f.c # d
        BY <1>1, <2>1 DEF Good
      <4>2. Streams[f.c] = <<Connected(f.c)>>
        BY DEF Room
      <4> QED BY <1>1, <3>4, <4>1, <4>2
    <3>10. \A c \in Conns : conn'[c] = "dying" => \E h \in Held' : h.op = "dtor" /\ h.c = c
      BY <1>2, <2>3, <3>2 DEF Room
    <3> QED BY <3>8, <3>9, <3>10 DEF Room
  <2> QED BY <2>1, <2>2, <2>5, <2>6
<1> QED BY <1>5, <1>6, <1>7


\* When it is done with the broadcast, or lets go of a pointer.
LEMMA RoomEnds ==
    ASSUME TypeInv, Pointers, Sessions, Room, OneThread,
           NEW t \in Threads, NEW f \in StackFrame, stack[t] = <<f>>, Held = {f},
           Insert(t) \/ ReadOn(t) \/ Erase(t) \/ Release(t)
    PROVE  Room'
<1> USE DEF cvars, uvars
<1>0. /\ stack \in [Threads -> Seq(StackFrame)] /\ clients \subseteq Conns /\ Together
      /\ conn \in [Conns -> {"none", "handshake", "open", "dying", "freed"}]
  BY DEF TypeInv, TypeOK, StackFrame, Room
<1>1. Good(f) /\ Sound(f) /\ f.c \in Conns
  <2>1. <<f>>[1] = f /\ 1 \in DOMAIN <<f>>
    OBVIOUS
  <2>2. Sound(f)
    BY <2>1 DEF Pointers, SoundFrames
  <2> QED BY <2>2 DEF Sessions, GoodFrames, StackFrame
<1>2. Top(t) = f
  BY <1>0, LoneAfter
<1>3. f.todo = {}
  BY <1>1, <1>2 DEF Insert, ReadOn, Erase, Release, Good, Sound
<1>4. Streams' = Streams
  BY StreamsStill DEF Insert, ReadOn, Erase, Release
<1>5. Expected = Streams
  BY <1>3, ExpectedNow
<1>6. ASSUME \A h \in Held' : h.todo = {}, Audience' \subseteq Audience PROVE Together'
  <2>1. Expected' = Streams'
    BY <1>6, ExpectedNow
  <2> QED BY <1>0, <1>4, <1>5, <1>6, <2>1, TogetherKept
<1>7. CASE Insert(t) \/ ReadOn(t)
  <2>1. PICK g \in StackFrame : g = Drop(f.c) /\ g.op = "drop" /\ g.todo = {}
    <3>1. Drop(f.c) \in StackFrame
      BY <1>1, FrameTypes
    <3> QED BY <3>1 DEF Drop
  <2>2. /\ Replace(t, g) /\ conn' = conn /\ f.op \in {"connect", "chat"} /\ f.pc = "finish"
        /\ clients' = clients \/ (clients' = clients \cup {f.c} /\ f.op = "connect")
    BY <1>2, <1>7, <2>1 DEF Insert, ReadOn
  <2>3. Held' = {g}
    BY <1>0, <2>2, LoneAfter
  <2>4. Audience' \subseteq Audience
    BY <2>1, <2>2, <2>3 DEF Audience, Alive
  <2>5. Together'
    BY <1>6, <2>1, <2>3, <2>4
  <2>6. \A c \in Conns : conn[c] # "dying"
    BY <2>2 DEF Room
  <2> QED BY <2>1, <2>2, <2>3, <2>5, <2>6 DEF Room
<1>8. CASE Erase(t)
  <2>1. /\ Pop(t) /\ conn' = [conn EXCEPT ![f.c] = "freed"] /\ clients' = clients \ {f.c}
    BY <1>2, <1>8 DEF Erase
  <2>2. Held' = {}
    BY <1>0, <2>1, LoneAfter
  <2>3. \A c \in Conns : conn'[c] = IF c = f.c THEN "freed" ELSE conn[c]
    BY <1>0, <2>1
  <2>4. Audience' \subseteq Audience
    BY <2>1, <2>2, <2>3 DEF Audience, Alive
  <2>5. Together'
    BY <1>6, <2>2, <2>4
  <2>6. \A c \in Conns : conn'[c] # "dying"
    BY <2>3 DEF Room
  <2> QED BY <2>2, <2>5, <2>6 DEF Room
<1>9. CASE Release(t)
  <2>1. /\ f.op = "drop" /\ clients' = clients
        /\ \/ Pop(t) /\ conn' = conn
           \/ /\ Replace(t, Broadcast("dtor", f.c, Disconnected(f.c)))
              /\ conn' = [conn EXCEPT ![f.c] = "dying"]
    BY <1>2, <1>9 DEF Release
  <2>2. \A c \in Conns : conn[c] # "dying"
    BY <2>1 DEF Room
  <2>3. CASE Pop(t) /\ conn' = conn
    <3>1. Held' = {}
      BY <1>0, <2>3, LoneAfter
    <3>2. Audience' \subseteq Audience
      BY <2>1, <2>3, <3>1 DEF Audience, Alive
    <3>3. Together'
      BY <1>6, <3>1, <3>2
    <3> QED BY <2>2, <2>3, <3>1, <3>3 DEF Room
  <2>4. CASE /\ Replace(t, Broadcast("dtor", f.c, Disconnected(f.c)))
             /\ conn' = [conn EXCEPT ![f.c] = "dying"]
    <3>1. PICK g \in StackFrame : g = Broadcast("dtor", f.c, Disconnected(f.c))
      BY <1>1, FrameTypes
    <3>2. Replace(t, g) /\ g.op = "dtor" /\ g.c = f.c /\ g.todo = {}
      BY <2>4, <3>1 DEF Broadcast
    <3>3. Held' = {g}
      BY <1>0, <3>2, LoneAfter
    <3>4. \A c \in Conns : conn'[c] = IF c = f.c THEN "dying" ELSE conn[c]
      BY <1>0, <2>4
    <3>5. Audience' \subseteq Audience
      BY <2>1, <3>2, <3>3, <3>4 DEF Audience, Alive
    <3>6. Together'
      BY <1>6, <3>2, <3>3, <3>5
    <3> QED BY <2>2, <3>2, <3>3, <3>4, <3>6 DEF Room
  <2> QED BY <2>1, <2>3, <2>4
<1> QED BY <1>7, <1>8, <1>9

\* When it lets go of a pointer in the middle of a broadcast; if that was the last one, it
\* is stuck.
LEMMA RoomDrops ==
    ASSUME TypeInv, Room, OneThread, NEW t \in Threads,
           NEW d \in StackFrame, NEW b \in StackFrame, stack[t] = <<d, b>>, Held = {d, b},
           d.op = "drop", d.pc = "drop", d.todo = {}, Inside(t), Calm'
    PROVE  Room'
<1> USE DEF cvars, uvars
<1>0. stack \in [Threads -> Seq(StackFrame)] /\ Together
  BY DEF TypeInv, TypeOK, StackFrame, Room
<1>1. Top(t) = d
  BY <1>0, LoneAfter
<1>2. Release(t)
  BY <1>1 DEF Inside, LockShared, Visit, Unlock, Insert, ReadOn, Erase
<1>3. clients' = clients /\ Streams' = Streams
  BY <1>2, StreamsStill DEF Release
<1>4. ~Replace(t, Broadcast("dtor", d.c, Disconnected(d.c)))
  <2> SUFFICES ASSUME Replace(t, Broadcast("dtor", d.c, Disconnected(d.c))) PROVE FALSE
    OBVIOUS
  <2>1. PICK g \in StackFrame : g = Broadcast("dtor", d.c, Disconnected(d.c)) /\ g.op = "dtor"
    <3>1. d.c \in Conns
      BY DEF StackFrame
    <3>2. Broadcast("dtor", d.c, Disconnected(d.c)) \in StackFrame
      BY <3>1, FrameTypes
    <3> QED BY <3>2 DEF Broadcast
  <2>2. stack'[t] = <<g, b>>
    BY <1>0, <2>1, LoneAfter
  <2>3. CalmSeq(<<g, b>>)
    BY <2>2 DEF Calm
  <2>4. Len(<<g, b>>) = 2 /\ <<g, b>>[1] = g
    OBVIOUS
  <2> QED BY <2>1, <2>3, <2>4 DEF CalmSeq
<1>5. Pop(t) /\ conn' = conn
  BY <1>1, <1>2, <1>4 DEF Release
<1>6. Held' = {b}
  BY <1>0, <1>5, LoneAfter
<1>7. \A c \in Conns : Expected'[c] = Expected[c]
  <2>1. \A c \in Conns : Expected[c] = IF c \in b.todo THEN Append(Streams[c], b.m) ELSE Streams[c]
    BY ExpectedIs
  <2>2. \A c \in Conns : Expected'[c] = IF c \in b.todo THEN Append(Streams'[c], b.m) ELSE Streams'[c]
    BY <1>6, ExpectedIs
  <2> QED BY <1>3, <2>1, <2>2
<1>8. Audience' \subseteq Audience /\ Audience' \subseteq Conns
  BY <1>3, <1>5, <1>6 DEF Audience, Alive
<1>9. Together'
  BY <1>0, <1>7, <1>8, TogetherKept
<1> QED BY <1>3, <1>5, <1>6, <1>9 DEF Room

\* When it takes up another handler, which posts nothing, or to nobody in the audience.
LEMMA RoomHandler ==
    ASSUME TypeInv, Welcomed, Sessions, Room, OneThread, NEW t \in Threads, NEW c \in Conns,
           stack[t] = <<>>, Held = {},
           \/ Accept(t, c) \/ HandleFails(t, c) \/ OnSend(t, c) \/ OnWrite(t, c)
           \/ OnWriteFails(t, c) \/ AcceptFails(t, c) \/ Handle(t, c)
    PROVE  Room'
<1> USE DEF cvars, uvars
<1>0. /\ stack \in [Threads -> Seq(StackFrame)] /\ TypeOK /\ Together
      /\ conn \in [Conns -> {"none", "handshake", "open", "dying", "freed"}]
      /\ Streams \in [Conns -> Seq(Frame)]
  BY StreamTypes DEF TypeInv, TypeOK, StackFrame, Room
<1>1. /\ clients' = clients
      /\ \A d \in Conns : \/ conn'[d] = conn[d]
                          \/ d = c /\ conn[d] = "handshake" /\ conn'[d] = "open"
  BY <1>0 DEF Accept, AcceptFails, HandleFails, OnSend, OnWrite, OnWriteFails, Handle
<1>2. \A d \in Conns : (Alive(d)' <=> Alive(d)) /\ conn[d] # "dying" /\ conn'[d] # "dying"
  BY <1>1 DEF Alive, Room
<1>3. PICK f \in StackFrame :
        /\ Push(t, f) /\ f.todo = {} /\ f.pc \in {"lock", "drop"}
        /\ f.op = "connect" => Accept(t, c) /\ f.c = c
  <2>1. CASE Accept(t, c)
    <3>1. PICK f \in StackFrame : f = Broadcast("connect", c, Connected(c))
      BY FrameTypes
    <3> QED BY <2>1, <3>1 DEF Accept, Broadcast
  <2>2. CASE Handle(t, c)
    <3>1. said[c] + 1 \in Ordinals
      BY <1>0, <2>2, CppAssumption DEF Handle, TypeOK, Ordinals
    <3>2. PICK a \in Actions : Push(t, Broadcast("chat", c, NewChatMessage(a, c, said[c] + 1)))
      BY <2>2 DEF Handle
    <3>3. PICK f \in StackFrame : f = Broadcast("chat", c, NewChatMessage(a, c, said[c] + 1))
      BY <3>1, FrameTypes
    <3> QED BY <3>2, <3>3 DEF Broadcast
  <2>3. CASE HandleFails(t, c) \/ OnSend(t, c) \/ OnWrite(t, c) \/ OnWriteFails(t, c) \/ AcceptFails(t, c)
    <3>1. PICK f \in StackFrame : f = Drop(c)
      BY FrameTypes
    <3>2. Push(t, f)
      BY <2>3, <3>1 DEF HandleFails, OnSend, OnWrite, OnWriteFails, AcceptFails
    <3> QED BY <3>1, <3>2 DEF Drop
  <2> QED BY <2>1, <2>2, <2>3
<1>4. Held' = {f}
  BY <1>0, <1>3, LoneAfter
<1>5. Expected = Streams /\ Expected' = Streams'
  BY <1>3, <1>4, ExpectedNow
<1>6. Audience' \subseteq Audience
  BY <1>1, <1>2, <1>3, <1>4 DEF Audience
<1>7. CASE ~Accept(t, c)
  <2>1. Streams' = Streams
    BY <1>7, StreamKept, StreamsStill DEF HandleFails, OnWriteFails, AcceptFails, Handle
  <2>2. Together'
    BY <1>0, <1>5, <1>6, <2>1, TogetherKept
  <2> QED BY <1>2, <1>3, <1>4, <1>7, <2>2 DEF Room
<1>8. CASE Accept(t, c)
  <2>1. /\ conn[c] = "handshake" /\ Connected(c) \in Frame
        /\ Streams' = [Streams EXCEPT ![c] = Append(Streams[c], Connected(c))]
    BY <1>0, <1>8, StreamPosts, FrameTypes DEF Accept
  <2>2. \A d \in Conns : Streams'[d] = IF d = c THEN Append(Streams[c], Connected(c)) ELSE Streams[d]
    BY <1>0, <2>1
  <2>3. c \notin Audience
    BY <2>1 DEF Audience, Sessions, Begun, Started
  <2>4. Together'
    <3>1. Audience \subseteq Conns
      BY DEF Audience
    <3>2. \A d \in Audience' : Expected'[d] = Expected[d]
      BY <1>5, <1>6, <2>2, <2>3, <3>1
    <3> QED BY <1>0, <1>6, <3>2, TogetherKept
  <2>5. Streams'[c] = <<Connected(c)>>
    <3>1. wire[c] = <<>> /\ queue[c] = <<>> /\ posted[c] = <<>>
      BY <2>1 DEF Welcomed, Told
    <3>2. <<>> \o <<>> \o <<>> = <<>> /\ Append(<<>>, Connected(c)) = <<Connected(c)>>
      OBVIOUS
    <3>3. Streams[c] = <<>>
      BY <3>1, <3>2 DEF Streams, Stream
    <3> QED BY <2>2, <3>2, <3>3
  <2> QED BY <1>2, <1>3, <1>4, <2>4, <2>5 DEF Room
<1> QED BY <1>7, <1>8

\* A malformed message is answered to its sender alone, and with an error.
LEMMA RoomHandleBad ==
    ASSUME TypeInv, Room, OneThread, NEW t \in Threads, NEW c \in Conns,
           stack[t] = <<>>, Held = {}, HandleBad(t, c)
    PROVE  Room'
<1> USE DEF cvars, uvars
<1>0. TypeOK /\ Together /\ Streams \in [Conns -> Seq(Frame)] /\ Audience \subseteq Conns
  BY StreamTypes DEF TypeInv, Room, Audience
<1>1. /\ UNCHANGED <<stack, conn, clients>> /\ ErrorTo(c) \in Frame
      /\ Streams' = [Streams EXCEPT ![c] = Append(Streams[c], ErrorTo(c))]
  BY <1>0, StreamPosts, FrameTypes DEF HandleBad
<1>2. \A d \in Conns : Streams'[d] = IF d = c THEN Append(Streams[c], ErrorTo(c)) ELSE Streams[d]
  BY <1>0, <1>1
<1>3. Held' = Held /\ Audience' = Audience
  <2>1. Held' = Held
    BY <1>1 DEF Held
  <2> QED BY <1>1, <2>1 DEF Audience, Alive
<1>4. Expected = Streams /\ Expected' = Streams'
  BY <1>3, ExpectedNow
<1>5. ErrorTo(c) = ErrorTo(ErrorTo(c).user)
  BY DEF ErrorTo, NewSystemMessage
<1>6. ASSUME NEW d \in Audience, d # c
      PROVE  c \in Audience => Aligned(Streams'[c], Streams'[d])
  <2> HAVE c \in Audience
  <2>1. Aligned(Streams[c], Streams[d])
    BY <1>0, <1>4, <1>6 DEF Together
  <2>2. Streams[c] \in Seq(Frame) /\ Streams[d] \in Seq(Frame)
    BY <1>0
  <2>3. Aligned(Append(Streams[c], ErrorTo(c)), Streams[d])
    BY <1>1, <1>5, <2>1, <2>2, AlignedAppend
  <2> QED BY <1>0, <1>2, <1>6, <2>3
<1>7. ASSUME NEW d \in Audience, NEW e \in Audience, d # e
      PROVE  Aligned(Expected'[d], Expected'[e])
  <2>1. CASE d = c \/ e = c
    BY <1>4, <1>6, <1>7, <2>1, AlignedSym
  <2>2. CASE d # c /\ e # c
    BY <1>0, <1>2, <1>4, <1>7, <2>2 DEF Together
  <2> QED BY <2>1, <2>2
<1>8. Together'
  BY <1>3, <1>7 DEF Together
<1> QED BY <1>1, <1>3, <1>8 DEF Room


\* No step of a lone thread that is not stuck parts two users.
LEMMA RoomStep ==
    ASSUME TypeInv, Pointers, Welcomed, Sessions, Stacks, CalmRoom, OneThread, [Next]_vars
    PROVE  Stacks' /\ CalmRoom'
<1>1. Stacks' /\ (Calm' => Calm)
  BY StacksStep
<1> SUFFICES ASSUME Calm, Calm', Room PROVE Room'
  BY <1>1 DEF CalmRoom
<1>0. stack \in [Threads -> Seq(StackFrame)]
  BY DEF TypeInv, TypeOK, StackFrame
<1>2. ASSUME NEW t \in Threads, Inside(t) PROVE Room'
  <2>1. stack[t] # <<>>
    BY <1>2 DEF Inside, LockShared, Visit, Unlock, Insert, ReadOn, Erase, Release, Idle
  <2>2. CASE \E f \in StackFrame : stack[t] = <<f>> /\ Held = {f}
    BY <1>2, <2>2, RoomBroadcast, RoomEnds DEF Inside
  <2>3. CASE \E d, b \in StackFrame :
                /\ stack[t] = <<d, b>> /\ Held = {d, b}
                /\ d.op = "drop" /\ d.pc = "drop" /\ d.todo = {} /\ b.pc = "loop" /\ b.op # "drop"
    BY <1>2, <2>3, RoomDrops
  <2> QED BY <2>1, <2>2, <2>3, CalmShape
<1>3. ASSUME NEW t \in Threads, Idle(t) PROVE stack[t] = <<>> /\ Held = {}
  <2>1. stack[t] = <<>>
    BY <1>3 DEF Idle
  <2> QED BY <2>1, LoneHeld, ShortSeq
<1>4. ASSUME NEW t \in Threads, NEW c \in Conns,
             \/ Accept(t, c) \/ HandleFails(t, c) \/ OnSend(t, c) \/ OnWrite(t, c)
             \/ OnWriteFails(t, c) \/ AcceptFails(t, c) \/ Handle(t, c)
      PROVE  Room'
  <2>1. Idle(t)
    BY <1>4 DEF Accept, HandleFails, OnSend, OnWrite, OnWriteFails, AcceptFails, Handle,
                ReadCompletes
  <2> QED BY <1>3, <1>4, <2>1, RoomHandler
<1>5. ASSUME NEW t \in Threads, NEW c \in Conns, HandleBad(t, c) PROVE Room'
  <2>1. Idle(t)
    BY <1>5 DEF HandleBad, ReadCompletes
  <2> QED BY <1>3, <1>5, <2>1, RoomHandleBad
<1>6. CASE \/ \E t \in Threads, c \in Conns : Upgrade(t, c)
           \/ \E c \in Conns : PeerGone(c)
           \/ UNCHANGED vars
  <2>1. /\ UNCHANGED <<stack, clients, wire, queue, posted>>
        /\ \A c \in Conns : (Alive(c)' <=> Alive(c)) /\ (conn'[c] = "dying" => conn[c] = "dying")
    <3>1. conn \in [Conns -> {"none", "handshake", "open", "dying", "freed"}]
      BY DEF TypeInv, TypeOK
    <3> QED BY <1>6, <3>1 DEF Upgrade, PeerGone, vars, cvars, uvars, Alive
  <2>2. Held' = Held /\ Streams' = Streams
    BY <2>1, StreamsStill DEF Held
  <2>3. Audience' = Audience /\ Expected' = Expected
    BY <2>1, <2>2 DEF Audience, Expected
  <2>4. Together'
    BY <2>3 DEF Room, Together
  <2> QED BY <2>1, <2>2, <2>4 DEF Room
<1> QED BY <1>2, <1>4, <1>5, <1>6 DEF Next, Completion, UserStep

\* With one worker, the default of main, two registered users have been sent the same
\* messages in the same order since the later one joined: a thread is in the loop of one
\* broadcast at a time, that loop reaches everybody on the list before the next begins,
\* and a newcomer is put on the list right after the others have been sent the "connect"
\* the newcomer has had.  A thread whose destructor runs within a broadcast never gets out
\* of it, and is never quiet again.
THEOREM OneWorkerAgrees == ASSUME OneThread PROVE Spec => []Agreement
<1>1. Init => Stacks
  <2>1. Stacked(<<>>)
    BY DEF Stacked
  <2> QED BY <2>1 DEF Init, Stacks
<1>2. TypeInv /\ Pointers /\ Welcomed /\ Sessions /\ Stacks /\ CalmRoom /\ [Next]_vars
        => Stacks' /\ CalmRoom'
  BY RoomStep
<1>3. TypeInv /\ Pointers /\ CalmRoom => Agreement
  <2> SUFFICES ASSUME TypeInv, Pointers, CalmRoom, Quiet, NEW c \in clients, NEW d \in clients
               PROVE  Aligned(Stream(c), Stream(d))
    BY DEF Agreement
  <2>1. \A t \in Threads : stack[t] = <<>>
    BY DEF Quiet, Idle
  <2>2. CalmSeq(<<>>)
    BY DEF CalmSeq
  <2>3. Calm /\ Held = {}
    BY <2>1, <2>2 DEF Calm, Held
  <2>4. Room /\ Expected = Streams
    BY <2>3, ExpectedNow DEF CalmRoom
  <2>5. c \in Conns /\ d \in Conns /\ Streams \in [Conns -> Seq(Frame)]
    BY StreamTypes DEF TypeInv, TypeOK
  <2>6. c \in Audience /\ d \in Audience
    BY <2>3, <2>4, <2>5 DEF Audience, Alive, Pointers, Room
  <2>7. Aligned(Streams[c], Streams[d])
    <3>1. CASE c = d
      BY <2>5, <3>1, AlignedSelf
    <3>2. CASE c # d
      BY <2>4, <2>6, <3>2 DEF Room, Together
    <3> QED BY <3>1, <3>2
  <2> QED BY <2>5, <2>7 DEF Streams
<1> QED BY TypeInit, TypeStep, PointersInit, PointersStep, WelcomedInit, WelcomedStep,
           SessionsInit, SessionsStep, RoomInit, <1>1, <1>2, <1>3, PTL DEF Spec
=============================================================================
