--------------------------- MODULE GoServerProofs ---------------------------
(***************************************************************************)
(* The goroutines of wschat-go never send on a closed channel, and show    *)
(* every user their own "connect" first, for any number of connections and *)
(* chats, any channel capacity and any socket buffer.                      *)
(***************************************************************************)
EXTENDS GoServer, TLAPS

\* A chat that is being broadcast was received.
ChatsReceived ==
    /\ \A c \in Conns : Len(text[c]) <= MaxChats
    /\ \A j \in Jobs : jpc[j] # "idle" /\ j.action = "chat" => j.n <= Len(text[j.user])

\* A Go channel is closed only once `closed` is set, and the handler that is about to
\* close it has set it.
ClosedFirst == \A c \in Conns : shut[c] \/ hpc[c] = "close" => closed[c]

\* A broadcast visits one key at a time.
OneAtATime == \A j \in Jobs : \A d, e \in at[j] : d = e

\* Until it is stored, nobody knows a connection's Channel and nothing drains it.
Unregistered ==
    \A c \in Conns : hpc[c] \in {"start", "connect", "store"} =>
        /\ c \notin clients /\ wpc[c] = "none"
        /\ \A j \in Jobs : c \notin todo[j] /\ c \notin at[j]

\* Nothing is written before a connection's own connect, and afterwards only a socket
\* that fails is still empty.
Untold ==
    \A c \in Conns :
        /\ hpc[c] \in {"start", "connect"} => wire[c] = <<>>
        /\ hpc[c] \notin {"start", "connect"} /\ wire[c] = <<>> => gone[c]

\* How far a handler is says which broadcasts of its connection have begun, and what a
\* connection that is not stored yet has said and been sent.
Announced ==
    \A c \in Conns :
        /\ hpc[c] = "start" => jpc[Connected(c)] = "idle"
        /\ hpc[c] \notin {"start", "connect"} => jpc[Connected(c)] = "done"
        /\ hpc[c] \in {"start", "connect", "store", "loop", "error", "defer"} =>
              jpc[Disconnected(c)] = "idle"
        /\ hpc[c] \in {"start", "connect", "store"} => text[c] = <<>> /\ buf[c] = <<>>

\* A broadcast that has not begun is at no key, and one that has will not come back to the
\* key it is at.
Onward ==
    \A j \in Jobs : /\ jpc[j] \in {"idle", "ready"} => at[j] = {}
                    /\ at[j] \cap todo[j] = {}

\* The broadcast j has begun, and is done with the key d or never had it.
Passed(j, d) == jpc[j] \notin {"idle", "ready"} /\ d \notin todo[j] /\ d \notin at[j]

\* Why a frame m may be on the way to d.
Source(d, m) ==
    \/ m = ErrorTo(d) /\ hpc[d] \notin {"start", "connect", "store", "loop", "error"}
    \/ m = Connected(d) /\ hpc[d] \notin {"start", "connect"}
    \/ \E j \in Jobs : Passed(j, d) /\ m = Payload(j)

\* Every frame in a Channel or on a socket was put there by the handler, or by a broadcast
\* that has passed.
Sourced ==
    \A d \in Conns, m \in Frame : Heard(wire[d], m) \/ Heard(buf[d], m) => Source(d, m)

\* m occurs once at most in s.
Once(s, m) == \A i, j \in DOMAIN s : s[i] = m /\ s[j] = m => i = j

\* What of x the socket w and the Channel b of one user hold together: x once at most.
Clean(w, b, x) == Once(w, x) /\ Once(b, x) /\ ~(Heard(w, x) /\ Heard(b, x))

\* And of x and y: no y before x.
Ordered(w, b, x, y) ==
    NotAfter(w, x, y) /\ NotAfter(b, x, y) /\ ~(Heard(w, y) /\ Heard(b, x))

\* What was not said twice is not on the way to anybody twice.
NoneTwice == \A d \in Conns, m \in Frame : ~Resent(m) => Clean(wire[d], buf[d], m)

\* What a user is heard of after the connect.
Later(c) == {Disconnected(c)} \cup {Chat(c, k) : k \in {0} \cup Ordinals}

\* No chat or departure is on the way to anybody before the connect.
NoneEarly ==
    \A d, c \in Conns : \A m \in Later(c) : Ordered(wire[d], buf[d], Connected(c), m)

-----------------------------------------------------------------------------
(* Type correctness *)

\* Every announcement names a broadcast, and a chat its sender and ordinal.
LEMMA JobTypes ==
    /\ \A c \in Conns : Connected(c) \in Jobs /\ Disconnected(c) \in Jobs
    /\ \A c \in Conns, k \in Ordinals : Chat(c, k) \in Jobs
    /\ \A c \in Conns : Connected(c).action # "chat" /\ Disconnected(c).action # "chat"
    /\ \A c \in Conns, k \in Ordinals : Chat(c, k).n = k /\ Chat(c, k).user = c
    /\ \A j \in Jobs : j.user \in Conns /\ (j.action = "chat" => j.n \in Ordinals)
BY DEF Connected, Disconnected, Chat, NewSystemMessage, NewChatMessage, Jobs

\* Every announcement is a frame of the wire.
LEMMA FrameTypes ==
    /\ \A c \in Conns : Connected(c) \in Frame /\ ErrorTo(c) \in Frame
    /\ \A c \in Conns, n \in {0} \cup Ordinals : Chat(c, n) \in Frame
    /\ \A j \in Jobs : j \in Frame
BY DEF Connected, ErrorTo, Chat, NewSystemMessage, NewChatMessage, Jobs, Frame, Message

\* What broadcastMsg marshals is a frame of the wire.
LEMMA PayloadType ==
    ASSUME TypeOK, ChatsReceived, NEW j \in Jobs, jpc[j] # "idle"
    PROVE  Payload(j) \in Frame
<1>1. CASE j.action = "chat"
  <2>1. j.user \in Conns /\ j.n \in 1..MaxChats /\ j.n <= Len(text[j.user])
    BY <1>1, JobTypes DEF ChatsReceived, Ordinals
  <2>2. text[j.user] \in Seq({0} \cup Ordinals)
    BY <2>1 DEF TypeOK
  <2>3. text[j.user][j.n] \in {0} \cup Ordinals
    BY <2>1, <2>2, GoAssumption
  <2> QED BY <1>1, <2>1, <2>3, FrameTypes DEF Payload
<1>2. CASE j.action # "chat"
  BY <1>2, FrameTypes DEF Payload
<1> QED BY <1>1, <1>2

\* What ws.Write does to the sockets.
LEMMA WriteType ==
    ASSUME TypeOK, NEW c \in Conns, NEW m \in Frame, Write(c, m)
    PROVE  /\ wire' \in [Conns -> Seq(Frame)]
           /\ read' = read /\ gone' = gone
           /\ \A d \in Conns : d # c => wire'[d] = wire[d]
           /\ Dead(c) => wire' = wire
           /\ ~Dead(c) => wire'[c] = Append(wire[c], m)
BY DEF Write, TypeOK

\* The server starts well typed.
LEMMA TypeInit == Init => TypeOK /\ ChatsReceived
BY GoAssumption DEF Init, TypeOK, ChatsReceived

\* No step of a goroutine takes the state out of its type, nor a Channel beyond its capacity.
LEMMA TypeStep == TypeOK /\ ChatsReceived /\ [Next]_vars => TypeOK' /\ ChatsReceived'
<1> SUFFICES ASSUME TypeOK, ChatsReceived, [Next]_vars PROVE TypeOK' /\ ChatsReceived'
  OBVIOUS
<1> USE DEF hvars, jvars, cvars, svars, Goto, JGoto
<1>1. ASSUME NEW c \in Conns, Accept(c) PROVE TypeOK' /\ ChatsReceived'
  BY <1>1, JobTypes DEF Accept, EnterRange, TypeOK, ChatsReceived
<1>2. ASSUME NEW c \in Conns, WriteConnect(c) PROVE TypeOK' /\ ChatsReceived'
  BY <1>2, FrameTypes, WriteType DEF WriteConnect, TypeOK, ChatsReceived
<1>3. ASSUME NEW c \in Conns, Store(c) PROVE TypeOK' /\ ChatsReceived'
  BY <1>3 DEF Store, TypeOK, ChatsReceived
<1>4. ASSUME NEW c \in Conns, ReceiveChat(c) PROVE TypeOK' /\ ChatsReceived'
  <2> DEFINE k == Len(text[c]) + 1
  <2>1. text[c] \in Seq({0} \cup Ordinals) /\ Len(text[c]) \in Nat /\ Len(text[c]) < MaxChats
    BY <1>4 DEF ReceiveChat, TypeOK
  <2>2. k \in Ordinals
    BY <2>1, GoAssumption DEF Ordinals
  <2>3. PICK x : text' = [text EXCEPT ![c] = Append(@, x)] /\ x \in {0} \cup Ordinals
    <3>1. \A blank \in BOOLEAN : Contents(c, blank) \in {0} \cup Ordinals
      <4>1. k # 1 => text[c][k - 1] \in {0} \cup Ordinals
        BY <2>1
      <4> QED BY <2>2, <4>1 DEF Contents
    <3> QED BY <1>4, <3>1, GoAssumption DEF ReceiveChat
  <2>4. /\ text' \in [Conns -> Seq({0} \cup Ordinals)]
        /\ text'[c] = Append(text[c], x) /\ Len(text'[c]) = k
        /\ \A d \in Conns : d # c => text'[d] = text[d]
    <3>1. text \in [Conns -> Seq({0} \cup Ordinals)]
      BY DEF TypeOK
    <3>2. Append(text[c], x) \in Seq({0} \cup Ordinals) /\ Len(Append(text[c], x)) = k
      BY <2>1, <2>3
    <3> QED BY <2>3, <3>1, <3>2
  <2>5. jpc' = [jpc EXCEPT ![Chat(c, k)] = "ready"] /\ Chat(c, k) \in Jobs
    BY <1>4, <2>2, JobTypes DEF ReceiveChat, Spawn
  <2>6. TypeOK'
    BY <1>4, <2>4, <2>5 DEF ReceiveChat, Spawn, TypeOK
  <2>7. \A d \in Conns : Len(text[d]) <= Len(text'[d]) /\ Len(text'[d]) <= MaxChats
    <3> SUFFICES ASSUME NEW d \in Conns
                 PROVE  Len(text[d]) <= Len(text'[d]) /\ Len(text'[d]) <= MaxChats
      OBVIOUS
    <3>1. text[d] \in Seq({0} \cup Ordinals) /\ Len(text[d]) <= MaxChats
      BY DEF ChatsReceived, TypeOK
    <3>2. Len(text[d]) \in Nat
      BY <3>1
    <3>3. CASE d = c
      <4>1. Len(text'[d]) = Len(text[c]) + 1
        BY <3>3, <2>4
      <4> QED BY <3>3, <4>1, <2>1, GoAssumption
    <3>4. CASE d # c
      BY <3>1, <3>2, <3>4, <2>4
    <3> QED BY <3>3, <3>4
  <2>8. ASSUME NEW j \in Jobs, jpc'[j] # "idle", j.action = "chat"
        PROVE  j.n <= Len(text'[j.user])
    <3>1. CASE j = Chat(c, k)
      BY <3>1, <2>1, <2>2, <2>4, JobTypes
    <3>2. CASE j # Chat(c, k)
      <4>1. jpc[j] # "idle"
        BY <3>2, <2>5, <2>8 DEF TypeOK
      <4>2. j.n <= Len(text[j.user]) /\ j.user \in Conns /\ j.n \in Nat
        BY <4>1, <2>8, JobTypes, GoAssumption DEF ChatsReceived, Ordinals
      <4>3. Len(text[j.user]) \in Nat /\ Len(text'[j.user]) \in Nat
        BY <4>2, <2>4 DEF TypeOK
      <4> QED BY <4>2, <4>3, <2>7
    <3> QED BY <3>1, <3>2
  <2> QED BY <2>6, <2>7, <2>8 DEF ChatsReceived
<1>5. ASSUME NEW c \in Conns, ReceiveBadType(c) \/ ReceiveEnd(c) PROVE TypeOK' /\ ChatsReceived'
  BY <1>5 DEF ReceiveBadType, ReceiveEnd, TypeOK, ChatsReceived
<1>6. ASSUME NEW c \in Conns, SendError(c) PROVE TypeOK' /\ ChatsReceived'
  BY <1>6, FrameTypes, WriteType DEF SendError, TypeOK, ChatsReceived
<1>7. ASSUME NEW c \in Conns, Defer(c) PROVE TypeOK' /\ ChatsReceived'
  BY <1>7, JobTypes DEF Defer, Spawn, TypeOK, ChatsReceived
<1>8. ASSUME NEW c \in Conns, CloseSwap(c) \/ CloseDelete(c) \/ WsClose(c)
      PROVE  TypeOK' /\ ChatsReceived'
  BY <1>8 DEF CloseSwap, CloseDelete, WsClose, TypeOK, ChatsReceived
<1>9. ASSUME NEW c \in Conns, WriterWrite(c) PROVE TypeOK' /\ ChatsReceived'
  <2>1. buf[c] \in Seq(Frame) /\ buf[c] # <<>> /\ Len(buf[c]) <= Cap
    BY <1>9 DEF WriterWrite, TypeOK
  <2>2. /\ Head(buf[c]) \in Frame /\ Tail(buf[c]) \in Seq(Frame)
        /\ Len(Tail(buf[c])) <= Cap
    BY <2>1, GoAssumption
  <2> QED BY <1>9, <2>2, WriteType DEF WriterWrite, TypeOK, ChatsReceived
<1>10. ASSUME NEW c \in Conns, WriterEnd(c) PROVE TypeOK' /\ ChatsReceived'
  BY <1>10 DEF WriterEnd, TypeOK, ChatsReceived
<1>11. ASSUME NEW c \in Conns, PeerReads(c) \/ PeerVanishes(c) PROVE TypeOK' /\ ChatsReceived'
  <2>1. CASE PeerReads(c)
    BY <2>1 DEF PeerReads, TypeOK, ChatsReceived
  <2>2. CASE PeerVanishes(c)
    BY <2>2 DEF PeerVanishes, TypeOK, ChatsReceived
  <2> QED BY <1>11, <2>1, <2>2
<1>12. ASSUME NEW j \in Jobs, BeginRange(j) \/ EndRange(j) PROVE TypeOK' /\ ChatsReceived'
  BY <1>12 DEF BeginRange, EnterRange, EndRange, TypeOK, ChatsReceived
<1>13. ASSUME NEW j \in Jobs, NEW d \in Conns, Visit(j, d) \/ SendRLock(j, d) \/ SendSkip(j, d)
       PROVE  TypeOK' /\ ChatsReceived'
  <2>1. CASE Visit(j, d)
    BY <2>1 DEF Visit, TypeOK, ChatsReceived
  <2>2. CASE SendRLock(j, d)
    BY <2>2 DEF SendRLock, TypeOK, ChatsReceived
  <2>3. CASE SendSkip(j, d)
    BY <2>3 DEF SendSkip, TypeOK, ChatsReceived
  <2> QED BY <1>13, <2>1, <2>2, <2>3
<1>14. ASSUME NEW j \in Jobs, NEW d \in Conns, SendChan(j, d) PROVE TypeOK' /\ ChatsReceived'
  <2>1. Payload(j) \in Frame
    BY <1>14, PayloadType DEF SendChan
  <2>2. buf[d] \in Seq(Frame) /\ Len(buf[d]) < Cap
    BY <1>14 DEF SendChan, TypeOK
  <2>3. Append(buf[d], Payload(j)) \in Seq(Frame) /\ Len(Append(buf[d], Payload(j))) <= Cap
    BY <2>1, <2>2, GoAssumption
  <2> QED BY <1>14, <2>3 DEF SendChan, TypeOK, ChatsReceived
<1>15. CASE UNCHANGED vars
  BY <1>15 DEF vars, TypeOK, ChatsReceived
<1> QED BY <1>1, <1>2, <1>3, <1>4, <1>5, <1>6, <1>7, <1>8, <1>9, <1>10, <1>11, <1>12, <1>13,
           <1>14, <1>15 DEF Next, HandlerStep, UserStep, WriterStep, JobStep
-----------------------------------------------------------------------------
(* No send on a closed channel *)

SendInv == ClosedFirst /\ OneAtATime /\ NoSendOnClosed

\* No Channel is closed at the start.
LEMMA SendInit == Init => SendInv
BY DEF Init, SendInv, ClosedFirst, OneAtATime, NoSendOnClosed

\* No step of a goroutine leaves a broadcast sending on a closed channel.
LEMMA SendStep == TypeOK /\ SendInv /\ [Next]_vars => SendInv'
<1> SUFFICES ASSUME TypeOK, SendInv, [Next]_vars PROVE SendInv'
  OBVIOUS
<1> USE DEF hvars, jvars, cvars, svars, Goto, JGoto, SendInv
\* Most steps touch neither the Channels nor a broadcast that is sending.
<1>1. ASSUME UNCHANGED <<closed, shut, at>>,
             \A c \in Conns : hpc'[c] = "close" => hpc[c] = "close",
             \A j \in Jobs : jpc'[j] = "send" => jpc[j] = "send"
      PROVE  SendInv'
  BY <1>1 DEF ClosedFirst, OneAtATime, NoSendOnClosed
<1>2. ASSUME NEW c \in Conns, WriteConnect(c) \/ Store(c) \/ SendError(c) \/ Defer(c) \/ WsClose(c)
      PROVE  SendInv'
  <2>1. UNCHANGED <<closed, shut, at>> /\ \A j \in Jobs : jpc'[j] = "send" => jpc[j] = "send"
    BY <1>2, JobTypes DEF WriteConnect, Store, SendError, Defer, WsClose, Spawn, TypeOK
  <2>2. \A d \in Conns : hpc'[d] = "close" => hpc[d] = "close"
    BY <1>2 DEF WriteConnect, Store, SendError, Defer, WsClose, TypeOK
  <2> QED BY <1>1, <2>1, <2>2
<1>3. ASSUME NEW c \in Conns, CloseSwap(c) PROVE SendInv'
  BY <1>3 DEF CloseSwap, ClosedFirst, OneAtATime, NoSendOnClosed, TypeOK
<1>4. ASSUME NEW c \in Conns, CloseDelete(c) PROVE SendInv'
  <2>1. ClosedFirst'
    BY <1>4 DEF CloseDelete, ClosedFirst, TypeOK
  <2>2. OneAtATime'
    BY <1>4 DEF CloseDelete, OneAtATime
  \* The Lock was granted, so no broadcast is inside Send of c.
  <2>3. \A j \in Jobs : jpc[j] = "send" => c \notin at[j]
    BY <1>4 DEF CloseDelete, LockGranted, RLocked
  <2>4. NoSendOnClosed'
    BY <1>4, <2>3 DEF CloseDelete, NoSendOnClosed, TypeOK
  <2> QED BY <2>1, <2>2, <2>4
<1>5. ASSUME NEW c \in Conns, UserStep(c) PROVE SendInv'
  <2>1. UNCHANGED <<closed, shut, at>> /\ \A j \in Jobs : jpc'[j] = "send" => jpc[j] = "send"
    <3>1. CASE ReceiveChat(c)
      <4>1. Chat(c, Len(text[c]) + 1) \in Jobs
        <5>1. Len(text[c]) \in Nat /\ Len(text[c]) < MaxChats
          BY <3>1 DEF ReceiveChat, TypeOK
        <5> QED BY <5>1, JobTypes, GoAssumption DEF Ordinals
      <4> QED BY <3>1, <4>1 DEF ReceiveChat, Spawn, TypeOK
    <3>2. CASE ~ReceiveChat(c)
      BY <1>5, <3>2, JobTypes
         DEF UserStep, Accept, EnterRange, ReceiveBadType, ReceiveEnd, PeerVanishes, TypeOK
    <3> QED BY <3>1, <3>2
  <2>2. \A d \in Conns : hpc'[d] = "close" => hpc[d] = "close"
    BY <1>5 DEF UserStep, Accept, ReceiveChat, ReceiveBadType, ReceiveEnd, PeerVanishes, TypeOK
  <2> QED BY <1>1, <2>1, <2>2
<1>6. ASSUME NEW c \in Conns, WriterStep(c) \/ PeerReads(c) PROVE SendInv'
  BY <1>1, <1>6 DEF WriterStep, WriterWrite, WriterEnd, PeerReads
<1>7. ASSUME NEW j \in Jobs, BeginRange(j) \/ EndRange(j) PROVE SendInv'
  BY <1>1, <1>7 DEF BeginRange, EnterRange, EndRange, TypeOK
<1>8. ASSUME NEW j \in Jobs, NEW d \in Conns, Visit(j, d) \/ SendSkip(j, d) \/ SendChan(j, d)
      PROVE  SendInv'
  <2>1. /\ UNCHANGED <<hpc, closed, shut>>
        /\ jpc'[j] # "send" /\ (at'[j] = {d} \/ at'[j] = {})
        /\ \A i \in Jobs : i # j => jpc'[i] = jpc[i] /\ at'[i] = at[i]
    BY <1>8 DEF Visit, SendSkip, SendChan, TypeOK
  <2> QED BY <2>1 DEF ClosedFirst, OneAtATime, NoSendOnClosed
\* RLock was granted with `closed` unset, so the Go channel is open.
<1>9. ASSUME NEW j \in Jobs, NEW d \in Conns, SendRLock(j, d) PROVE SendInv'
  <2>1. /\ UNCHANGED <<hpc, closed, shut, at>> /\ d \in at[j] /\ ~closed[d]
        /\ \A i \in Jobs : i # j => jpc'[i] = jpc[i]
    BY <1>9 DEF SendRLock, TypeOK
  <2>2. \A e \in at[j] : e = d /\ ~shut[e]
    BY <2>1 DEF ClosedFirst, OneAtATime
  <2> QED BY <2>1, <2>2 DEF ClosedFirst, OneAtATime, NoSendOnClosed
<1>10. CASE UNCHANGED vars
  BY <1>1, <1>10 DEF vars
<1> QED BY <1>2, <1>3, <1>4, <1>5, <1>6, <1>7, <1>8, <1>9, <1>10
        DEF Next, HandlerStep, JobStep

-----------------------------------------------------------------------------
(* One's own connect first *)

WelcomeInv == Unregistered /\ Untold /\ OwnConnectFirst

\* Nothing has been written at the start.
LEMMA WelcomeInit == Init => WelcomeInv
BY DEF Init, WelcomeInv, Unregistered, Untold, OwnConnectFirst

\* A handler or a writer that is past the connect may write what it likes.
LEMMA LaterWrite ==
    ASSUME TypeOK, TypeOK', Untold, OwnConnectFirst, NEW c \in Conns, NEW m \in Frame, Write(c, m),
           hpc[c] \notin {"start", "connect"},
           hpc'[c] \notin {"start", "connect"}, \A d \in Conns : d # c => hpc'[d] = hpc[d]
    PROVE  Untold' /\ OwnConnectFirst'
<1>1. /\ wire' \in [Conns -> Seq(Frame)] /\ gone' = gone
      /\ \A d \in Conns : d # c => wire'[d] = wire[d]
      /\ Dead(c) => wire' = wire
      /\ ~Dead(c) => wire'[c] = Append(wire[c], m)
  BY WriteType
<1>2. CASE Dead(c)
  BY <1>1, <1>2 DEF Untold, OwnConnectFirst
<1>3. CASE ~Dead(c)
  <2>1. wire[c] # <<>> /\ wire[c] \in Seq(Frame) /\ wire[c][1] = Connected(c)
    BY <1>3 DEF Untold, OwnConnectFirst, Dead, TypeOK
  <2>2. wire'[c] # <<>> /\ wire'[c][1] = wire[c][1]
    BY <1>1, <1>3, <2>1
  <2> QED BY <1>1, <2>1, <2>2 DEF Untold, OwnConnectFirst
<1> QED BY <1>2, <1>3

\* No step of a goroutine puts a frame before the own connect of its user.
LEMMA WelcomeStep ==
    TypeOK /\ ChatsReceived /\ WelcomeInv /\ [Next]_vars => WelcomeInv'
<1> SUFFICES ASSUME TypeOK, ChatsReceived, WelcomeInv, [Next]_vars PROVE WelcomeInv'
  OBVIOUS
<1>0. TypeOK'
  BY TypeStep
<1> USE DEF hvars, jvars, cvars, svars, Goto, JGoto, WelcomeInv
<1>1. ASSUME NEW c \in Conns, Accept(c) PROVE WelcomeInv'
  <2>1. Unregistered'
    BY <1>1, JobTypes DEF Accept, EnterRange, Unregistered, TypeOK
  <2> QED BY <1>1, <2>1 DEF Accept, Untold, OwnConnectFirst, TypeOK
<1>2. ASSUME NEW c \in Conns, WriteConnect(c) PROVE WelcomeInv'
  <2>1. Unregistered'
    BY <1>2 DEF WriteConnect, Unregistered, TypeOK
  <2>2. wire[c] = <<>> /\ wire[c] \in Seq(Frame) /\ Connected(c) \in Frame
    BY <1>2, FrameTypes DEF WriteConnect, Untold, TypeOK
  <2>3. /\ hpc'[c] = "store" /\ hpc[c] = "connect"
        /\ \A d \in Conns : d # c => hpc'[d] = hpc[d]
    BY <1>2 DEF WriteConnect, TypeOK
  <2>4. Write(c, Connected(c))
    BY <1>2 DEF WriteConnect
  <2>5. /\ gone' = gone
        /\ \A d \in Conns : d # c => wire'[d] = wire[d]
        /\ Dead(c) => wire' = wire
        /\ ~Dead(c) => wire'[c] = Append(wire[c], Connected(c))
    BY <2>2, <2>4, WriteType
  <2>6. CASE Dead(c)
    <3>1. gone[c]
      BY <2>3, <2>6 DEF Dead
    <3> QED BY <2>1, <2>2, <2>3, <2>5, <2>6, <3>1 DEF Untold, OwnConnectFirst
  <2>7. CASE ~Dead(c)
    <3>1. Connected(c) \in Frame /\ wire'[c] = Append(<<>>, Connected(c))
      BY <2>2, <2>5, <2>7
    <3>2. wire'[c] # <<>> /\ wire'[c][1] = Connected(c)
      BY <3>1
    <3>3. Untold'
      BY <2>3, <2>5, <3>2 DEF Untold
    <3>4. OwnConnectFirst'
      BY <2>5, <3>2 DEF OwnConnectFirst, Connected, NewSystemMessage
    <3> QED BY <2>1, <3>3, <3>4
  <2> QED BY <2>6, <2>7
<1>3. ASSUME NEW c \in Conns, Store(c) PROVE WelcomeInv'
  BY <1>3 DEF Store, Unregistered, Untold, OwnConnectFirst, TypeOK
<1>4. ASSUME NEW c \in Conns, ReceiveChat(c) PROVE WelcomeInv'
  BY <1>4 DEF ReceiveChat, Spawn, Unregistered, Untold, OwnConnectFirst, TypeOK
<1>5. ASSUME NEW c \in Conns, ReceiveBadType(c) \/ ReceiveEnd(c) \/ Defer(c) PROVE WelcomeInv'
  <2>1. /\ UNCHANGED <<todo, at, wpc, clients, wire, gone>>
        /\ hpc[c] \in {"loop", "defer"} /\ hpc'[c] \in {"error", "defer", "swap"}
        /\ \A d \in Conns : d # c => hpc'[d] = hpc[d]
    BY <1>5 DEF ReceiveBadType, ReceiveEnd, Defer, Spawn, TypeOK
  <2> QED BY <2>1 DEF Unregistered, Untold, OwnConnectFirst
<1>6. ASSUME NEW c \in Conns, SendError(c) PROVE WelcomeInv'
  <2>1. Unregistered'
    BY <1>6 DEF SendError, Unregistered, TypeOK
  <2>2. ErrorTo(c) \in Frame /\ Write(c, ErrorTo(c)) /\ hpc[c] = "error" /\ hpc'[c] = "defer"
        /\ \A d \in Conns : d # c => hpc'[d] = hpc[d]
    BY <1>6, FrameTypes DEF SendError, TypeOK
  <2> QED BY <1>0, <2>1, <2>2, LaterWrite
<1>7. ASSUME NEW c \in Conns, CloseSwap(c) \/ CloseDelete(c) \/ WsClose(c) PROVE WelcomeInv'
  <2>1. /\ UNCHANGED <<todo, at, wpc, wire, gone>> /\ clients' \subseteq clients
        /\ hpc[c] \in {"swap", "close", "wsclose"} /\ hpc'[c] \in {"close", "wsclose", "done"}
        /\ \A d \in Conns : d # c => hpc'[d] = hpc[d]
    BY <1>7 DEF CloseSwap, CloseDelete, WsClose, TypeOK
  <2> QED BY <2>1 DEF Unregistered, Untold, OwnConnectFirst
<1>8. ASSUME NEW c \in Conns, WriterWrite(c) PROVE WelcomeInv'
  <2>1. Unregistered'
    BY <1>8 DEF WriterWrite, Unregistered
  <2>2. hpc[c] \notin {"start", "connect"} /\ hpc' = hpc
    BY <1>8 DEF WriterWrite, Unregistered
  <2>3. Head(buf[c]) \in Frame /\ Write(c, Head(buf[c]))
    BY <1>8 DEF WriterWrite, TypeOK
  <2> QED BY <1>0, <2>1, <2>2, <2>3, LaterWrite
<1>9. ASSUME NEW c \in Conns, WriterEnd(c) PROVE WelcomeInv'
  BY <1>9 DEF WriterEnd, Unregistered, Untold, OwnConnectFirst, TypeOK
<1>10. ASSUME NEW c \in Conns, PeerReads(c) \/ PeerVanishes(c) PROVE WelcomeInv'
  <2>1. /\ UNCHANGED <<hpc, wpc, todo, at, clients, wire>>
        /\ \A d \in Conns : gone[d] => gone'[d]
    BY <1>10 DEF PeerReads, PeerVanishes, TypeOK
  <2> QED BY <2>1 DEF Unregistered, Untold, OwnConnectFirst
<1>11. ASSUME NEW j \in Jobs, JobStep(j) PROVE WelcomeInv'
  <2>1. UNCHANGED <<hpc, wpc, clients, wire, gone>>
    BY <1>11 DEF JobStep, BeginRange, EndRange, Visit, SendRLock, SendSkip, SendChan
  <2>2. \A i \in Jobs : /\ todo'[i] \subseteq todo[i] \cup clients
                        /\ at'[i] \subseteq at[i] \cup clients
    <3>1. CASE BeginRange(j) \/ EndRange(j)
      BY <3>1 DEF BeginRange, EnterRange, EndRange, TypeOK
    <3>2. ASSUME NEW d \in Conns, Visit(j, d) \/ SendRLock(j, d) \/ SendSkip(j, d) \/ SendChan(j, d)
          PROVE  \A i \in Jobs : /\ todo'[i] \subseteq todo[i] \cup clients
                                 /\ at'[i] \subseteq at[i] \cup clients
      <4>1. CASE Visit(j, d)
        BY <4>1 DEF Visit, TypeOK
      <4>2. CASE SendRLock(j, d)
        BY <4>2 DEF SendRLock
      <4>3. CASE SendSkip(j, d)
        BY <4>3 DEF SendSkip, TypeOK
      <4>4. CASE SendChan(j, d)
        BY <4>4 DEF SendChan, TypeOK
      <4> QED BY <3>2, <4>1, <4>2, <4>3, <4>4
    <3> QED BY <1>11, <3>1, <3>2 DEF JobStep
  <2> QED BY <2>1, <2>2 DEF Unregistered, Untold, OwnConnectFirst
<1>12. CASE UNCHANGED vars
  BY <1>12 DEF vars, Unregistered, Untold, OwnConnectFirst
<1> QED BY <1>1, <1>2, <1>3, <1>4, <1>5, <1>6, <1>7, <1>8, <1>9, <1>10, <1>11, <1>12
        DEF Next, HandlerStep, UserStep, WriterStep

-----------------------------------------------------------------------------
(* Sessions *)

\* What it means to append a frame to a stream.
LEMMA AppendStream ==
    \A s \in Seq(Frame), p \in Frame :
        /\ Append(s, p) \in Seq(Frame)
        /\ \A x : Heard(Append(s, p), x) <=> Heard(s, x) \/ x = p
        /\ \A x : Once(s, x) /\ (x = p => ~Heard(s, x)) => Once(Append(s, p), x)
        /\ \A x, y : NotAfter(s, x, y) /\ x # y /\ (x = p => ~Heard(s, y))
                     => NotAfter(Append(s, p), x, y)
<1> SUFFICES ASSUME NEW s \in Seq(Frame), NEW p \in Frame
             PROVE  /\ Append(s, p) \in Seq(Frame)
                    /\ \A x : Heard(Append(s, p), x) <=> Heard(s, x) \/ x = p
                    /\ \A x : Once(s, x) /\ (x = p => ~Heard(s, x)) => Once(Append(s, p), x)
                    /\ \A x, y : NotAfter(s, x, y) /\ x # y /\ (x = p => ~Heard(s, y))
                                 => NotAfter(Append(s, p), x, y)
  OBVIOUS
<1> DEFINE t == Append(s, p)
<1>1. /\ t \in Seq(Frame) /\ Len(s) \in Nat /\ DOMAIN s = 1..Len(s)
      /\ DOMAIN t = 1..(Len(s) + 1) /\ t[Len(s) + 1] = p
      /\ \A i \in 1..Len(s) : t[i] = s[i]
  OBVIOUS
<1> HIDE DEF t
<1>2. \A i \in DOMAIN t : (i \in DOMAIN s /\ t[i] = s[i]) \/ (i = Len(s) + 1 /\ t[i] = p)
  BY <1>1
<1>3. \A i \in DOMAIN s : i \in DOMAIN t /\ t[i] = s[i] /\ i < Len(s) + 1
  BY <1>1
<1>4. \A x : Heard(t, x) <=> Heard(s, x) \/ x = p
  BY <1>1, <1>2, <1>3 DEF Heard
<1>5. \A x : Once(s, x) /\ (x = p => ~Heard(s, x)) => Once(t, x)
  BY <1>2 DEF Once, Heard
<1>6. \A x, y : NotAfter(s, x, y) /\ x # y /\ (x = p => ~Heard(s, y)) => NotAfter(t, x, y)
  BY <1>2, <1>3 DEF NotAfter, Heard
<1> QED BY <1>1, <1>4, <1>5, <1>6 DEF t

\* What it means to take the first frame off a stream.
LEMMA TailStream ==
    \A s \in Seq(Frame) : s # <<>> =>
        /\ Tail(s) \in Seq(Frame) /\ Head(s) \in Frame /\ Heard(s, Head(s))
        /\ \A x : Heard(Tail(s), x) => Heard(s, x)
        /\ \A x : Once(s, x) => Once(Tail(s), x) /\ ~(x = Head(s) /\ Heard(Tail(s), x))
        /\ \A x, y : NotAfter(s, x, y)
                     => NotAfter(Tail(s), x, y) /\ ~(y = Head(s) /\ Heard(Tail(s), x))
<1> SUFFICES ASSUME NEW s \in Seq(Frame), s # <<>>
             PROVE  /\ Tail(s) \in Seq(Frame) /\ Head(s) \in Frame /\ Heard(s, Head(s))
                    /\ \A x : Heard(Tail(s), x) => Heard(s, x)
                    /\ \A x : Once(s, x)
                              => Once(Tail(s), x) /\ ~(x = Head(s) /\ Heard(Tail(s), x))
                    /\ \A x, y : NotAfter(s, x, y)
                              => NotAfter(Tail(s), x, y) /\ ~(y = Head(s) /\ Heard(Tail(s), x))
  OBVIOUS
<1> DEFINE t == Tail(s) h == Head(s)
<1>1. /\ t \in Seq(Frame) /\ h \in Frame /\ h = s[1] /\ 1 \in DOMAIN s
      /\ DOMAIN t \subseteq Nat /\ DOMAIN s \subseteq Nat
      /\ \A i \in DOMAIN t : i >= 1 /\ i + 1 \in DOMAIN s /\ t[i] = s[i + 1]
  OBVIOUS
<1> HIDE DEF t, h
<1>2. Heard(s, h)
  BY <1>1 DEF Heard
<1>3. \A x : Heard(t, x) => Heard(s, x)
  BY <1>1 DEF Heard
<1>4. \A x : Once(s, x) => Once(t, x) /\ ~(x = h /\ Heard(t, x))
  BY <1>1 DEF Once, Heard
<1>5. \A x, y : NotAfter(s, x, y) => NotAfter(t, x, y) /\ ~(y = h /\ Heard(t, x))
  BY <1>1 DEF NotAfter, Heard
<1> QED BY <1>1, <1>2, <1>3, <1>4, <1>5 DEF t, h

\* A frame that the writer takes from the Channel, and that goes to the socket or nowhere.
LEMMA Drained ==
    \A w, b \in Seq(Frame) : b # <<>> =>
        /\ \A x : Clean(w, b, x)
                  => Clean(Append(w, Head(b)), Tail(b), x) /\ Clean(w, Tail(b), x)
        /\ \A x, y : Ordered(w, b, x, y) /\ x # y
                     => /\ Ordered(Append(w, Head(b)), Tail(b), x, y)
                        /\ Ordered(w, Tail(b), x, y)
<1> SUFFICES ASSUME NEW w \in Seq(Frame), NEW b \in Seq(Frame), b # <<>>
             PROVE  /\ \A x : Clean(w, b, x)
                              => /\ Clean(Append(w, Head(b)), Tail(b), x)
                                 /\ Clean(w, Tail(b), x)
                    /\ \A x, y : Ordered(w, b, x, y) /\ x # y
                              => /\ Ordered(Append(w, Head(b)), Tail(b), x, y)
                                 /\ Ordered(w, Tail(b), x, y)
  OBVIOUS
<1>1. /\ Head(b) \in Frame /\ Heard(b, Head(b))
      /\ \A x : Heard(Tail(b), x) => Heard(b, x)
      /\ \A x : Once(b, x) => Once(Tail(b), x) /\ ~(x = Head(b) /\ Heard(Tail(b), x))
      /\ \A x, y : NotAfter(b, x, y)
                   => NotAfter(Tail(b), x, y) /\ ~(y = Head(b) /\ Heard(Tail(b), x))
  BY TailStream
<1>2. /\ \A x : Heard(Append(w, Head(b)), x) <=> Heard(w, x) \/ x = Head(b)
      /\ \A x : Once(w, x) /\ (x = Head(b) => ~Heard(w, x)) => Once(Append(w, Head(b)), x)
      /\ \A x, y : NotAfter(w, x, y) /\ x # y /\ (x = Head(b) => ~Heard(w, y))
                   => NotAfter(Append(w, Head(b)), x, y)
  BY <1>1, AppendStream
<1>3. \A x : Clean(w, b, x) => Clean(Append(w, Head(b)), Tail(b), x) /\ Clean(w, Tail(b), x)
  BY <1>1, <1>2, Zenon DEF Clean
<1>4. \A x, y : Ordered(w, b, x, y) /\ x # y
               => Ordered(Append(w, Head(b)), Tail(b), x, y) /\ Ordered(w, Tail(b), x, y)
  BY <1>1, <1>2, Zenon DEF Ordered
<1> QED BY <1>3, <1>4

\* A frame that a broadcast puts into the Channel.
LEMMA Buffered ==
    \A w, b \in Seq(Frame), p \in Frame :
        /\ \A x : Clean(w, b, x) /\ (x = p => ~Heard(w, x) /\ ~Heard(b, x))
                  => Clean(w, Append(b, p), x)
        /\ \A x, y : Ordered(w, b, x, y) /\ x # y /\ (x = p => ~Heard(w, y) /\ ~Heard(b, y))
                     => Ordered(w, Append(b, p), x, y)
<1> SUFFICES ASSUME NEW w \in Seq(Frame), NEW b \in Seq(Frame), NEW p \in Frame
             PROVE  /\ \A x : Clean(w, b, x) /\ (x = p => ~Heard(w, x) /\ ~Heard(b, x))
                              => Clean(w, Append(b, p), x)
                    /\ \A x, y : Ordered(w, b, x, y) /\ x # y
                                    /\ (x = p => ~Heard(w, y) /\ ~Heard(b, y))
                              => Ordered(w, Append(b, p), x, y)
  OBVIOUS
<1>1. /\ \A x : Heard(Append(b, p), x) <=> Heard(b, x) \/ x = p
      /\ \A x : Once(b, x) /\ (x = p => ~Heard(b, x)) => Once(Append(b, p), x)
      /\ \A x, y : NotAfter(b, x, y) /\ x # y /\ (x = p => ~Heard(b, y))
                   => NotAfter(Append(b, p), x, y)
  BY AppendStream
<1>2. \A x : Clean(w, b, x) /\ (x = p => ~Heard(w, x) /\ ~Heard(b, x))
            => Clean(w, Append(b, p), x)
  BY <1>1, Zenon DEF Clean
<1>3. \A x, y : Ordered(w, b, x, y) /\ x # y /\ (x = p => ~Heard(w, y) /\ ~Heard(b, y))
               => Ordered(w, Append(b, p), x, y)
  BY <1>1, Zenon DEF Ordered
<1> QED BY <1>2, <1>3

\* A frame that the handler writes to the socket.
LEMMA Written ==
    \A w, b \in Seq(Frame), p \in Frame :
        /\ \A x : Clean(w, b, x) /\ (x = p => ~Heard(w, x) /\ ~Heard(b, x))
                  => Clean(Append(w, p), b, x)
        /\ \A x, y : Ordered(w, b, x, y) /\ x # y /\ (x = p => ~Heard(w, y))
                        /\ (y = p => ~Heard(b, x))
                     => Ordered(Append(w, p), b, x, y)
<1> SUFFICES ASSUME NEW w \in Seq(Frame), NEW b \in Seq(Frame), NEW p \in Frame
             PROVE  /\ \A x : Clean(w, b, x) /\ (x = p => ~Heard(w, x) /\ ~Heard(b, x))
                              => Clean(Append(w, p), b, x)
                    /\ \A x, y : Ordered(w, b, x, y) /\ x # y /\ (x = p => ~Heard(w, y))
                                    /\ (y = p => ~Heard(b, x))
                              => Ordered(Append(w, p), b, x, y)
  OBVIOUS
<1>1. /\ \A x : Heard(Append(w, p), x) <=> Heard(w, x) \/ x = p
      /\ \A x : Once(w, x) /\ (x = p => ~Heard(w, x)) => Once(Append(w, p), x)
      /\ \A x, y : NotAfter(w, x, y) /\ x # y /\ (x = p => ~Heard(w, y))
                   => NotAfter(Append(w, p), x, y)
  BY AppendStream
<1>2. \A x : Clean(w, b, x) /\ (x = p => ~Heard(w, x) /\ ~Heard(b, x))
            => Clean(Append(w, p), b, x)
  BY <1>1, Zenon DEF Clean
<1>3. \A x, y : Ordered(w, b, x, y) /\ x # y /\ (x = p => ~Heard(w, y)) /\ (y = p => ~Heard(b, x))
               => Ordered(Append(w, p), b, x, y)
  BY <1>1, Zenon DEF Ordered
<1> QED BY <1>2, <1>3

\* What a broadcast does to itself and to no other.
LEMMA JobMoves ==
    ASSUME TypeOK, NEW j \in Jobs, JobStep(j)
    PROVE  /\ UNCHANGED <<hpc, text, wire>>
           /\ jpc[j] \notin {"idle", "done"} /\ jpc'[j] \notin {"idle", "ready"}
           /\ \A i \in Jobs : i # j => jpc'[i] = jpc[i] /\ todo'[i] = todo[i] /\ at'[i] = at[i]
<1> USE DEF hvars, jvars, cvars, svars, JGoto, TypeOK
<1>1. CASE BeginRange(j)
  BY <1>1 DEF BeginRange, EnterRange
<1>2. CASE EndRange(j)
  BY <1>2 DEF EndRange
<1>3. ASSUME NEW d \in Conns, Visit(j, d)
      PROVE  /\ UNCHANGED <<hpc, text, wire>>
             /\ jpc[j] \notin {"idle", "done"} /\ jpc'[j] \notin {"idle", "ready"}
             /\ \A i \in Jobs : i # j => jpc'[i] = jpc[i] /\ todo'[i] = todo[i] /\ at'[i] = at[i]
  BY <1>3 DEF Visit
<1>4. ASSUME NEW d \in Conns, SendRLock(j, d)
      PROVE  /\ UNCHANGED <<hpc, text, wire>>
             /\ jpc[j] \notin {"idle", "done"} /\ jpc'[j] \notin {"idle", "ready"}
             /\ \A i \in Jobs : i # j => jpc'[i] = jpc[i] /\ todo'[i] = todo[i] /\ at'[i] = at[i]
  BY <1>4 DEF SendRLock
<1>5. ASSUME NEW d \in Conns, SendSkip(j, d)
      PROVE  /\ UNCHANGED <<hpc, text, wire>>
             /\ jpc[j] \notin {"idle", "done"} /\ jpc'[j] \notin {"idle", "ready"}
             /\ \A i \in Jobs : i # j => jpc'[i] = jpc[i] /\ todo'[i] = todo[i] /\ at'[i] = at[i]
  BY <1>5 DEF SendSkip
<1>6. ASSUME NEW d \in Conns, SendChan(j, d)
      PROVE  /\ UNCHANGED <<hpc, text, wire>>
             /\ jpc[j] \notin {"idle", "done"} /\ jpc'[j] \notin {"idle", "ready"}
             /\ \A i \in Jobs : i # j => jpc'[i] = jpc[i] /\ todo'[i] = todo[i] /\ at'[i] = at[i]
  BY <1>6 DEF SendChan
<1> QED BY <1>1, <1>2, <1>3, <1>4, <1>5, <1>6 DEF JobStep

\* A broadcast is spawned or begun by a handler only when it is idle; its other steps are
\* its own.
LEMMA Launched ==
    ASSUME TypeOK, ChatsReceived, Announced, NEW e \in Conns,
           HandlerStep(e) \/ UserStep(e) \/ WriterStep(e) \/ PeerReads(e)
    PROVE  \A j \in Jobs : jpc[j] # "idle" =>
              jpc'[j] = jpc[j] /\ todo'[j] = todo[j] /\ at'[j] = at[j]
<1> USE DEF hvars, jvars, cvars, svars, Goto, TypeOK
<1>1. ASSUME NEW c \in Conns, Accept(c)
      PROVE  \A j \in Jobs : jpc[j] # "idle" =>
                jpc'[j] = jpc[j] /\ todo'[j] = todo[j] /\ at'[j] = at[j]
  <2>1. jpc[Connected(c)] = "idle" /\ Connected(c) \in Jobs
    BY <1>1, JobTypes DEF Accept, Announced
  <2> QED BY <1>1, <2>1 DEF Accept, EnterRange
<1>2. ASSUME NEW c \in Conns, ReceiveChat(c)
      PROVE  \A j \in Jobs : jpc[j] # "idle" =>
                jpc'[j] = jpc[j] /\ todo'[j] = todo[j] /\ at'[j] = at[j]
  <2> DEFINE k == Len(text[c]) + 1
  <2>1. Len(text[c]) \in Nat /\ Len(text[c]) < MaxChats
    BY <1>2 DEF ReceiveChat
  <2>2. k \in Ordinals
    BY <2>1, GoAssumption DEF Ordinals
  <2>3. Chat(c, k) \in Jobs /\ Chat(c, k).n = k /\ Chat(c, k).user = c
    BY <2>2, JobTypes
  <2>4. Chat(c, k).action = "chat"
    BY DEF Chat, NewChatMessage
  <2>5. jpc[Chat(c, k)] = "idle"
    BY <2>1, <2>3, <2>4 DEF ChatsReceived
  <2> QED BY <1>2, <2>5 DEF ReceiveChat, Spawn
<1>3. ASSUME NEW c \in Conns, Defer(c)
      PROVE  \A j \in Jobs : jpc[j] # "idle" =>
                jpc'[j] = jpc[j] /\ todo'[j] = todo[j] /\ at'[j] = at[j]
  <2>1. jpc[Disconnected(c)] = "idle" /\ Disconnected(c) \in Jobs
    BY <1>3, JobTypes DEF Defer, Announced
  <2> QED BY <1>3, <2>1 DEF Defer, Spawn
<1>4. CASE UNCHANGED jvars
  BY <1>4
<1>5. ASSUME NEW c \in Conns,
             \/ WriteConnect(c) \/ Store(c) \/ SendError(c) \/ CloseSwap(c) \/ CloseDelete(c)
             \/ WsClose(c) \/ ReceiveBadType(c) \/ ReceiveEnd(c) \/ PeerVanishes(c)
             \/ WriterStep(c) \/ PeerReads(c)
      PROVE  UNCHANGED jvars
  BY <1>5 DEF WriteConnect, Store, SendError, CloseSwap, CloseDelete, WsClose, ReceiveBadType,
              ReceiveEnd, PeerVanishes, WriterStep, WriterWrite, WriterEnd, PeerReads
<1> QED BY <1>1, <1>2, <1>3, <1>4, <1>5 DEF HandlerStep, UserStep

\* No step of a goroutine brings a handler and its broadcasts apart.
LEMMA AnnouncedStep ==
    TypeOK /\ ChatsReceived /\ Unregistered /\ Announced /\ [Next]_vars => Announced'
<1> SUFFICES ASSUME TypeOK, ChatsReceived, Unregistered, Announced, [Next]_vars PROVE Announced'
  OBVIOUS
<1> USE DEF hvars, jvars, cvars, svars, Goto, JGoto, TypeOK
<1>1. ASSUME NEW c \in Conns, Accept(c) PROVE Announced'
  <2>1. /\ hpc[c] = "start" /\ hpc' = [hpc EXCEPT ![c] = "connect"]
        /\ jpc' = [jpc EXCEPT ![Connected(c)] = "range"] /\ UNCHANGED <<text, buf>>
    BY <1>1 DEF Accept, EnterRange
  <2>2. \A d \in Conns : Connected(d) = Connected(c) => d = c
    BY DEF Connected, NewSystemMessage
  <2>3. \A d \in Conns : Disconnected(d) # Connected(c)
    BY DEF Connected, Disconnected, NewSystemMessage
  <2> QED BY <2>1, <2>2, <2>3, JobTypes DEF Announced
<1>2. ASSUME NEW c \in Conns, WriteConnect(c) \/ Store(c) PROVE Announced'
  <2>1. CASE WriteConnect(c)
    BY <2>1 DEF WriteConnect, Announced
  <2>2. CASE Store(c)
    BY <2>2 DEF Store, Announced
  <2> QED BY <1>2, <2>1, <2>2
<1>3. ASSUME NEW c \in Conns, ReceiveChat(c) PROVE Announced'
  <2>1. /\ hpc[c] = "loop" /\ hpc' = hpc /\ UNCHANGED buf
        /\ \A d \in Conns : d # c => text'[d] = text[d]
    BY <1>3 DEF ReceiveChat
  <2>2. \A d \in Conns : Connected(d) # Chat(c, Len(text[c]) + 1)
                         /\ Disconnected(d) # Chat(c, Len(text[c]) + 1)
    BY DEF Connected, Disconnected, NewSystemMessage, Chat, NewChatMessage
  <2>3. \A d \in Conns : jpc'[Connected(d)] = jpc[Connected(d)]
                         /\ jpc'[Disconnected(d)] = jpc[Disconnected(d)]
    BY <1>3, <2>2, JobTypes DEF ReceiveChat, Spawn
  <2>4. \A d \in Conns : hpc[d] \in {"start", "connect", "store"} => text'[d] = text[d]
    BY <2>1
  <2> SUFFICES ASSUME NEW d \in Conns
               PROVE  /\ hpc[d] = "start" => jpc'[Connected(d)] = "idle"
                      /\ hpc[d] \notin {"start", "connect"} => jpc'[Connected(d)] = "done"
                      /\ hpc[d] \in {"start", "connect", "store", "loop", "error", "defer"} =>
                            jpc'[Disconnected(d)] = "idle"
                      /\ hpc[d] \in {"start", "connect", "store"} =>
                            text'[d] = <<>> /\ buf[d] = <<>>
    BY <2>1, Zenon DEF Announced
  <2> QED BY <2>3, <2>4 DEF Announced
<1>4. ASSUME NEW c \in Conns, Defer(c) PROVE Announced'
  <2>1. /\ hpc[c] = "defer" /\ hpc' = [hpc EXCEPT ![c] = "swap"]
        /\ jpc' = [jpc EXCEPT ![Disconnected(c)] = "ready"] /\ UNCHANGED <<text, buf>>
    BY <1>4 DEF Defer, Spawn
  <2>2. \A d \in Conns : Disconnected(d) = Disconnected(c) => d = c
    BY DEF Disconnected, NewSystemMessage
  <2>3. \A d \in Conns : Connected(d) # Disconnected(c)
    BY DEF Connected, Disconnected, NewSystemMessage
  <2> QED BY <2>1, <2>2, <2>3, JobTypes DEF Announced
<1>5. ASSUME NEW c \in Conns,
             \/ SendError(c) \/ CloseSwap(c) \/ CloseDelete(c) \/ WsClose(c)
             \/ ReceiveBadType(c) \/ ReceiveEnd(c)
      PROVE  Announced'
  <2>1. /\ UNCHANGED <<jpc, text, buf>>
        /\ \A d \in Conns : d # c => hpc'[d] = hpc[d]
    BY <1>5 DEF SendError, CloseSwap, CloseDelete, WsClose, ReceiveBadType, ReceiveEnd
  <2>2. \/ hpc[c] \in {"loop", "error"} /\ hpc'[c] \in {"error", "defer"}
        \/ hpc[c] \in {"swap", "close", "wsclose"} /\ hpc'[c] \in {"close", "wsclose", "done"}
    BY <1>5 DEF SendError, CloseSwap, CloseDelete, WsClose, ReceiveBadType, ReceiveEnd
  <2> QED BY <2>1, <2>2 DEF Announced
<1>6. ASSUME NEW c \in Conns, PeerVanishes(c) \/ PeerReads(c) \/ WriterEnd(c) PROVE Announced'
  <2>1. UNCHANGED <<hpc, jpc, text, buf>>
    BY <1>6 DEF PeerVanishes, PeerReads, WriterEnd
  <2> QED BY <2>1 DEF Announced
<1>7. ASSUME NEW c \in Conns, WriterWrite(c) PROVE Announced'
  <2>1. /\ UNCHANGED <<hpc, jpc, text>> /\ hpc[c] \notin {"start", "connect", "store"}
        /\ \A d \in Conns : d # c => buf'[d] = buf[d]
    BY <1>7 DEF WriterWrite, Unregistered
  <2> QED BY <2>1 DEF Announced
<1>8. ASSUME NEW j \in Jobs, JobStep(j) PROVE Announced'
  <2>1. /\ UNCHANGED <<hpc, text>> /\ jpc[j] \notin {"idle", "done"}
        /\ \A i \in Jobs : i # j => jpc'[i] = jpc[i]
    BY <1>8, JobMoves
  <2>2. \A d \in Conns : hpc[d] \in {"start", "connect", "store"} => buf'[d] = buf[d]
    <3>1. CASE UNCHANGED buf
      BY <3>1
    <3>2. ASSUME NEW d \in Conns, SendChan(j, d)
          PROVE  \A e \in Conns : hpc[e] \in {"start", "connect", "store"} => buf'[e] = buf[e]
      <4>1. hpc[d] \notin {"start", "connect", "store"}
        BY <3>2 DEF SendChan, Unregistered
      <4> QED BY <3>2, <4>1 DEF SendChan
    <3>3. (\A d \in Conns : ~SendChan(j, d)) => UNCHANGED buf
      BY <1>8 DEF JobStep, BeginRange, EndRange, Visit, SendRLock, SendSkip
    <3> QED BY <3>1, <3>2, <3>3
  <2>3. \A d \in Conns : /\ jpc[Connected(d)] \in {"idle", "done"} =>
                              jpc'[Connected(d)] = jpc[Connected(d)]
                         /\ jpc[Disconnected(d)] = "idle" => jpc'[Disconnected(d)] = "idle"
    BY <2>1, JobTypes
  <2> QED BY <2>1, <2>2, <2>3 DEF Announced
<1>9. CASE UNCHANGED vars
  BY <1>9 DEF vars, Announced
<1> QED BY <1>1, <1>2, <1>3, <1>4, <1>5, <1>6, <1>7, <1>8, <1>9
        DEF Next, HandlerStep, UserStep, WriterStep

\* No broadcast comes back to a key.
LEMMA OnwardStep ==
    TypeOK /\ ChatsReceived /\ Announced /\ Onward /\ [Next]_vars => Onward'
<1> SUFFICES ASSUME TypeOK, ChatsReceived, Announced, Onward, [Next]_vars PROVE Onward'
  OBVIOUS
<1> USE DEF hvars, jvars, cvars, svars, Goto, JGoto, TypeOK
<1>1. ASSUME NEW c \in Conns, Accept(c) PROVE Onward'
  <2>1. jpc[Connected(c)] = "idle" /\ Connected(c) \in Jobs
    BY <1>1, JobTypes DEF Accept, Announced
  <2>2. at[Connected(c)] = {}
    BY <2>1 DEF Onward
  <2> QED BY <1>1, <2>1, <2>2 DEF Accept, EnterRange, Onward
<1>2. ASSUME NEW c \in Conns, ReceiveChat(c) \/ Defer(c) PROVE Onward'
  <2>1. UNCHANGED <<todo, at>>
    BY <1>2 DEF ReceiveChat, Defer, Spawn
  <2>2. \A j \in Jobs : jpc'[j] \in {"idle", "ready"} => jpc[j] \in {"idle", "ready"}
    <3>1. HandlerStep(c) \/ UserStep(c)
      BY <1>2 DEF HandlerStep, UserStep
    <3>2. \A j \in Jobs : jpc[j] # "idle" => jpc'[j] = jpc[j]
      BY <3>1, Launched
    <3> QED BY <3>2
  <2> QED BY <2>1, <2>2 DEF Onward
<1>3. CASE UNCHANGED jvars
  BY <1>3 DEF Onward
<1>4. ASSUME NEW c \in Conns,
             \/ WriteConnect(c) \/ Store(c) \/ SendError(c) \/ CloseSwap(c) \/ CloseDelete(c)
             \/ WsClose(c) \/ ReceiveBadType(c) \/ ReceiveEnd(c) \/ PeerVanishes(c)
             \/ WriterStep(c) \/ PeerReads(c)
      PROVE  UNCHANGED jvars
  BY <1>4 DEF WriteConnect, Store, SendError, CloseSwap, CloseDelete, WsClose, ReceiveBadType,
              ReceiveEnd, PeerVanishes, WriterStep, WriterWrite, WriterEnd, PeerReads
<1>5. ASSUME NEW j \in Jobs, JobStep(j) PROVE Onward'
  <2>1. at'[j] \cap todo'[j] = {}
    <3>1. CASE BeginRange(j)
      BY <3>1 DEF BeginRange, EnterRange, Onward
    <3>2. CASE EndRange(j)
      BY <3>2 DEF EndRange
    <3>3. ASSUME NEW d \in Conns, Visit(j, d) PROVE at'[j] \cap todo'[j] = {}
      BY <3>3 DEF Visit
    <3>4. ASSUME NEW d \in Conns, SendRLock(j, d) PROVE at'[j] \cap todo'[j] = {}
      BY <3>4 DEF SendRLock, Onward
    <3>5. ASSUME NEW d \in Conns, SendSkip(j, d) \/ SendChan(j, d) PROVE at'[j] \cap todo'[j] = {}
      <4>1. at'[j] = {}
        BY <3>5 DEF SendSkip, SendChan
      <4> QED BY <4>1
    <3> QED BY <1>5, <3>1, <3>2, <3>3, <3>4, <3>5 DEF JobStep
  <2> QED BY <1>5, <2>1, JobMoves DEF Onward
<1>6. CASE UNCHANGED vars
  BY <1>6 DEF vars, Onward
<1> QED BY <1>1, <1>2, <1>3, <1>4, <1>5, <1>6 DEF Next, HandlerStep, UserStep

\* What was said twice stays said twice, and what a broadcast that has begun sends does
\* not change any more.
LEMMA TextKept ==
    ASSUME TypeOK, ChatsReceived, [Next]_vars
    PROVE  /\ \A m \in Frame : Resent(m) => Resent(m)'
           /\ \A j \in Jobs : jpc[j] # "idle" => Payload(j)' = Payload(j)
<1>1. \A c \in Conns : /\ DOMAIN text[c] \subseteq DOMAIN text'[c]
                       /\ \A k \in DOMAIN text[c] : text'[c][k] = text[c][k]
  <2>1. CASE UNCHANGED text
    BY <2>1
  <2>2. ASSUME NEW c \in Conns, ReceiveChat(c)
        PROVE  \A d \in Conns : /\ DOMAIN text[d] \subseteq DOMAIN text'[d]
                                /\ \A k \in DOMAIN text[d] : text'[d][k] = text[d][k]
    <3>1. PICK x : text' = [text EXCEPT ![c] = Append(@, x)]
      BY <2>2 DEF ReceiveChat
    <3>2. text \in [Conns -> Seq({0} \cup Ordinals)]
      BY DEF TypeOK
    <3>3. text'[c] = Append(text[c], x) /\ \A d \in Conns : d # c => text'[d] = text[d]
      BY <3>1, <3>2
    <3>4. /\ Len(text[c]) \in Nat /\ DOMAIN text[c] = 1..Len(text[c])
          /\ DOMAIN Append(text[c], x) = 1..(Len(text[c]) + 1)
          /\ \A k \in 1..Len(text[c]) : Append(text[c], x)[k] = text[c][k]
      BY <3>2
    <3> QED BY <3>3, <3>4
  <2>3. (\A c \in Conns : ~ReceiveChat(c)) => UNCHANGED text
    BY DEF Next, HandlerStep, UserStep, WriterStep, JobStep, Accept, WriteConnect, Store,
           ReceiveBadType, ReceiveEnd, SendError, Defer, CloseSwap, CloseDelete, WsClose,
           WriterWrite, WriterEnd, PeerReads, PeerVanishes, BeginRange, Visit, SendRLock,
           SendSkip, SendChan, EndRange, hvars, vars
  <2> QED BY <2>1, <2>2, <2>3
<1>2. ASSUME NEW m \in Frame, Resent(m) PROVE Resent(m)'
  <2>1. m.user \in Conns
    BY DEF Frame, Message
  <2> QED BY <1>1, <1>2, <2>1 DEF Resent
<1>3. ASSUME NEW j \in Jobs, jpc[j] # "idle" PROVE Payload(j)' = Payload(j)
  <2>1. CASE j.action = "chat"
    <3>1. j.user \in Conns /\ j.n \in Ordinals /\ j.n <= Len(text[j.user])
      BY <1>3, <2>1, JobTypes DEF ChatsReceived
    <3>2. text[j.user] \in Seq({0} \cup Ordinals)
      BY <3>1 DEF TypeOK
    <3>3. j.n \in DOMAIN text[j.user]
      BY <3>1, <3>2 DEF Ordinals
    <3>4. text'[j.user][j.n] = text[j.user][j.n]
      BY <1>1, <3>1, <3>3
    <3> QED BY <2>1, <3>4 DEF Payload
  <2>2. CASE j.action # "chat"
    BY <2>2 DEF Payload
  <2> QED BY <2>1, <2>2
<1> QED BY <1>2, <1>3

\* A handler goes one way.
LEMMA Forward ==
    ASSUME TypeOK, [Next]_vars, NEW d \in Conns
    PROVE  /\ hpc[d] \notin {"start", "connect"} => hpc'[d] \notin {"start", "connect"}
           /\ hpc[d] \notin {"start", "connect", "store", "loop", "error"} =>
                 hpc'[d] \notin {"start", "connect", "store", "loop", "error"}
<1> USE DEF hvars, Goto, TypeOK
<1>1. CASE UNCHANGED hpc
  BY <1>1
<1>2. ASSUME NEW c \in Conns, HandlerStep(c)
      PROVE  /\ hpc[d] \notin {"start", "connect"} => hpc'[d] \notin {"start", "connect"}
             /\ hpc[d] \notin {"start", "connect", "store", "loop", "error"} =>
                   hpc'[d] \notin {"start", "connect", "store", "loop", "error"}
  BY <1>2 DEF HandlerStep, WriteConnect, Store, SendError, Defer, CloseSwap, CloseDelete, WsClose
<1>3. ASSUME NEW c \in Conns, UserStep(c)
      PROVE  /\ hpc[d] \notin {"start", "connect"} => hpc'[d] \notin {"start", "connect"}
             /\ hpc[d] \notin {"start", "connect", "store", "loop", "error"} =>
                   hpc'[d] \notin {"start", "connect", "store", "loop", "error"}
  BY <1>3 DEF UserStep, Accept, ReceiveChat, ReceiveBadType, ReceiveEnd, PeerVanishes
<1>4. ASSUME NEW c \in Conns, WriterStep(c) \/ PeerReads(c) PROVE UNCHANGED hpc
  BY <1>4 DEF WriterStep, WriterWrite, WriterEnd, PeerReads
<1>5. (\E j \in Jobs : JobStep(j)) => UNCHANGED hpc
  BY JobMoves
<1>6. UNCHANGED vars => UNCHANGED hpc
  BY DEF vars
<1> QED BY <1>1, <1>2, <1>3, <1>4, <1>5, <1>6 DEF Next

\* A broadcast that has passed a key does not come back to it.
LEMMA PassedStays ==
    ASSUME TypeOK, ChatsReceived, Announced, [Next]_vars, NEW j \in Jobs, NEW d \in Conns,
           Passed(j, d)
    PROVE  Passed(j, d)'
<1>1. jpc[j] \notin {"idle", "ready"} /\ d \notin todo[j] /\ d \notin at[j]
  BY DEF Passed
<1>2. CASE jpc'[j] = jpc[j] /\ todo'[j] = todo[j] /\ at'[j] = at[j]
  BY <1>1, <1>2 DEF Passed
<1>3. ASSUME NEW c \in Conns, HandlerStep(c) \/ UserStep(c) \/ WriterStep(c) \/ PeerReads(c)
      PROVE  jpc'[j] = jpc[j] /\ todo'[j] = todo[j] /\ at'[j] = at[j]
  <2>1. \A i \in Jobs : jpc[i] # "idle" =>
           jpc'[i] = jpc[i] /\ todo'[i] = todo[i] /\ at'[i] = at[i]
    BY <1>3, Launched
  <2> QED BY <1>1, <2>1
<1>4. ASSUME NEW i \in Jobs, JobStep(i), i # j
      PROVE  jpc'[j] = jpc[j] /\ todo'[j] = todo[j] /\ at'[j] = at[j]
  BY <1>4, JobMoves
<1>5. ASSUME JobStep(j) PROVE Passed(j, d)'
  <2>1. jpc'[j] \notin {"idle", "ready"}
    BY <1>5, JobMoves
  <2>2. d \notin todo'[j] /\ d \notin at'[j]
    <3> USE DEF JGoto, TypeOK
    <3>1. ~BeginRange(j)
      BY <1>1 DEF BeginRange
    <3>2. CASE EndRange(j)
      BY <1>1, <3>2 DEF EndRange
    <3>3. ASSUME NEW e \in Conns, Visit(j, e) PROVE d \notin todo'[j] /\ d \notin at'[j]
      BY <1>1, <3>3 DEF Visit
    <3>4. ASSUME NEW e \in Conns, SendRLock(j, e) PROVE d \notin todo'[j] /\ d \notin at'[j]
      BY <1>1, <3>4 DEF SendRLock
    <3>5. ASSUME NEW e \in Conns, SendSkip(j, e) PROVE d \notin todo'[j] /\ d \notin at'[j]
      BY <1>1, <3>5 DEF SendSkip
    <3>6. ASSUME NEW e \in Conns, SendChan(j, e) PROVE d \notin todo'[j] /\ d \notin at'[j]
      BY <1>1, <3>6 DEF SendChan
    <3> QED BY <1>5, <3>1, <3>2, <3>3, <3>4, <3>5, <3>6 DEF JobStep
  <2> QED BY <2>1, <2>2 DEF Passed
<1>6. UNCHANGED vars => jpc'[j] = jpc[j] /\ todo'[j] = todo[j] /\ at'[j] = at[j]
  BY DEF vars, jvars
<1> QED BY <1>2, <1>3, <1>4, <1>5, <1>6 DEF Next

\* A frame keeps its source.
LEMMA SourceStays ==
    ASSUME TypeOK, ChatsReceived, Announced, [Next]_vars
    PROVE  \A d \in Conns, m \in Frame : Source(d, m) => Source(d, m)'
<1> SUFFICES ASSUME NEW d \in Conns, NEW m \in Frame, Source(d, m) PROVE Source(d, m)'
  OBVIOUS
<1>1. CASE m = ErrorTo(d) /\ hpc[d] \notin {"start", "connect", "store", "loop", "error"}
  BY <1>1, Forward DEF Source
<1>2. CASE m = Connected(d) /\ hpc[d] \notin {"start", "connect"}
  BY <1>2, Forward DEF Source
<1>3. ASSUME NEW j \in Jobs, Passed(j, d), m = Payload(j) PROVE Source(d, m)'
  <2>1. jpc[j] # "idle"
    BY <1>3 DEF Passed
  <2>2. Payload(j)' = m
    BY <1>3, <2>1, TextKept
  <2>3. Passed(j, d)'
    BY <1>3, PassedStays
  <2> QED BY <2>2, <2>3 DEF Source
<1> QED BY <1>1, <1>2, <1>3 DEF Source

\* A broadcast inside Channel.Send of d brings what d has not been sent, or what was said
\* twice; and a connect that nothing of its user went ahead of.
LEMMA NewToUser ==
    ASSUME TypeOK, ChatsReceived, Unregistered, Announced,
           NEW d \in Conns, NEW j \in Jobs, jpc[j] = "send", d \in at[j]
    PROVE  /\ Payload(j) # Connected(d) /\ Payload(j) # ErrorTo(d)
           /\ Source(d, Payload(j)) => Resent(Payload(j))
           /\ \A c \in Conns : Payload(j) = Connected(c) => \A m \in Later(c) : ~Source(d, m)
<1>1. /\ \A i \in Jobs : i.action = "chat" => Payload(i) = Chat(i.user, text[i.user][i.n])
      /\ \A i \in Jobs : i.action # "chat" => Payload(i) = i
  BY DEF Payload
<1>2. \A i \in Jobs : Payload(i).action = i.action
  BY <1>1 DEF Chat, NewChatMessage
<1>3. \A i \in Jobs : i.action \in {"connect", "chat", "disconnect"}
  BY DEF Jobs
<1>4. \A c \in Conns : /\ Connected(c).action = "connect" /\ Disconnected(c).action = "disconnect"
                       /\ ErrorTo(c).action = "error"
                       /\ \A k : Chat(c, k).action = "chat" /\ Chat(c, k).user = c
                                 /\ Chat(c, k).n = k
  BY DEF Connected, Disconnected, ErrorTo, Chat, NewSystemMessage, NewChatMessage
\* Whose connect is being broadcast is not stored, has said nothing and is not leaving.
<1>5. ASSUME NEW c \in Conns, Payload(j) = Connected(c)
      PROVE  j = Connected(c) /\ hpc[c] = "connect"
  <2>1. j = Connected(c)
    BY <1>1, <1>2, <1>4, <1>5
  <2>2. hpc[c] \in {"start", "connect"}
    BY <2>1 DEF Announced
  <2> QED BY <2>1, <2>2 DEF Announced
<1>6. Payload(j) # Connected(d)
  <2>1. hpc[d] # "connect"
    BY DEF Unregistered
  <2> QED BY <1>5, <2>1
<1>7. Payload(j) # ErrorTo(d)
  BY <1>2, <1>3, <1>4
<1>8. ASSUME Source(d, Payload(j)) PROVE Resent(Payload(j))
  <2>1. PICK i \in Jobs : Passed(i, d) /\ Payload(j) = Payload(i)
    BY <1>6, <1>7, <1>8 DEF Source
  <2>2. i # j /\ jpc[i] # "idle" /\ i.action = j.action
    BY <1>2, <2>1 DEF Passed
  <2>3. i.action = "chat"
    BY <1>1, <2>1, <2>2
  <2>4. Chat(i.user, text[i.user][i.n]) = Chat(j.user, text[j.user][j.n])
    BY <1>1, <2>1, <2>2, <2>3
  <2>5. i.user \in Conns /\ j.user \in Conns
    BY JobTypes
  <2>6. i.user = j.user /\ text[i.user][i.n] = text[j.user][j.n]
    BY <1>4, <2>4, <2>5
  <2>7. i.n # j.n
    BY <2>2, <2>6 DEF Jobs
  <2>8. text[j.user] \in Seq({0} \cup Ordinals)
    BY <2>5 DEF TypeOK
  <2>9. /\ i.n \in Ordinals /\ i.n <= Len(text[j.user])
        /\ j.n \in Ordinals /\ j.n <= Len(text[j.user])
    BY <2>2, <2>3, <2>6, JobTypes DEF ChatsReceived
  <2>10. i.n \in DOMAIN text[j.user] /\ j.n \in DOMAIN text[j.user]
    BY <2>8, <2>9 DEF Ordinals
  <2>11. /\ Payload(j).action = "chat" /\ Payload(j).user = j.user
         /\ Payload(j).n = text[j.user][j.n]
    <3>1. Payload(j) = Chat(j.user, text[j.user][j.n])
      BY <1>1, <2>2, <2>3
    <3> QED BY <3>1 DEF Chat, NewChatMessage
  <2> QED BY <2>6, <2>7, <2>10, <2>11 DEF Resent
<1>9. ASSUME NEW c \in Conns, Payload(j) = Connected(c), NEW m \in Later(c), Source(d, m)
      PROVE  FALSE
  <2>1. m = Disconnected(c) \/ \E k \in {0} \cup Ordinals : m = Chat(c, k)
    BY DEF Later
  <2>2. m.action \in {"chat", "disconnect"}
    BY <1>4, <2>1
  <2>3. PICK i \in Jobs : Passed(i, d) /\ m = Payload(i)
    BY <1>4, <1>9, <2>2 DEF Source
  <2>4. hpc[c] = "connect" /\ text[c] = <<>> /\ jpc[Disconnected(c)] = "idle"
    BY <1>5, <1>9 DEF Announced
  <2>5. jpc[i] # "idle"
    BY <2>3 DEF Passed
  <2>6. CASE i.action = "chat"
    <3>1. m.action = "chat"
      BY <1>2, <2>3, <2>6
    <3>2. m.user = c
      BY <1>4, <2>1, <3>1
    <3>3. i.user = c
      BY <1>1, <1>4, <2>3, <2>6, <3>2, JobTypes
    <3>4. i.n <= Len(text[c]) /\ i.n \in Ordinals
      BY <2>5, <2>6, <3>3, JobTypes DEF ChatsReceived
    <3> QED BY <2>4, <3>4 DEF Ordinals
  <2>7. CASE i.action # "chat"
    <3>1. m = i
      BY <1>1, <2>3, <2>7
    <3>2. m = Disconnected(c)
      BY <1>4, <2>1, <2>7, <3>1
    <3> QED BY <2>4, <2>5, <3>1, <3>2
  <2> QED BY <2>6, <2>7
<1> QED BY <1>6, <1>7, <1>8, <1>9

\* What a step does to the socket and the Channel of d.
Stays(d)  == wire'[d] = wire[d] /\ buf'[d] = buf[d]
Drains(d) == /\ buf[d] # <<>> /\ buf'[d] = Tail(buf[d])
             /\ wire'[d] = wire[d] \/ wire'[d] = Append(wire[d], Head(buf[d]))
Sends(d)  == \E j \in Jobs : /\ jpc[j] = "send" /\ d \in at[j] /\ Passed(j, d)'
                             /\ wire'[d] = wire[d] /\ buf'[d] = Append(buf[d], Payload(j))
Greets(d) == /\ hpc[d] = "connect" /\ hpc'[d] = "store"
             /\ wire'[d] = Append(wire[d], Connected(d)) /\ buf'[d] = buf[d]
Errs(d)   == /\ hpc[d] = "error" /\ hpc'[d] = "defer"
             /\ wire'[d] = Append(wire[d], ErrorTo(d)) /\ buf'[d] = buf[d]

\* There is nothing else.
LEMMA Streams ==
    ASSUME TypeOK, Onward, [Next]_vars, NEW d \in Conns
    PROVE  Stays(d) \/ Drains(d) \/ Sends(d) \/ Greets(d) \/ Errs(d)
<1> USE DEF hvars, jvars, cvars, svars, Goto, JGoto
<1>1. CASE UNCHANGED <<wire, buf>>
  BY <1>1 DEF Stays
<1>2. ASSUME NEW c \in Conns, WriteConnect(c)
      PROVE  Stays(d) \/ Greets(d)
  <2>1. Connected(c) \in Frame /\ Write(c, Connected(c)) /\ UNCHANGED buf
    BY <1>2, FrameTypes DEF WriteConnect
  <2>2. hpc[c] = "connect" /\ hpc'[c] = "store"
    BY <1>2 DEF WriteConnect, TypeOK
  <2> QED BY <2>1, <2>2, WriteType DEF Stays, Greets
<1>3. ASSUME NEW c \in Conns, SendError(c)
      PROVE  Stays(d) \/ Errs(d)
  <2>1. ErrorTo(c) \in Frame /\ Write(c, ErrorTo(c)) /\ UNCHANGED buf
    BY <1>3, FrameTypes DEF SendError
  <2>2. hpc[c] = "error" /\ hpc'[c] = "defer"
    BY <1>3 DEF SendError, TypeOK
  <2> QED BY <2>1, <2>2, WriteType DEF Stays, Errs
<1>4. ASSUME NEW c \in Conns, WriterWrite(c)
      PROVE  Stays(d) \/ Drains(d)
  <2>1. buf[c] # <<>> /\ Head(buf[c]) \in Frame /\ Write(c, Head(buf[c]))
    BY <1>4 DEF WriterWrite, TypeOK
  <2>2. buf'[c] = Tail(buf[c]) /\ \A e \in Conns : e # c => buf'[e] = buf[e]
    BY <1>4 DEF WriterWrite, TypeOK
  <2> QED BY <2>1, <2>2, WriteType DEF Stays, Drains
<1>5. ASSUME NEW j \in Jobs, NEW c \in Conns, SendChan(j, c)
      PROVE  Stays(d) \/ Sends(d)
  <2>1. /\ jpc[j] = "send" /\ c \in at[j] /\ jpc'[j] = "range" /\ at'[j] = {}
        /\ todo'[j] = todo[j] /\ UNCHANGED wire
        /\ buf'[c] = Append(buf[c], Payload(j)) /\ \A e \in Conns : e # c => buf'[e] = buf[e]
    BY <1>5 DEF SendChan, TypeOK
  <2>2. Passed(j, c)'
    BY <2>1 DEF Passed, Onward
  <2> QED BY <2>1, <2>2 DEF Stays, Sends
<1>6. ASSUME NEW c \in Conns,
             \/ Accept(c) \/ Store(c) \/ ReceiveChat(c) \/ ReceiveBadType(c) \/ ReceiveEnd(c)
             \/ Defer(c) \/ CloseSwap(c) \/ CloseDelete(c) \/ WsClose(c) \/ PeerVanishes(c)
             \/ WriterEnd(c) \/ PeerReads(c)
      PROVE  UNCHANGED <<wire, buf>>
  BY <1>6 DEF Accept, Store, ReceiveChat, ReceiveBadType, ReceiveEnd, Defer, CloseSwap, CloseDelete,
              WsClose, PeerVanishes, WriterEnd, PeerReads
<1>7. ASSUME NEW j \in Jobs, JobStep(j), \A c \in Conns : ~SendChan(j, c)
      PROVE  UNCHANGED <<wire, buf>>
  BY <1>7 DEF JobStep, BeginRange, EndRange, Visit, SendRLock, SendSkip
<1>8. UNCHANGED vars => UNCHANGED <<wire, buf>>
  BY DEF vars
<1> QED BY <1>1, <1>2, <1>3, <1>4, <1>5, <1>6, <1>7, <1>8
        DEF Next, HandlerStep, UserStep, WriterStep

\* Every frame that is on the way has a source.
LEMMA SourcedStep ==
    TypeOK /\ ChatsReceived /\ Announced /\ Onward /\ Sourced /\ [Next]_vars => Sourced'
<1> SUFFICES ASSUME TypeOK, ChatsReceived, Announced, Onward, Sourced, [Next]_vars,
                    NEW d \in Conns, NEW m \in Frame, Heard(wire'[d], m) \/ Heard(buf'[d], m)
             PROVE  Source(d, m)'
  BY DEF Sourced
<1>1. wire[d] \in Seq(Frame) /\ buf[d] \in Seq(Frame) /\ Connected(d) \in Frame /\ ErrorTo(d) \in Frame
  BY FrameTypes DEF TypeOK
<1>2. CASE Heard(wire[d], m) \/ Heard(buf[d], m)
  BY <1>2, SourceStays DEF Sourced
<1>3. CASE Stays(d)
  BY <1>2, <1>3 DEF Stays
<1>4. CASE Drains(d)
  <2>1. /\ Head(buf[d]) \in Frame /\ Heard(buf[d], Head(buf[d]))
        /\ Heard(buf'[d], m) => Heard(buf[d], m)
    BY <1>1, <1>4, TailStream DEF Drains
  <2>2. Heard(Append(wire[d], Head(buf[d])), m) <=> Heard(wire[d], m) \/ m = Head(buf[d])
    BY <1>1, <2>1, AppendStream
  <2> QED BY <1>2, <1>4, <2>1, <2>2 DEF Drains
<1>5. CASE Sends(d)
  <2>1. PICK j \in Jobs : /\ jpc[j] = "send" /\ Passed(j, d)' /\ wire'[d] = wire[d]
                          /\ buf'[d] = Append(buf[d], Payload(j))
    BY <1>5 DEF Sends
  <2>2. Payload(j) \in Frame /\ Payload(j)' = Payload(j)
    BY <2>1, PayloadType, TextKept
  <2>3. Heard(buf'[d], m) <=> Heard(buf[d], m) \/ m = Payload(j)
    BY <1>1, <2>1, <2>2, AppendStream
  <2>4. ASSUME m = Payload(j) PROVE Source(d, m)'
    BY <2>1, <2>2, <2>4 DEF Source
  <2> QED BY <1>2, <2>1, <2>3, <2>4
<1>6. CASE Greets(d)
  <2>1. Heard(wire'[d], m) <=> Heard(wire[d], m) \/ m = Connected(d)
    BY <1>1, <1>6, AppendStream DEF Greets
  <2> QED BY <1>2, <1>6, <2>1 DEF Greets, Source
<1>7. CASE Errs(d)
  <2>1. Heard(wire'[d], m) <=> Heard(wire[d], m) \/ m = ErrorTo(d)
    BY <1>1, <1>7, AppendStream DEF Errs
  <2> QED BY <1>2, <1>7, <2>1 DEF Errs, Source
<1> QED BY <1>3, <1>4, <1>5, <1>6, <1>7, Streams

\* What follows a connect is a frame of the wire, and no connect.
LEMMA LaterTypes ==
    /\ \A c \in Conns : \A m \in Later(c) :
          m \in Frame /\ m.action \in {"chat", "disconnect"}
    /\ \A c \in Conns : Connected(c).action = "connect" /\ ErrorTo(c).action = "error"
<1>1. \A c \in Conns : Disconnected(c) \in Frame
  BY DEF Disconnected, NewSystemMessage, Frame, Message
<1> QED BY <1>1, FrameTypes
        DEF Later, Connected, Disconnected, ErrorTo, Chat, NewSystemMessage, NewChatMessage

\* No step of a goroutine lets a frame overtake a connect or repeats what was said once.
LEMMA StreamStep ==
    /\ TypeOK /\ ChatsReceived /\ WelcomeInv
    /\ Announced /\ Onward /\ Sourced /\ NoneTwice /\ NoneEarly
    /\ [Next]_vars
    => NoneTwice' /\ NoneEarly'
<1> SUFFICES ASSUME TypeOK, ChatsReceived, WelcomeInv, Announced, Onward, Sourced,
                    NoneTwice, NoneEarly, [Next]_vars, NEW d \in Conns
             PROVE  /\ \A m \in Frame : ~Resent(m)' => Clean(wire'[d], buf'[d], m)
                    /\ \A c \in Conns : \A m \in Later(c) :
                          Ordered(wire'[d], buf'[d], Connected(c), m)
  BY DEF NoneTwice, NoneEarly, Later
<1>1. /\ wire[d] \in Seq(Frame) /\ buf[d] \in Seq(Frame)
      /\ Connected(d) \in Frame /\ ErrorTo(d) \in Frame
  BY FrameTypes DEF TypeOK
<1>2. /\ \A m \in Frame : ~Resent(m)' => ~Resent(m) /\ Clean(wire[d], buf[d], m)
      /\ \A c \in Conns : \A m \in Later(c) :
            /\ Ordered(wire[d], buf[d], Connected(c), m)
            /\ Connected(c) # m /\ m # Connected(d) /\ m # ErrorTo(d) /\ m \in Frame
            /\ Connected(c) # ErrorTo(d)
  BY TextKept, LaterTypes DEF NoneTwice, NoneEarly
<1>3. CASE Stays(d)
  BY <1>2, <1>3 DEF Stays
<1>4. CASE Drains(d)
  <2>1. /\ \A x : Clean(wire[d], buf[d], x)
                  => /\ Clean(Append(wire[d], Head(buf[d])), Tail(buf[d]), x)
                     /\ Clean(wire[d], Tail(buf[d]), x)
        /\ \A x, y : Ordered(wire[d], buf[d], x, y) /\ x # y
                     => /\ Ordered(Append(wire[d], Head(buf[d])), Tail(buf[d]), x, y)
                        /\ Ordered(wire[d], Tail(buf[d]), x, y)
    BY <1>1, <1>4, Drained DEF Drains
  <2> QED BY <1>2, <1>4, <2>1 DEF Drains
<1>5. CASE Sends(d)
  <2>1. PICK j \in Jobs : /\ jpc[j] = "send" /\ d \in at[j] /\ wire'[d] = wire[d]
                          /\ buf'[d] = Append(buf[d], Payload(j))
    BY <1>5 DEF Sends
  <2>2. /\ Payload(j) \in Frame
        /\ Source(d, Payload(j)) => Resent(Payload(j))
        /\ \A c \in Conns : Payload(j) = Connected(c) => \A m \in Later(c) : ~Source(d, m)
    BY <2>1, PayloadType, NewToUser DEF WelcomeInv
  <2>3. \A m \in Frame : Heard(wire[d], m) \/ Heard(buf[d], m) => Source(d, m)
    BY DEF Sourced
  <2>4. /\ \A x : /\ Clean(wire[d], buf[d], x)
                  /\ x = Payload(j) => ~Heard(wire[d], x) /\ ~Heard(buf[d], x)
                  => Clean(wire[d], Append(buf[d], Payload(j)), x)
        /\ \A x, y : /\ Ordered(wire[d], buf[d], x, y) /\ x # y
                     /\ x = Payload(j) => ~Heard(wire[d], y) /\ ~Heard(buf[d], y)
                     => Ordered(wire[d], Append(buf[d], Payload(j)), x, y)
    BY <1>1, <2>2, Buffered
  <2>5. \A m \in Frame : ~Resent(m)' => Clean(wire'[d], buf'[d], m)
    BY <1>2, <2>1, <2>2, <2>3, <2>4
  <2>6. \A c \in Conns : \A m \in Later(c) : Ordered(wire'[d], buf'[d], Connected(c), m)
    BY <1>2, <2>1, <2>2, <2>3, <2>4
  <2> QED BY <2>5, <2>6
<1>6. CASE Greets(d)
  <2>1. wire[d] = <<>> /\ buf[d] = <<>>
    BY <1>6 DEF Greets, WelcomeInv, Untold, Announced
  <2>2. \A m : ~Heard(wire[d], m) /\ ~Heard(buf[d], m)
    BY <2>1 DEF Heard
  <2> QED BY <1>1, <1>2, <1>6, <2>2, Written DEF Greets
<1>7. CASE Errs(d)
  <2>1. ErrorTo(d) # Connected(d) /\ \A j \in Jobs : Payload(j) # ErrorTo(d)
    BY DEF ErrorTo, Connected, NewSystemMessage, Payload, Chat, NewChatMessage, Jobs
  <2>2. ~Source(d, ErrorTo(d))
    BY <1>7, <2>1 DEF Errs, Source
  <2>3. ~Heard(wire[d], ErrorTo(d)) /\ ~Heard(buf[d], ErrorTo(d))
    BY <1>1, <2>2 DEF Sourced
  <2> QED BY <1>1, <1>2, <1>7, <2>3, Written DEF Errs
<1> QED BY <1>3, <1>4, <1>5, <1>6, <1>7, Streams

-----------------------------------------------------------------------------
(* The theorems *)

\* Every state of the Go server is well typed, and no Channel ever holds more than
\* its capacity: what Channel.Send and the writer of handler keep true.
THEOREM TypeCorrect == Spec => [](TypeOK /\ ChatsReceived)
<1>1. TypeOK /\ ChatsReceived /\ [Next]_vars => (TypeOK /\ ChatsReceived)'
  BY TypeStep
<1> QED BY TypeInit, <1>1, PTL DEF Spec

\* Channel.Send never sends on a Go channel that Channel.Close has closed, however
\* broadcasts and departures interleave: the server does not panic.
THEOREM NoPanic == Spec => []NoSendOnClosed
<1>1. SendInv => NoSendOnClosed
  BY DEF SendInv
<1>2. TypeOK /\ ChatsReceived => TypeOK
  OBVIOUS
<1> QED BY TypeCorrect, SendInit, SendStep, <1>1, <1>2, PTL DEF Spec

\* The first frame handler writes to a client is that client's own "connect".
THEOREM Welcome == Spec => []OwnConnectFirst
<1>1. WelcomeInv => OwnConnectFirst
  BY DEF WelcomeInv
<1>2. (TypeOK /\ ChatsReceived) /\ WelcomeInv /\ [Next]_vars => WelcomeInv'
  BY WelcomeStep
<1> QED BY TypeCorrect, WelcomeInit, <1>1, <1>2, PTL DEF Spec

\* Broadcasts are goroutines and may overtake each other, and still a user hears of
\* another's chats and departure only after that other's "connect", and of nothing twice
\* that was not said twice: what the order of Store and broadcastMsg in handler brings
\* about.
THEOREM SessionsOpen == Spec => []SessionOpens
<1> DEFINE SessionInv == Announced /\ Onward /\ Sourced /\ NoneTwice /\ NoneEarly
<1>1. Init => SessionInv
  <2> SUFFICES ASSUME Init PROVE SessionInv
    OBVIOUS
  <2>1. Announced /\ Onward
    BY JobTypes DEF Init, Announced, Onward
  <2>2. \A d \in Conns : DOMAIN wire[d] = {} /\ DOMAIN buf[d] = {}
    BY DEF Init
  <2>3. Sourced
    BY <2>2 DEF Sourced, Heard
  <2>4. NoneTwice /\ NoneEarly
    BY <2>2, Zenon DEF NoneTwice, NoneEarly, Heard, Clean, Ordered, Once, NotAfter
  <2> QED BY <2>1, <2>3, <2>4
<1>2. TypeOK /\ ChatsReceived /\ WelcomeInv /\ SessionInv /\ [Next]_vars => SessionInv'
  BY AnnouncedStep, OnwardStep, SourcedStep, StreamStep DEF WelcomeInv
<1>3. TypeOK /\ SessionInv => SessionOpens
  <2> SUFFICES ASSUME TypeOK, SessionInv, NEW d \in Conns
               PROVE  /\ \A i, j \in DOMAIN wire[d] :
                            wire[d][i] = wire[d][j] => i = j \/ Resent(wire[d][i])
                      /\ \A c \in Conns : \A m \in Later(c) : NotAfter(wire[d], Connected(c), m)
    BY DEF SessionOpens, Later
  <2>1. ASSUME NEW i \in DOMAIN wire[d], NEW j \in DOMAIN wire[d], wire[d][i] = wire[d][j],
               ~Resent(wire[d][i])
        PROVE  i = j
    <3>1. wire[d][i] \in Frame
      BY DEF TypeOK
    <3>2. Once(wire[d], wire[d][i])
      BY <2>1, <3>1 DEF NoneTwice, Clean
    <3> QED BY <2>1, <3>2 DEF Once
  <2> QED BY <2>1 DEF NoneEarly, Ordered
<1>4. (TypeOK /\ ChatsReceived) /\ WelcomeInv /\ [Next]_vars => WelcomeInv'
  BY WelcomeStep
<1> HIDE DEF SessionInv
<1> QED BY TypeCorrect, WelcomeInit, <1>1, <1>2, <1>3, <1>4, PTL DEF Spec
=============================================================================
