--------------------------- MODULE PyServerProofs ---------------------------
(***************************************************************************)
(* The coroutines of wschat-py keep the list of clients and the order of   *)
(* every session, although each broadcast iterates over a list that the    *)
(* others change, for any number of connections and chats.                 *)
(***************************************************************************)
EXTENDS PyServer, SequenceTheorems, TLAPS

Frame == Message({"connect", "chat", "disconnect"}, Conns, Ordinals)

-----------------------------------------------------------------------------
(* Sequences *)

\* What a sequence holds after one more element.
LEMMA AppendSeq ==
    ASSUME NEW S, NEW s \in Seq(S), NEW x \in S
    PROVE  /\ Append(s, x) \in Seq(S) /\ Append(s, x) # <<>>
           /\ Len(Append(s, x)) = Len(s) + 1 /\ Len(s) \in Nat
           /\ \A i \in 1..Len(s) : Append(s, x)[i] = s[i]
           /\ Append(s, x)[Len(s) + 1] = x
           /\ \A i \in DOMAIN Append(s, x) : i \in DOMAIN s \/ i = Len(s) + 1
<1>1. /\ Append(s, x) \in Seq(S) /\ Len(Append(s, x)) = Len(s) + 1 /\ Len(s) \in Nat
      /\ \A i \in 1..Len(s) : Append(s, x)[i] = s[i]
      /\ Append(s, x)[Len(s) + 1] = x
  OBVIOUS
<1>2. DOMAIN s = 1..Len(s) /\ DOMAIN Append(s, x) = 1..(Len(s) + 1)
  BY <1>1
<1>3. Append(s, x) # <<>>
  BY <1>1
<1> QED BY <1>1, <1>2, <1>3

\* list.remove takes one element out, and those behind it move up.
LEMMA RemoveSeq ==
    ASSUME NEW S, NEW s \in Seq(S), NoRepeats(s), NEW k \in DOMAIN s
    PROVE  /\ RemoveFirst(s, s[k]) \in Seq(S)
           /\ Len(RemoveFirst(s, s[k])) = Len(s) - 1
           /\ \A i \in 1..(Len(s) - 1) :
                 RemoveFirst(s, s[k])[i] = IF i < k THEN s[i] ELSE s[i + 1]
<1>1. k \in 1..Len(s) /\ Len(s) \in Nat
  OBVIOUS
<1>2. {i \in 1..Len(s) : s[i] = s[k]} = {k}
  BY <1>1 DEF NoRepeats
<1>3. Min({k}) = k
  BY <1>1 DEF Min
<1>4. SelectInSeq(s, LAMBDA v : v = s[k]) = k
  BY <1>2, <1>3 DEF SelectInSeq
<1>5. RemoveFirst(s, s[k]) = RemoveAt(s, k)
  BY <1>1, <1>4 DEF RemoveFirst
<1> DEFINE a == SubSeq(s, 1, k - 1)
           b == SubSeq(s, k + 1, Len(s))
<1>6. /\ a \in Seq(S) /\ Len(a) = k - 1 /\ \A i \in 1..(k - 1) : a[i] = s[i]
  <2>1. \A i \in 1..(k - 1) : s[i] \in S
    BY <1>1
  <2> QED BY <1>1, <2>1, SubSeqProperties
<1>7. /\ b \in Seq(S) /\ Len(b) = Len(s) - k /\ \A i \in 1..(Len(s) - k) : b[i] = s[k + i]
  <2>1. \A i \in (k + 1)..Len(s) : s[i] \in S
    BY <1>1
  <2> QED BY <1>1, <2>1, SubSeqProperties
<1> HIDE DEF a, b
<1>8. /\ a \o b \in Seq(S) /\ Len(a \o b) = Len(s) - 1
      /\ \A i \in 1..(Len(s) - 1) : (a \o b)[i] = IF i < k THEN s[i] ELSE s[i + 1]
  <2>1. /\ a \o b \in Seq(S) /\ Len(a \o b) = Len(a) + Len(b)
        /\ \A i \in 1..(Len(a) + Len(b)) :
              (a \o b)[i] = IF i <= Len(a) THEN a[i] ELSE b[i - Len(a)]
    BY <1>6, <1>7, ConcatProperties
  <2>2. Len(a) + Len(b) = Len(s) - 1
    BY <1>1, <1>6, <1>7
  <2>3. ASSUME NEW i \in 1..(Len(s) - 1)
        PROVE  (a \o b)[i] = IF i < k THEN s[i] ELSE s[i + 1]
    <3>1. CASE i < k
      BY <1>1, <1>6, <2>1, <2>2, <3>1
    <3>2. CASE ~(i < k)
      <4>1. i - Len(a) \in 1..(Len(s) - k) /\ k + (i - Len(a)) = i + 1 /\ ~(i <= Len(a))
        BY <1>1, <1>6, <3>2
      <4> QED BY <1>7, <2>1, <2>2, <3>2, <4>1
    <3> QED BY <3>1, <3>2
  <2> QED BY <2>1, <2>2, <2>3
<1>9. RemoveAt(s, k) = a \o b
  BY DEF RemoveAt, a, b
<1> QED BY <1>5, <1>8, <1>9

-----------------------------------------------------------------------------
(* Type correctness *)

\* What a handler sends is a frame of the wire.
LEMMA FrameTypes ==
    /\ \A c \in Conns : Connected(c) \in Frame
    /\ TypeOK => \A c \in Conns : Broadcasting(c) => Current(c) \in Frame
<1>1. \A c \in Conns : Connected(c) \in Frame /\ Disconnected(c) \in Frame
  BY DEF Connected, Disconnected, NewSystemMessage, Frame, Message
<1>2. \A c \in Conns, n \in 0..MaxChats : Chat(c, n) \in Frame
  BY PyAssumption DEF Chat, NewChatMessage, Frame, Message, Ordinals
<1>3. TypeOK => \A c \in Conns : said[c] \in 0..MaxChats
  BY DEF TypeOK
<1> QED BY <1>1, <1>2, <1>3 DEF Broadcasting, Current

\* A send appends to one wire at most.
LEMMA SendType ==
    ASSUME TypeOK, NEW d \in Conns, NEW m \in Frame, SendText(d, m)
    PROVE  /\ wire' \in [Conns -> Seq(Frame)]
           /\ \A e \in Conns : e # d => wire'[e] = wire[e]
           /\ Closed(d) => wire' = wire
           /\ ~Closed(d) => wire'[d] = Append(wire[d], m)
<1>1. wire \in [Conns -> Seq(Frame)]
  BY DEF TypeOK, Frame
<1>2. Append(wire[d], m) \in Seq(Frame)
  BY <1>1, AppendSeq
<1> QED BY <1>1, <1>2 DEF SendText

\* The server starts well typed, with nobody on the list.
LEMMA ListInit == Init => TypeOK /\ NoGhosts
<1>1. ASSUME Init PROVE TypeOK
  BY <1>1, PyAssumption DEF Init, TypeOK
<1>2. ASSUME Init PROVE NoGhosts
  BY <1>2 DEF Init, NoGhosts, NoRepeats, Range
<1> QED BY <1>1, <1>2

\* Who is on the list after an append and a removal, once each.
LEMMA RangeAppend ==
    ASSUME NEW S, NEW s \in Seq(S), NEW x \in S, NoRepeats(s)
    PROVE  /\ Range(Append(s, x)) = Range(s) \cup {x}
           /\ x \notin Range(s) => NoRepeats(Append(s, x))
<1>1. /\ DOMAIN s = 1..Len(s) /\ DOMAIN Append(s, x) = 1..(Len(s) + 1) /\ Len(s) \in Nat
      /\ \A i \in 1..Len(s) : Append(s, x)[i] = s[i]
      /\ Append(s, x)[Len(s) + 1] = x
  BY AppendSeq
<1>2. 1..(Len(s) + 1) = 1..Len(s) \cup {Len(s) + 1}
  BY <1>1
<1>3. Range(Append(s, x)) = Range(s) \cup {x}
  BY <1>1, <1>2 DEF Range
<1>4. ASSUME x \notin Range(s) PROVE NoRepeats(Append(s, x))
  BY <1>1, <1>2, <1>4 DEF Range, NoRepeats
<1> QED BY <1>3, <1>4

LEMMA RangeRemove ==
    ASSUME NEW S, NEW s \in Seq(S), NoRepeats(s), NEW x \in Range(s)
    PROVE  /\ RemoveFirst(s, x) \in Seq(S)
           /\ Range(RemoveFirst(s, x)) = Range(s) \ {x}
           /\ NoRepeats(RemoveFirst(s, x))
<1>1. PICK k \in DOMAIN s : s[k] = x
  BY DEF Range
<1> DEFINE r == RemoveFirst(s, x)
<1>2. /\ r \in Seq(S) /\ Len(r) = Len(s) - 1
      /\ \A i \in 1..(Len(s) - 1) : r[i] = IF i < k THEN s[i] ELSE s[i + 1]
  BY <1>1, RemoveSeq
<1> HIDE DEF r
<1>3. DOMAIN s = 1..Len(s) /\ Len(s) \in Nat /\ k \in 1..Len(s) /\ DOMAIN r = 1..(Len(s) - 1)
  BY <1>2
<1>4. NoRepeats(r)
  <2> SUFFICES ASSUME NEW i \in DOMAIN r, NEW j \in DOMAIN r, r[i] = r[j] PROVE i = j
    BY DEF NoRepeats
  <2>1. PICK a \in DOMAIN s, b \in DOMAIN s :
          /\ r[i] = s[a] /\ a = IF i < k THEN i ELSE i + 1
          /\ r[j] = s[b] /\ b = IF j < k THEN j ELSE j + 1
    BY <1>2, <1>3
  <2>2. a = b
    BY <2>1 DEF NoRepeats
  <2> QED BY <1>3, <2>1, <2>2
<1>5. ASSUME NEW i \in DOMAIN r PROVE r[i] \in Range(s) /\ r[i] # x
  <2>1. PICK a \in DOMAIN s : r[i] = s[a] /\ a = IF i < k THEN i ELSE i + 1
    BY <1>2, <1>3
  <2>2. a # k
    BY <1>3, <2>1
  <2> QED BY <1>1, <2>1, <2>2 DEF Range, NoRepeats
<1>6. ASSUME NEW a \in DOMAIN s, s[a] # x PROVE \E i \in DOMAIN r : r[i] = s[a]
  <2>1. a # k
    BY <1>1, <1>6
  <2>2. CASE a < k
    <3>1. a \in DOMAIN r /\ r[a] = s[a]
      BY <1>2, <1>3, <2>2
    <3> QED BY <3>1
  <2>3. CASE a > k
    <3>1. a - 1 \in DOMAIN r /\ r[a - 1] = s[a]
      BY <1>2, <1>3, <2>3
    <3> QED BY <3>1
  <2> QED BY <1>3, <2>1, <2>2, <2>3
<1>7. Range(r) = Range(s) \ {x}
  BY <1>5, <1>6 DEF Range
<1> QED BY <1>2, <1>4, <1>7 DEF r

\* No step takes the state out of its type, or the list out of step with the handlers.
LEMMA ListStep == TypeOK /\ NoGhosts /\ [Next]_vars => TypeOK' /\ NoGhosts'
<1> SUFFICES ASSUME TypeOK, NoGhosts, [Next]_vars PROVE TypeOK' /\ NoGhosts'
  OBVIOUS
<1> USE DEF Goto, Begin
<1>0. /\ pc \in [Conns -> {"start", "connect", "add", "loop", "chat", "disconnect", "done",
                           "raised"}]
      /\ idx \in [Conns -> Nat] /\ clients \in Seq(Conns)
      /\ wire \in [Conns -> Seq(Frame)]
      /\ said \in [Conns -> 0..MaxChats] /\ gone \in [Conns -> BOOLEAN]
      /\ NoRepeats(clients)
  BY DEF TypeOK, Frame, NoGhosts
<1>a. \A c \in Conns : pc[c] \in {"loop", "chat", "disconnect"} => c \in Range(clients)
  BY DEF NoGhosts
<1>b. \A c \in Range(clients) :
        pc[c] \in {"loop", "chat", "disconnect"} \/ (pc[c] = "raised" /\ c \in Garblers)
  BY DEF NoGhosts
<1>c. Range(clients) \subseteq Conns
  BY <1>0 DEF Range
<1>1. ASSUME NEW c \in Conns, SendNext(c) PROVE TypeOK' /\ NoGhosts'
  <2>1. clients[idx[c] + 1] \in Conns /\ Current(c) \in Frame
    BY <1>0, <1>1, FrameTypes DEF SendNext
  <2>2. wire' \in [Conns -> Seq(Frame)]
    BY <1>1, <2>1, SendType DEF SendNext
  <2>3. UNCHANGED <<pc, clients, said, gone>> /\ idx' \in [Conns -> Nat]
    BY <1>0, <1>1 DEF SendNext
  <2> QED BY <1>0, <2>2, <2>3 DEF TypeOK, NoGhosts, Frame
<1>2. ASSUME NEW c \in Conns, SendOwn(c) PROVE TypeOK' /\ NoGhosts'
  <2>1. wire' \in [Conns -> Seq(Frame)]
    BY <1>2, FrameTypes, SendType DEF SendOwn
  <2>2. TypeOK'
    BY <1>0, <1>2, <2>1 DEF SendOwn, TypeOK, Frame
  <2>3. c \notin Range(clients) /\ pc'[c] \in {"raised", "add"} /\ clients' = clients
        /\ \A d \in Conns : d # c => pc'[d] = pc[d]
    BY <1>0, <1>2, <1>b DEF SendOwn
  <2> QED BY <1>0, <1>a, <1>b, <1>c, <2>2, <2>3 DEF NoGhosts
<1>3. ASSUME NEW c \in Conns, Add(c) PROVE TypeOK' /\ NoGhosts'
  <2>1. c \notin Range(clients) /\ clients' = Append(clients, c) /\ pc'[c] = "loop"
        /\ \A d \in Conns : d # c => pc'[d] = pc[d]
    BY <1>0, <1>3, <1>b DEF Add
  <2>2. clients' \in Seq(Conns) /\ Range(clients') = Range(clients) \cup {c} /\ NoRepeats(clients')
    BY <1>0, <2>1, RangeAppend, AppendSeq
  <2>3. TypeOK'
    BY <1>0, <1>3, <2>2 DEF Add, TypeOK, Frame
  <2> QED BY <1>0, <1>a, <1>b, <1>c, <2>1, <2>2, <2>3 DEF NoGhosts
<1>4. ASSUME NEW c \in Conns, Unregister(c) PROVE TypeOK' /\ NoGhosts'
  <2>1. c \in Range(clients) /\ clients' = RemoveFirst(clients, c) /\ pc'[c] = "done"
        /\ \A d \in Conns : d # c => pc'[d] = pc[d]
    BY <1>0, <1>4, <1>a DEF Unregister
  <2>2. clients' \in Seq(Conns) /\ Range(clients') = Range(clients) \ {c} /\ NoRepeats(clients')
    BY <1>0, <2>1, RangeRemove
  <2>3. TypeOK'
    BY <1>0, <1>4, <2>2 DEF Unregister, TypeOK, Frame
  <2> QED BY <1>0, <1>a, <1>b, <1>c, <2>1, <2>2, <2>3 DEF NoGhosts
<1>5. ASSUME NEW c \in Conns,
             Accept(c) \/ ReceiveChat(c) \/ ChatSent(c) \/ ReceiveGarbage(c) \/ ReceiveEnd(c)
      PROVE  TypeOK' /\ NoGhosts'
  <2>1. /\ said' \in [Conns -> 0..MaxChats] /\ idx' \in [Conns -> Nat]
        /\ UNCHANGED <<clients, wire, gone>>
        /\ pc' \in [Conns -> {"start", "connect", "add", "loop", "chat", "disconnect", "done",
                              "raised"}]
    <3>1. CASE ReceiveChat(c)
      <4>1. said[c] + 1 \in 0..MaxChats
        BY <1>0, <3>1, PyAssumption DEF ReceiveChat
      <4> QED BY <1>0, <3>1, <4>1 DEF ReceiveChat
    <3>2. CASE Accept(c) \/ ChatSent(c) \/ ReceiveGarbage(c) \/ ReceiveEnd(c)
      <4>1. CASE Accept(c)
        BY <1>0, <4>1 DEF Accept
      <4>2. CASE ChatSent(c)
        BY <1>0, <4>2 DEF ChatSent
      <4>3. CASE ReceiveGarbage(c)
        BY <1>0, <4>3 DEF ReceiveGarbage
      <4>4. CASE ReceiveEnd(c)
        BY <1>0, <4>4 DEF ReceiveEnd
      <4> QED BY <3>2, <4>1, <4>2, <4>3, <4>4
    <3> QED BY <1>5, <3>1, <3>2
  <2>2. TypeOK'
    BY <1>0, <2>1 DEF TypeOK, Frame
  <2>3. /\ clients' = clients /\ \A d \in Conns : d # c => pc'[d] = pc[d]
        /\ \/ pc[c] = "start" /\ pc'[c] = "connect"
           \/ /\ pc[c] \in {"loop", "chat", "disconnect"}
              /\ \/ pc'[c] \in {"loop", "chat", "disconnect"}
                 \/ pc'[c] = "raised" /\ c \in Garblers
    BY <1>0, <1>5 DEF Accept, ReceiveChat, ChatSent, ReceiveGarbage, ReceiveEnd
  <2> QED BY <1>0, <1>a, <1>b, <1>c, <2>2, <2>3 DEF NoGhosts
<1>6. ASSUME NEW c \in Conns, PeerCloses(c) PROVE TypeOK' /\ NoGhosts'
  BY <1>0, <1>6 DEF PeerCloses, TypeOK, NoGhosts, Frame
<1>7. CASE UNCHANGED vars
  BY <1>7 DEF vars, TypeOK, NoGhosts
<1> QED BY <1>1, <1>2, <1>3, <1>4, <1>5, <1>6, <1>7 DEF Next, HandlerStep, UserStep

\* Every state of the server is well typed.
THEOREM TypeCorrect == Spec => []TypeOK
BY ListInit, ListStep, PTL DEF Spec

\* The list holds each registered client once, and whoever is left on it behind the end
\* of their handler was put out by text that is not JSON.
THEOREM ListExact == Spec => []NoGhosts
BY ListInit, ListStep, PTL DEF Spec

-----------------------------------------------------------------------------
(* The first frame *)

\* Nothing is sent to a user before their own "connect", and it was sent to whoever
\* has come further.
Untold ==
    \A c \in Conns :
        /\ pc[c] \in {"start", "connect"} => wire[c] = <<>>
        /\ pc[c] = "add" => wire[c] = <<Connected(c)>>
        /\ pc[c] \in {"loop", "chat", "disconnect"} => wire[c] # <<>>

\* At the start nobody has been sent anything.
LEMMA FirstInit == Init => Untold /\ OwnConnectFirst
BY DEF Init, Untold, OwnConnectFirst

\* Where a broadcast may write: to nobody who is not yet, or no more, in their loop.
LEMMA SendNextTo ==
    ASSUME TypeOK, NoGhosts, NEW c \in Conns, SendNext(c)
    PROVE  LET d == clients[idx[c] + 1] IN
           /\ d \in Conns /\ idx[c] + 1 \in DOMAIN clients
           /\ \A e \in Conns : e # d => wire'[e] = wire[e]
           /\ Closed(d) => wire' = wire
           /\ ~Closed(d) => /\ wire'[d] = Append(wire[d], Current(c))
                            /\ pc[d] \in {"loop", "chat", "disconnect"}
<1> DEFINE d == clients[idx[c] + 1]
<1>1. /\ clients \in Seq(Conns) /\ idx[c] \in Nat /\ idx[c] < Len(clients)
      /\ Broadcasting(c) /\ SendText(d, Current(c))
  BY DEF TypeOK, SendNext
<1>2. d \in Conns /\ idx[c] + 1 \in DOMAIN clients
  BY <1>1
<1>3. d \in Range(clients)
  BY <1>2 DEF Range
<1> HIDE DEF d
<1>4. pc[d] \in {"loop", "chat", "disconnect", "raised"}
  BY <1>3 DEF NoGhosts
<1>5. Current(c) \in Frame
  BY <1>1, FrameTypes
<1>6. /\ \A e \in Conns : e # d => wire'[e] = wire[e]
      /\ Closed(d) => wire' = wire
      /\ ~Closed(d) => wire'[d] = Append(wire[d], Current(c))
  BY <1>1, <1>2, <1>5, SendType
<1> QED BY <1>2, <1>4, <1>6 DEF Closed, d

\* No step sends a user anything before their own "connect".
LEMMA FirstStep ==
    TypeOK /\ NoGhosts /\ Untold /\ OwnConnectFirst /\ [Next]_vars => Untold' /\ OwnConnectFirst'
<1> SUFFICES ASSUME TypeOK, NoGhosts, Untold, OwnConnectFirst, [Next]_vars, NEW e \in Conns
             PROVE  /\ pc'[e] \in {"start", "connect"} => wire'[e] = <<>>
                    /\ pc'[e] = "add" => wire'[e] = <<Connected(e)>>
                    /\ pc'[e] \in {"loop", "chat", "disconnect"} => wire'[e] # <<>>
                    /\ wire'[e] # <<>> => wire'[e][1] = Connected(e)
  BY DEF Untold, OwnConnectFirst, Connected, NewSystemMessage
<1> USE DEF Goto, Begin
<1>0. /\ pc \in [Conns -> {"start", "connect", "add", "loop", "chat", "disconnect", "done",
                           "raised"}]
      /\ wire \in [Conns -> Seq(Frame)]
      /\ pc[e] \in {"start", "connect"} => wire[e] = <<>>
      /\ pc[e] = "add" => wire[e] = <<Connected(e)>>
      /\ pc[e] \in {"loop", "chat", "disconnect"} => wire[e] # <<>>
      /\ wire[e] # <<>> => wire[e][1] = Connected(e)
  BY DEF TypeOK, Frame, Untold, OwnConnectFirst
<1>1. ASSUME NEW c \in Conns, SendNext(c), wire'[e] # wire[e]
      PROVE  /\ wire'[e] # <<>> /\ wire'[e][1] = wire[e][1]
             /\ pc' = pc /\ pc[e] \in {"loop", "chat", "disconnect"}
  <2>1. /\ wire'[e] = Append(wire[e], Current(c)) /\ Broadcasting(c)
        /\ pc' = pc /\ pc[e] \in {"loop", "chat", "disconnect"}
    BY <1>1, SendNextTo DEF SendNext
  <2>2. Current(c) \in Frame /\ wire[e] \in Seq(Frame) /\ wire[e] # <<>>
    BY <1>0, <2>1, FrameTypes
  <2>3. 1 \in 1..Len(wire[e])
    BY <2>2
  <2> QED BY <2>1, <2>2, <2>3, AppendSeq
<1>2. ASSUME NEW c \in Conns, SendOwn(c)
      PROVE  /\ pc' = [pc EXCEPT ![c] = IF Closed(c) THEN "raised" ELSE "add"]
             /\ pc[c] = "connect"
             /\ \A d \in Conns : d # c => wire'[d] = wire[d]
             /\ IF Closed(c) THEN wire' = wire ELSE wire'[c] = Append(wire[c], Connected(c))
  BY <1>2, FrameTypes, SendType DEF SendOwn
<1>3. ASSUME NEW c \in Conns, SendOwn(c), e = c
      PROVE  wire'[e] = IF Closed(e) THEN <<>> ELSE <<Connected(e)>>
  <2>1. wire[c] = <<>>
    BY <1>0, <1>2, <1>3
  <2>2. Append(<<>>, Connected(c)) = <<Connected(c)>>
    OBVIOUS
  <2> QED BY <1>2, <1>3, <2>1, <2>2
<1>4. ASSUME NEW c \in Conns, SendOwn(c)
      PROVE  /\ pc'[e] \in {"start", "connect"} => wire'[e] = <<>>
             /\ pc'[e] = "add" => wire'[e] = <<Connected(e)>>
             /\ pc'[e] \in {"loop", "chat", "disconnect"} => wire'[e] # <<>>
             /\ wire'[e] # <<>> => wire'[e][1] = Connected(e)
  <2>1. CASE e = c
    BY <1>0, <1>2, <1>3, <1>4, <2>1
  <2>2. CASE e # c
    BY <1>0, <1>2, <1>4, <2>2
  <2> QED BY <2>1, <2>2
<1>5. ASSUME NEW c \in Conns, Add(c) PROVE wire' = wire /\ pc' = [pc EXCEPT ![c] = "loop"] /\ pc[c] = "add"
  BY <1>5 DEF Add
<1>6. ASSUME NEW c \in Conns,
             \/ Accept(c) \/ ReceiveChat(c) \/ ChatSent(c) \/ ReceiveGarbage(c) \/ ReceiveEnd(c)
             \/ Unregister(c) \/ PeerCloses(c)
      PROVE  /\ wire' = wire
             /\ \/ pc'[e] = pc[e]
                \/ pc[e] = "start" /\ pc'[e] = "connect"
                \/ /\ pc[e] \in {"loop", "chat", "disconnect"}
                   /\ pc'[e] \in {"loop", "chat", "disconnect", "done", "raised"}
  BY <1>0, <1>6 DEF Accept, ReceiveChat, ChatSent, ReceiveGarbage, ReceiveEnd, Unregister,
                    PeerCloses
<1>7. CASE \E c \in Conns : SendNext(c)
  BY <1>0, <1>1, <1>7 DEF SendNext
<1>8. CASE \E c \in Conns : Add(c)
  <2>1. <<Connected(e)>> # <<>>
    OBVIOUS
  <2>2. PICK c \in Conns : wire' = wire /\ pc' = [pc EXCEPT ![c] = "loop"] /\ pc[c] = "add"
    BY <1>5, <1>8
  <2>3. wire'[e] = wire[e] /\ (pc'[e] = pc[e] \/ (pc[e] = "add" /\ pc'[e] = "loop"))
    BY <1>0, <2>2
  <2>4. pc[e] = "add" => wire[e] # <<>>
    BY <1>0, <2>1
  <2>5. CASE pc'[e] = pc[e]
    BY <1>0, <2>3, <2>5
  <2>6. CASE pc[e] = "add" /\ pc'[e] = "loop"
    BY <1>0, <2>3, <2>4, <2>6
  <2> QED BY <2>3, <2>5, <2>6
<1>9. CASE UNCHANGED vars
  BY <1>0, <1>9 DEF vars
<1> QED BY <1>0, <1>4, <1>6, <1>7, <1>8, <1>9 DEF Next, HandlerStep, UserStep

\* The first frame of every user is their own "connect": they are put on the list only
\* when it has been sent.
THEOREM OwnConnectSent == Spec => []OwnConnectFirst
BY ListInit, ListStep, FirstInit, FirstStep, PTL DEF Spec

-----------------------------------------------------------------------------

(* How the wires grow *)

\* An append, in terms of what is heard and in what order.
LEMMA HeardAppend ==
    ASSUME NEW S, NEW s \in Seq(S), NEW x \in S
    PROVE  /\ \A m : Heard(Append(s, x), m) <=> Heard(s, m) \/ m = x
           /\ NoRepeats(s) /\ ~Heard(s, x) => NoRepeats(Append(s, x))
           /\ \A a, b : a # b /\ NotAfter(s, a, b) /\ (x = a => ~Heard(s, b)) =>
                 NotAfter(Append(s, x), a, b)
<1>1. /\ DOMAIN s = 1..Len(s) /\ DOMAIN Append(s, x) = 1..(Len(s) + 1) /\ Len(s) \in Nat
      /\ \A i \in 1..Len(s) : Append(s, x)[i] = s[i]
      /\ Append(s, x)[Len(s) + 1] = x
  BY AppendSeq
<1>2. /\ 1..(Len(s) + 1) = 1..Len(s) \cup {Len(s) + 1}
      /\ \A i \in 1..Len(s) : i < Len(s) + 1 /\ ~(Len(s) + 1 < i)
  BY <1>1
<1> DEFINE t == Append(s, x)
           n == Len(s) + 1
<1>3. /\ DOMAIN t = DOMAIN s \cup {n}
      /\ \A i \in DOMAIN s : t[i] = s[i] /\ i < n /\ i # n
      /\ t[n] = x
  BY <1>1, <1>2
<1> HIDE DEF t, n
<1>4. \A m : Heard(t, m) <=> Heard(s, m) \/ m = x
  BY <1>3 DEF Heard
<1>5. NoRepeats(s) /\ ~Heard(s, x) => NoRepeats(t)
  BY <1>3 DEF Heard, NoRepeats
<1>6. ASSUME NEW a, NEW b, a # b, NotAfter(s, a, b), x = a => ~Heard(s, b)
      PROVE  NotAfter(t, a, b)
  BY <1>3, <1>6 DEF Heard, NotAfter
<1> QED BY <1>4, <1>5, <1>6 DEF t

\* Messages that are due: those no user can have been sent yet are not among them.
Begun(m) ==
    CASE m.action = "connect"    -> pc[m.user] # "start"
      [] m.action = "chat"       -> m.n <= said[m.user]
      [] m.action = "disconnect" -> pc[m.user] \in {"disconnect", "done"}

\* Nobody has been sent what has not been begun, and who has not entered has said nothing.
BegunOnly ==
    /\ \A d \in Conns, m \in Frame : Heard(wire[d], m) => Begun(m)
    /\ \A c \in Conns : pc[c] \in {"start", "connect", "add"} => said[c] = 0

\* Those a broadcast has not come to have not been sent its message.
Pending ==
    \A c \in Conns : Broadcasting(c) =>
        \A j \in DOMAIN clients : j > idx[c] => ~Heard(wire[clients[j]], Current(c))

\* What a handler is broadcasting has begun, and two handlers broadcast different messages.
LEMMA CurrentFacts ==
    ASSUME TypeOK
    PROVE  /\ \A c \in Conns : Broadcasting(c) =>
                /\ Begun(Current(c)) /\ Current(c).user = c
                /\ pc[c] = "connect" => Current(c) = Connected(c)
                /\ pc[c] = "chat" => Current(c) = Chat(c, said[c])
                /\ pc[c] = "disconnect" => Current(c) = Disconnected(c)
           /\ \A c \in Conns, k \in Ordinals :
                /\ Connected(c) # Disconnected(c)
                /\ Chat(c, k) # Disconnected(c) /\ Connected(c) # Chat(c, k)
                /\ Connected(c).user = c /\ Chat(c, k).user = c /\ Disconnected(c).user = c
<1>1. \A c \in Conns : said[c] \in Nat
  BY PyAssumption DEF TypeOK
<1>2. \A c, k :
        /\ Connected(c).action = "connect" /\ Connected(c).user = c
        /\ Disconnected(c).action = "disconnect" /\ Disconnected(c).user = c
        /\ Chat(c, k).action = "chat" /\ Chat(c, k).user = c /\ Chat(c, k).n = k
  BY DEF Connected, Chat, Disconnected, NewSystemMessage, NewChatMessage
<1>3. ASSUME NEW c \in Conns, Broadcasting(c)
      PROVE  /\ Begun(Current(c)) /\ Current(c).user = c
             /\ pc[c] = "connect" => Current(c) = Connected(c)
             /\ pc[c] = "chat" => Current(c) = Chat(c, said[c])
             /\ pc[c] = "disconnect" => Current(c) = Disconnected(c)
  <2>1. CASE pc[c] = "connect"
    BY <1>2, <2>1 DEF Current, Begun
  <2>2. CASE pc[c] = "chat"
    <3>1. Current(c) = Chat(c, said[c])
      BY <2>2 DEF Current
    <3>2. PICK m : m = Chat(c, said[c])
      OBVIOUS
    <3>3. m.action = "chat" /\ m.user = c /\ m.n = said[c]
      BY <1>2, <3>2
    <3>4. Begun(m)
      BY <1>1, <3>3 DEF Begun
    <3> QED BY <2>2, <3>1, <3>2, <3>3, <3>4
  <2>3. CASE pc[c] = "disconnect"
    BY <1>2, <2>3 DEF Current, Begun
  <2> QED BY <1>3, <2>1, <2>2, <2>3 DEF Broadcasting
<1>4. \A c \in Conns, k \in Ordinals :
        /\ Connected(c) # Disconnected(c)
        /\ Chat(c, k) # Disconnected(c) /\ Connected(c) # Chat(c, k)
        /\ Connected(c).user = c /\ Chat(c, k).user = c /\ Disconnected(c).user = c
  <2> SUFFICES ASSUME NEW c \in Conns, NEW k \in Ordinals
               PROVE  /\ Connected(c) # Disconnected(c)
                      /\ Chat(c, k) # Disconnected(c) /\ Connected(c) # Chat(c, k)
    BY <1>2
  <2> QED BY <1>2
<1> QED BY <1>3, <1>4

\* A step appends at most one message to a wire, one that was not on it.
LEMMA WireStep ==
    ASSUME TypeOK, NoGhosts, Untold, Pending, [Next]_vars, NEW d \in Conns,
           wire'[d] # wire[d]
    PROVE  \E c \in Conns : /\ Broadcasting(c) /\ ~Heard(wire[d], Current(c))
                            /\ wire'[d] = Append(wire[d], Current(c))
                            /\ said' = said
                            /\ SendNext(c) \/ SendOwn(c)
<1>1. PICK c \in Conns : SendNext(c) \/ SendOwn(c)
  BY DEF Next, HandlerStep, UserStep, Accept, ReceiveChat, ChatSent, ReceiveGarbage, ReceiveEnd,
         Unregister, PeerCloses, Add, vars
<1>2. CASE SendNext(c)
  <2>1. /\ wire'[d] = Append(wire[d], Current(c)) /\ d = clients[idx[c] + 1]
        /\ idx[c] + 1 \in DOMAIN clients
    BY <1>2, SendNextTo
  <2>2. idx[c] \in Nat /\ Broadcasting(c) /\ said' = said
    BY <1>2 DEF SendNext, TypeOK
  <2>3. ~Heard(wire[d], Current(c))
    BY <2>1, <2>2 DEF Pending
  <2> QED BY <1>2, <2>1, <2>2, <2>3
<1>3. CASE SendOwn(c)
  <2>1. pc[c] = "connect" /\ SendText(c, Connected(c)) /\ said' = said
    BY <1>3 DEF SendOwn
  <2>2. d = c /\ wire'[d] = Append(wire[d], Connected(c))
    BY <2>1, FrameTypes, SendType
  <2>3. Broadcasting(c) /\ Current(c) = Connected(c)
    BY <2>1, CurrentFacts DEF Broadcasting
  <2>4. ~Heard(wire[d], Current(c))
    BY <2>1, <2>2 DEF Untold, Heard
  <2> QED BY <1>3, <2>1, <2>2, <2>3, <2>4
<1> QED BY <1>1, <1>2, <1>3

\* At the start nothing has been begun.
LEMMA OrderInit == Init => BegunOnly /\ Pending /\ SessionOrder
<1> SUFFICES ASSUME Init PROVE BegunOnly /\ Pending /\ SessionOrder
  OBVIOUS
<1>1. \A d \in Conns : wire[d] = <<>>
  BY DEF Init
<1>2. \A d \in Conns : NoRepeats(wire[d]) /\ \A a, b : NotAfter(wire[d], a, b) /\ ~Heard(wire[d], a)
  BY <1>1 DEF NoRepeats, NotAfter, Heard
<1>3. \A c \in Conns : pc[c] = "start" /\ said[c] = 0
  BY DEF Init
<1> QED BY <1>2, <1>3 DEF BegunOnly, Pending, SessionOrder, Broadcasting

\* What has begun stays begun, and what is heard has.
LEMMA BegunStep ==
    ASSUME TypeOK, NoGhosts, Untold, Pending, BegunOnly, [Next]_vars
    PROVE  BegunOnly'
<1> USE DEF Goto, Begin
<1>0. /\ pc \in [Conns -> {"start", "connect", "add", "loop", "chat", "disconnect", "done",
                           "raised"}]
      /\ said \in [Conns -> 0..MaxChats] /\ wire \in [Conns -> Seq(Frame)]
  BY DEF TypeOK, Frame
<1>1. ASSUME NEW c \in Conns
      PROVE  /\ pc[c] # "start" => pc'[c] # "start"
             /\ pc[c] \in {"disconnect", "done"} => pc'[c] \in {"disconnect", "done"}
             /\ said'[c] = said[c] \/ (said'[c] = said[c] + 1 /\ pc'[c] = "chat")
             /\ pc'[c] \in {"start", "connect", "add"} =>
                   pc[c] \in {"start", "connect", "add"} /\ said'[c] = said[c]
  <2>1. ASSUME NEW b \in Conns, SendNext(b) \/ PeerCloses(b)
        PROVE  pc' = pc /\ said' = said
    BY <2>1 DEF SendNext, PeerCloses
  <2>2. ASSUME NEW b \in Conns, SendOwn(b) \/ Add(b) \/ Accept(b)
        PROVE  /\ said' = said /\ pc[b] \in {"start", "connect", "add"}
               /\ pc'[b] \in {"connect", "add", "loop", "raised"}
               /\ \A d \in Conns : d # b => pc'[d] = pc[d]
    BY <1>0, <2>2 DEF SendOwn, Add, Accept
  <2>3. ASSUME NEW b \in Conns, ReceiveGarbage(b) \/ ReceiveEnd(b) \/ ChatSent(b) \/ Unregister(b)
        PROVE  /\ said' = said
               /\ \/ pc[b] \in {"loop", "chat"} /\ pc'[b] \in {"loop", "raised", "disconnect"}
                  \/ pc[b] = "disconnect" /\ pc'[b] = "done"
               /\ \A d \in Conns : d # b => pc'[d] = pc[d]
    BY <1>0, <2>3 DEF ReceiveGarbage, ReceiveEnd, ChatSent, Unregister
  <2>4. ASSUME NEW b \in Conns, ReceiveChat(b)
        PROVE  /\ said'[b] = said[b] + 1 /\ pc[b] = "loop" /\ pc'[b] = "chat"
               /\ \A d \in Conns : d # b => pc'[d] = pc[d] /\ said'[d] = said[d]
    BY <1>0, <2>4 DEF ReceiveChat
  <2>5. CASE UNCHANGED vars
    BY <1>0, <2>5 DEF vars
  <2>6. CASE \E b \in Conns : SendNext(b) \/ PeerCloses(b)
    BY <1>0, <2>1, <2>6
  <2>7. CASE \E b \in Conns : SendOwn(b) \/ Add(b) \/ Accept(b)
    BY <1>0, <2>2, <2>7
  <2>8. CASE \E b \in Conns : ReceiveGarbage(b) \/ ReceiveEnd(b) \/ ChatSent(b) \/ Unregister(b)
    BY <1>0, <2>3, <2>8
  <2>9. CASE \E b \in Conns : ReceiveChat(b)
    BY <1>0, <2>4, <2>9
  <2> QED BY <2>5, <2>6, <2>7, <2>8, <2>9 DEF Next, HandlerStep, UserStep
<1>2. ASSUME NEW m \in Frame, Begun(m) PROVE Begun(m)'
  <2>1. m.user \in Conns /\ m.n \in Nat /\ said[m.user] \in Nat
    BY <1>0, PyAssumption DEF Frame, Message, Ordinals
  <2>2. m.action \in {"connect", "chat", "disconnect"}
    BY DEF Frame, Message
  <2>3. CASE m.action = "connect"
    BY <1>1, <1>2, <2>1, <2>3 DEF Begun
  <2>4. CASE m.action = "chat"
    <3>1. m.n <= said[m.user] /\ said'[m.user] \in {said[m.user], said[m.user] + 1}
      BY <1>1, <1>2, <2>1, <2>4 DEF Begun
    <3>2. m.n <= said'[m.user]
      BY <2>1, <3>1
    <3> QED BY <2>4, <3>2 DEF Begun
  <2>5. CASE m.action = "disconnect"
    BY <1>1, <1>2, <2>1, <2>5 DEF Begun
  <2> QED BY <2>2, <2>3, <2>4, <2>5
<1>3. ASSUME NEW d \in Conns, NEW m \in Frame, Heard(wire'[d], m) PROVE Begun(m)'
  <2>1. CASE wire'[d] = wire[d]
    BY <1>2, <1>3, <2>1 DEF BegunOnly
  <2>2. CASE wire'[d] # wire[d]
    <3>1. PICK c \in Conns : Broadcasting(c) /\ wire'[d] = Append(wire[d], Current(c))
      BY <2>2, WireStep
    <3>2. Current(c) \in Frame /\ Begun(Current(c)) /\ wire[d] \in Seq(Frame)
      BY <1>0, <3>1, FrameTypes, CurrentFacts
    <3>3. Heard(wire[d], m) \/ m = Current(c)
      BY <1>3, <3>1, <3>2, HeardAppend
    <3>4. Begun(m)
      BY <3>2, <3>3 DEF BegunOnly
    <3> QED BY <1>2, <3>4
  <2> QED BY <2>1, <2>2
<1> QED BY <1>1, <1>3 DEF BegunOnly

\* A broadcast never comes to a client it has served: a removal under its iterator lets
\* it skip a client, and an append adds one who has been sent only their own connect.
LEMMA PendingStep ==
    ASSUME TypeOK, NoGhosts, Untold, Pending, BegunOnly, [Next]_vars
    PROVE  Pending'
<1> SUFFICES ASSUME NEW c \in Conns, Broadcasting(c)', NEW j \in DOMAIN clients', j > idx'[c]
             PROVE  ~Heard(wire'[clients'[j]], Current(c)')
  BY DEF Pending
<1> USE DEF Goto, Begin
<1>0. /\ pc \in [Conns -> {"start", "connect", "add", "loop", "chat", "disconnect", "done",
                           "raised"}]
      /\ idx \in [Conns -> Nat] /\ clients \in Seq(Conns)
      /\ said \in [Conns -> 0..MaxChats] /\ wire \in [Conns -> Seq(Frame)]
      /\ NoRepeats(clients)
  BY DEF TypeOK, Frame, NoGhosts
<1>1. ASSUME Broadcasting(c), NEW i \in DOMAIN clients, i > idx[c]
      PROVE  /\ clients[i] \in Conns /\ ~Heard(wire[clients[i]], Current(c))
  BY <1>0, <1>1 DEF Pending
<1>2. ASSUME NEW b \in Conns, b # c, pc'[c] = pc[c], said'[c] = said[c], idx'[c] = idx[c]
      PROVE  Broadcasting(c) /\ Current(c)' = Current(c) /\ Current(c).user = c
  BY <1>2, CurrentFacts DEF Broadcasting, Current
<1>3. ASSUME NEW b \in Conns, SendNext(b) PROVE ~Heard(wire'[clients'[j]], Current(c)')
  <2> DEFINE d == clients[idx[b] + 1]
             e == clients[j]
  <2>1. /\ UNCHANGED <<pc, said, clients>> /\ idx' = [idx EXCEPT ![b] = idx[b] + 1]
        /\ Broadcasting(b)
    BY <1>0, <1>3 DEF SendNext
  <2>2. /\ Broadcasting(c) /\ Current(c)' = Current(c) /\ Current(c).user = c
    BY <2>1, CurrentFacts DEF Broadcasting, Current
  <2>3. j > idx[c] /\ (c = b => j # idx[b] + 1)
    <3>1. j \in DOMAIN clients /\ j \in Nat
      <4>1. clients' = clients /\ DOMAIN clients = 1..Len(clients) /\ Len(clients) \in Nat
        BY <1>0, <2>1
      <4> QED BY <4>1
    <3>2. CASE c = b
      <4>1. idx'[c] = idx[b] + 1 /\ idx[b] \in Nat
        BY <1>0, <2>1, <3>2
      <4> QED BY <3>1, <3>2, <4>1
    <3>3. CASE c # b
      BY <1>0, <2>1, <3>3
    <3> QED BY <3>2, <3>3
  <2>4. e \in Conns /\ ~Heard(wire[e], Current(c))
    BY <1>1, <2>1, <2>2, <2>3
  <2>5. d \in Conns /\ idx[b] + 1 \in DOMAIN clients
    BY <1>3, SendNextTo
  <2>6. wire'[e] = wire[e] \/ (e = d /\ wire'[e] = Append(wire[e], Current(b)))
    BY <1>3, <2>4, SendNextTo
  <2> HIDE DEF d, e
  <2>7. c = b => e # d
    BY <1>0, <2>1, <2>3, <2>5 DEF NoRepeats, d, e
  <2>8. c # b => Current(b) # Current(c)
    BY <2>1, <2>2, CurrentFacts
  <2>9. Current(b) \in Frame /\ wire[e] \in Seq(Frame)
    BY <1>0, <2>1, <2>4, FrameTypes
  <2>10. ~Heard(wire'[e], Current(c))
    <3>1. CASE wire'[e] = wire[e]
      BY <2>4, <3>1
    <3>2. CASE wire'[e] # wire[e]
      <4>1. wire'[e] = Append(wire[e], Current(b)) /\ Current(b) # Current(c)
        BY <2>6, <2>7, <2>8, <3>2
      <4> QED BY <2>4, <2>9, <4>1, HeardAppend
    <3> QED BY <3>1, <3>2
  <2>11. clients'[j] = e
    BY <2>1 DEF e
  <2> QED BY <2>2, <2>10, <2>11
<1>4. ASSUME NEW b \in Conns, SendOwn(b) PROVE ~Heard(wire'[clients'[j]], Current(c)')
  <2>1. /\ UNCHANGED <<said, clients, idx>> /\ pc[b] = "connect" /\ pc'[b] \in {"raised", "add"}
        /\ \A d \in Conns : d # b => pc'[d] = pc[d]
    BY <1>0, <1>4 DEF SendOwn
  <2>2. c # b
    BY <2>1 DEF Broadcasting
  <2>3. clients[j] \in Conns /\ clients[j] \in Range(clients) /\ ~Heard(wire[clients[j]], Current(c))
        /\ Current(c)' = Current(c)
    BY <1>0, <1>1, <1>2, <2>1, <2>2 DEF Range
  <2>4. clients[j] # b
    BY <2>1, <2>3 DEF NoGhosts
  <2>5. wire'[clients[j]] = wire[clients[j]]
    BY <1>4, <2>3, <2>4, FrameTypes, SendType DEF SendOwn
  <2> QED BY <2>1, <2>3, <2>5
<1>5. ASSUME NEW b \in Conns, Add(b) PROVE ~Heard(wire'[clients'[j]], Current(c)')
  <2>1. /\ UNCHANGED <<said, wire, idx>> /\ pc[b] = "add" /\ pc'[b] = "loop"
        /\ \A d \in Conns : d # b => pc'[d] = pc[d]
        /\ clients' = Append(clients, b)
    BY <1>0, <1>5 DEF Add
  <2>2. c # b
    BY <2>1 DEF Broadcasting
  <2>3. Broadcasting(c) /\ Current(c)' = Current(c) /\ Current(c).user = c
    BY <1>2, <2>1, <2>2
  <2>4. CASE j \in DOMAIN clients
    <3>1. clients'[j] = clients[j]
      BY <1>0, <2>1, <2>4, AppendSeq
    <3> QED BY <1>1, <2>1, <2>3, <2>4, <3>1
  <2>5. CASE j \notin DOMAIN clients
    <3>1. clients'[j] = b
      BY <1>0, <2>1, <2>5, AppendSeq
    <3>2. wire[b] = <<Connected(b)>>
      BY <2>1 DEF Untold
    <3>3. Current(c) # Connected(b)
      BY <2>2, <2>3 DEF Connected, NewSystemMessage
    <3>4. ~Heard(wire[b], Current(c))
      BY <3>2, <3>3 DEF Heard
    <3> QED BY <2>1, <2>3, <3>1, <3>4
  <2> QED BY <2>4, <2>5
<1>6. ASSUME NEW b \in Conns, Unregister(b) PROVE ~Heard(wire'[clients'[j]], Current(c)')
  <2>1. /\ UNCHANGED <<said, wire, idx>> /\ pc[b] = "disconnect" /\ pc'[b] = "done"
        /\ \A d \in Conns : d # b => pc'[d] = pc[d]
        /\ clients' = RemoveFirst(clients, b)
    BY <1>0, <1>6 DEF Unregister
  <2>2. c # b
    BY <2>1 DEF Broadcasting
  <2>3. Broadcasting(c) /\ Current(c)' = Current(c)
    BY <1>2, <2>1, <2>2
  <2>4. PICK k \in DOMAIN clients : clients[k] = b
    BY <2>1 DEF NoGhosts, Range
  <2>5. /\ clients' \in Seq(Conns) /\ Len(clients') = Len(clients) - 1
        /\ \A i \in 1..(Len(clients) - 1) :
              clients'[i] = IF i < k THEN clients[i] ELSE clients[i + 1]
    BY <1>0, <2>1, <2>4, RemoveSeq
  <2>6. PICK i \in DOMAIN clients : clients'[j] = clients[i] /\ i > idx[c]
    <3>1. DOMAIN clients' = 1..(Len(clients) - 1) /\ DOMAIN clients = 1..Len(clients)
          /\ Len(clients) \in Nat /\ idx'[c] = idx[c] /\ idx[c] \in Nat
      BY <1>0, <2>1, <2>5
    <3>2. j \in 1..(Len(clients) - 1) /\ j > idx[c]
      BY <3>1
    <3>3. /\ j \in DOMAIN clients /\ j + 1 \in DOMAIN clients /\ j + 1 > idx[c]
          /\ clients'[j] = clients[j] \/ clients'[j] = clients[j + 1]
      BY <2>5, <3>1, <3>2
    <3> QED BY <3>2, <3>3
  <2> QED BY <1>1, <2>1, <2>3, <2>6
<1>7. ASSUME NEW b \in Conns, Accept(b) \/ ReceiveChat(b) \/ ReceiveEnd(b)
      PROVE  ~Heard(wire'[clients'[j]], Current(c)')
  <2>1. /\ UNCHANGED <<wire, clients>>
        /\ \A d \in Conns : d # b => pc'[d] = pc[d] /\ said'[d] = said[d] /\ idx'[d] = idx[d]
    BY <1>0, <1>7 DEF Accept, ReceiveChat, ReceiveEnd
  <2>2. CASE c # b
    BY <1>1, <1>2, <2>1, <2>2
  <2>3. CASE c = b
    <3>1. PICK m : m = Current(c)'
      OBVIOUS
    <3>2. m \in Frame /\ ~Begun(m)
      <4>1. CASE Accept(b)
        <5>1. pc[c] = "start" /\ pc'[c] = "connect"
          BY <1>0, <2>3, <4>1 DEF Accept
        <5>2. m = Connected(c)
          BY <3>1, <5>1 DEF Current, Connected, NewSystemMessage
        <5> QED BY <5>1, <5>2, FrameTypes DEF Begun, Connected, NewSystemMessage
      <4>2. CASE ReceiveChat(b)
        <5>1. pc'[c] = "chat" /\ said'[c] = said[c] + 1 /\ said[c] \in Nat /\ said'[c] \in 1..MaxChats
          BY <1>0, <2>3, <4>2, PyAssumption DEF ReceiveChat
        <5>2. m = Chat(c, said[c] + 1)
          BY <3>1, <5>1 DEF Current, Chat, NewChatMessage
        <5>3. m.action = "chat" /\ m.user = c /\ m.n = said[c] + 1
          BY <5>2 DEF Chat, NewChatMessage
        <5>4. m \in Frame
          BY <5>1, <5>2 DEF Chat, NewChatMessage, Frame, Message, Ordinals
        <5>5. ~(m.n <= said[m.user])
          BY <5>1, <5>3
        <5> QED BY <5>3, <5>4, <5>5 DEF Begun
      <4>3. CASE ReceiveEnd(b)
        <5>1. pc[c] = "loop" /\ pc'[c] = "disconnect"
          BY <1>0, <2>3, <4>3 DEF ReceiveEnd
        <5>2. m = Disconnected(c)
          BY <3>1, <5>1 DEF Current, Disconnected, NewSystemMessage
        <5>3. m.action = "disconnect" /\ m.user = c /\ m \in Frame
          BY <5>2 DEF Disconnected, NewSystemMessage, Frame, Message
        <5> QED BY <5>1, <5>3 DEF Begun
      <4> QED BY <1>7, <4>1, <4>2, <4>3
    <3>3. clients[j] \in Conns
      BY <1>0, <2>1
    <3> QED BY <2>1, <3>1, <3>2, <3>3 DEF BegunOnly
  <2> QED BY <2>2, <2>3
<1>8. ASSUME NEW b \in Conns, ChatSent(b) \/ ReceiveGarbage(b)
      PROVE  ~Heard(wire'[clients'[j]], Current(c)')
  <2>1. /\ UNCHANGED <<wire, clients, said, idx>> /\ pc'[b] \in {"loop", "raised"}
        /\ \A d \in Conns : d # b => pc'[d] = pc[d]
    BY <1>0, <1>8 DEF ChatSent, ReceiveGarbage
  <2>2. c # b
    BY <2>1 DEF Broadcasting
  <2> QED BY <1>1, <1>2, <2>1, <2>2
<1>9. ASSUME UNCHANGED vars \/ \E b \in Conns : PeerCloses(b)
      PROVE  ~Heard(wire'[clients'[j]], Current(c)')
  <2>1. UNCHANGED <<wire, clients, said, idx, pc>>
    BY <1>9 DEF vars, PeerCloses
  <2>2. Broadcasting(c) /\ Current(c)' = Current(c)
    BY <2>1 DEF Broadcasting, Current
  <2> QED BY <1>1, <2>1, <2>2
<1> QED BY <1>3, <1>4, <1>5, <1>6, <1>7, <1>8, <1>9 DEF Next, HandlerStep, UserStep

\* No step puts a message on a wire out of its place in the session.
LEMMA OrderStep ==
    ASSUME TypeOK, NoGhosts, Untold, Pending, BegunOnly, SessionOrder, [Next]_vars
    PROVE  SessionOrder'
<1> SUFFICES ASSUME NEW c \in Conns, NEW d \in Conns
             PROVE  /\ NoRepeats(wire'[d])
                    /\ \A m \in {Connected(c)} \cup {Chat(c, k) : k \in Ordinals} :
                          NotAfter(wire'[d], m, Disconnected(c))
                    /\ \A k \in Ordinals :
                        /\ NotAfter(wire'[d], Connected(c), Chat(c, k))
                        /\ k > 1 => NotAfter(wire'[d], Chat(c, k - 1), Chat(c, k))
  BY DEF SessionOrder, Connected, Disconnected, Chat, NewSystemMessage, NewChatMessage, Ordinals
<1>0. /\ NoRepeats(wire[d])
      /\ \A m \in {Connected(c)} \cup {Chat(c, k) : k \in Ordinals} :
            NotAfter(wire[d], m, Disconnected(c))
      /\ \A k \in Ordinals :
          /\ NotAfter(wire[d], Connected(c), Chat(c, k))
          /\ k > 1 => NotAfter(wire[d], Chat(c, k - 1), Chat(c, k))
  BY DEF SessionOrder
<1>1. CASE wire'[d] = wire[d]
  BY <1>0, <1>1
<1>2. CASE wire'[d] # wire[d]
  <2>1. PICK b \in Conns : /\ Broadcasting(b) /\ ~Heard(wire[d], Current(b))
                           /\ wire'[d] = Append(wire[d], Current(b))
    BY <1>2, WireStep
  <2>2. /\ Current(b) \in Frame /\ Current(b).user = b /\ wire[d] \in Seq(Frame)
        /\ pc[b] = "connect" => Current(b) = Connected(b)
        /\ pc[b] = "chat" => Current(b) = Chat(b, said[b])
        /\ pc[b] = "disconnect" => Current(b) = Disconnected(b)
    BY <2>1, FrameTypes, CurrentFacts DEF TypeOK, Frame
  <2>3. /\ NoRepeats(wire'[d])
        /\ \A x, y : x # y /\ NotAfter(wire[d], x, y) /\ (Current(b) = x => ~Heard(wire[d], y)) =>
              NotAfter(wire'[d], x, y)
    BY <1>0, <2>1, <2>2, HeardAppend
  <2>4. /\ Connected(c).action = "connect" /\ Connected(c).user = c
        /\ Disconnected(c).action = "disconnect" /\ Disconnected(c).user = c
        /\ Disconnected(c) \in Frame
        /\ \A k \in Ordinals : /\ Chat(c, k).action = "chat" /\ Chat(c, k).user = c
                                /\ Chat(c, k).n = k /\ Chat(c, k) \in Frame
    BY DEF Connected, Disconnected, Chat, NewSystemMessage, NewChatMessage, Frame, Message
  <2>5. ASSUME Current(b) = Connected(c)
        PROVE  /\ ~Heard(wire[d], Disconnected(c))
               /\ \A k \in Ordinals : ~Heard(wire[d], Chat(c, k))
    <3>1. b = c /\ pc[c] = "connect"
      BY <2>1, <2>2, <2>4, <2>5 DEF Broadcasting, Connected, Disconnected, Chat,
                                    NewSystemMessage, NewChatMessage
    <3>2. said[c] = 0
      BY <3>1 DEF BegunOnly
    <3>3. ~Begun(Disconnected(c))
      BY <2>4, <3>1 DEF Begun
    <3>4. ASSUME NEW k \in Ordinals PROVE ~Begun(Chat(c, k))
      <4>1. k \in Nat /\ k >= 1
        BY PyAssumption DEF Ordinals
      <4>2. PICK m : m = Chat(c, k)
        OBVIOUS
      <4>3. m.action = "chat" /\ ~(m.n <= said[m.user])
        BY <2>4, <3>2, <4>1, <4>2
      <4> QED BY <4>2, <4>3 DEF Begun
    <3> QED BY <2>4, <3>3, <3>4 DEF BegunOnly
  <2>6. ASSUME NEW k \in Ordinals, Current(b) = Chat(c, k)
        PROVE  /\ ~Heard(wire[d], Disconnected(c))
               /\ k + 1 \in Ordinals => ~Heard(wire[d], Chat(c, k + 1))
    <3>1. b = c /\ pc[c] = "chat" /\ said[c] = k
      BY <2>1, <2>2, <2>4, <2>6 DEF Broadcasting, Connected, Disconnected, Chat,
                                    NewSystemMessage, NewChatMessage
    <3>2. ~Begun(Disconnected(c))
      BY <2>4, <3>1 DEF Begun
    <3>3. ASSUME k + 1 \in Ordinals PROVE ~Begun(Chat(c, k + 1))
      <4>1. k \in Nat /\ ~(k + 1 <= k)
        BY PyAssumption DEF Ordinals
      <4> QED BY <2>4, <3>1, <3>3, <4>1 DEF Begun
    <3> QED BY <2>4, <3>2, <3>3 DEF BegunOnly
  <2>7. \A k \in Ordinals :
          /\ Connected(c) # Disconnected(c) /\ Chat(c, k) # Disconnected(c)
          /\ Connected(c) # Chat(c, k)
          /\ k > 1 => k - 1 \in Ordinals /\ Chat(c, k - 1) # Chat(c, k) /\ (k - 1) + 1 = k
    <3>1. \A k \in Ordinals : k \in Nat /\ (k > 1 => k - 1 \in Ordinals /\ k - 1 # k /\ (k - 1) + 1 = k)
      BY PyAssumption DEF Ordinals
    <3> QED BY <2>4, <3>1
  <2>8. NotAfter(wire'[d], Connected(c), Disconnected(c))
    <3>1. Connected(c) # Disconnected(c)
      BY <2>4
    <3>2. NotAfter(wire[d], Connected(c), Disconnected(c))
      BY <1>0
    <3> QED BY <2>3, <2>5, <3>1, <3>2
  <2>9. ASSUME NEW k \in Ordinals
        PROVE  /\ NotAfter(wire'[d], Chat(c, k), Disconnected(c))
               /\ NotAfter(wire'[d], Connected(c), Chat(c, k))
               /\ k > 1 => NotAfter(wire'[d], Chat(c, k - 1), Chat(c, k))
    <3>1. NotAfter(wire'[d], Chat(c, k), Disconnected(c))
      BY <1>0, <2>3, <2>6, <2>7
    <3>2. NotAfter(wire'[d], Connected(c), Chat(c, k))
      BY <1>0, <2>3, <2>5, <2>7
    <3>3. ASSUME k > 1 PROVE NotAfter(wire'[d], Chat(c, k - 1), Chat(c, k))
      <4>1. /\ k - 1 \in Ordinals /\ Chat(c, k - 1) # Chat(c, k)
            /\ NotAfter(wire[d], Chat(c, k - 1), Chat(c, k))
            /\ (k - 1) + 1 = k
        BY <1>0, <2>7, <3>3
      <4>2. Current(b) = Chat(c, k - 1) => ~Heard(wire[d], Chat(c, k))
        BY <2>6, <4>1
      <4> QED BY <2>3, <4>1, <4>2
    <3> QED BY <3>1, <3>2, <3>3
  <2> QED BY <2>3, <2>8, <2>9
<1> QED BY <1>1, <1>2

\* What a user hears of another stays in the order of that other's session and nothing
\* comes twice, whatever the coroutines do to the list under a running iterator.
THEOREM SessionsInOrder == Spec => []SessionOrder
BY ListInit, ListStep, FirstInit, FirstStep, OrderInit, BegunStep, PendingStep, OrderStep,
   PTL DEF Spec

-----------------------------------------------------------------------------

(* Delivery *)

\* Those whose socket is closed.
ClosedOnes == {d \in Conns : Closed(d)}

\* As long as nobody was taken off the list, a broadcast has served everybody it has
\* passed, and has not passed the end.
Reached ==
    (\A e \in Conns : pc[e] # "done") =>
        \A c \in Conns : Broadcasting(c) =>
            /\ idx[c] <= Len(clients)
            /\ \A i \in DOMAIN clients : i <= idx[c] =>
                  clients[i] \in ClosedOnes \/ Heard(wire[clients[i]], Current(c))

\* At the start nothing is being broadcast.
LEMMA ReachedInit == Init => Reached
BY DEF Init, Reached, Broadcasting

\* A socket that is closed stays closed, and what was heard stays heard.
LEMMA ServedStays ==
    ASSUME TypeOK, NoGhosts, Untold, Pending, [Next]_vars, NEW d \in Conns
    PROVE  /\ d \in ClosedOnes => d \in ClosedOnes'
           /\ \A m : Heard(wire[d], m) => Heard(wire'[d], m)
           /\ pc[d] = "done" => pc'[d] = "done"
<1> USE DEF Goto
<1>0. pc \in [Conns -> {"start", "connect", "add", "loop", "chat", "disconnect", "done", "raised"}]
      /\ gone \in [Conns -> BOOLEAN] /\ wire \in [Conns -> Seq(Frame)]
  BY DEF TypeOK, Frame
<1>1. gone[d] => gone'[d]
  BY <1>0 DEF Next, HandlerStep, UserStep, Accept, ReceiveChat, ChatSent, ReceiveGarbage,
              ReceiveEnd, Unregister, PeerCloses, Add, SendNext, SendOwn, vars
<1>2. pc[d] \in {"done", "raised"} => pc'[d] = pc[d]
  <2>1. ASSUME NEW c \in Conns, HandlerStep(c) \/ UserStep(c)
        PROVE  pc[d] \in {"done", "raised"} => pc'[d] = pc[d]
    BY <1>0, <2>1 DEF HandlerStep, UserStep, Accept, ReceiveChat, ChatSent, ReceiveGarbage,
              ReceiveEnd, Unregister, PeerCloses, Add, SendNext, SendOwn
  <2> QED BY <2>1 DEF Next, vars
<1>3. ASSUME NEW m, Heard(wire[d], m) PROVE Heard(wire'[d], m)
  <2>1. CASE wire'[d] = wire[d]
    BY <1>3, <2>1
  <2>2. CASE wire'[d] # wire[d]
    <3>1. PICK c \in Conns : Broadcasting(c) /\ wire'[d] = Append(wire[d], Current(c))
      BY <2>2, WireStep
    <3> QED BY <1>0, <1>3, <3>1, FrameTypes, HeardAppend
  <2> QED BY <2>1, <2>2
<1> QED BY <1>1, <1>2, <1>3 DEF ClosedOnes, Closed

\* A round serves the next client, a newcomer comes behind everybody, and a new broadcast
\* has passed nobody.
LEMMA ReachedStep ==
    ASSUME TypeOK, NoGhosts, Untold, Pending, Reached, [Next]_vars
    PROVE  Reached'
<1> SUFFICES ASSUME \A e \in Conns : pc'[e] # "done", NEW c \in Conns, Broadcasting(c)'
             PROVE  /\ idx'[c] <= Len(clients')
                    /\ \A i \in DOMAIN clients' : i <= idx'[c] =>
                          clients'[i] \in ClosedOnes' \/ Heard(wire'[clients'[i]], Current(c)')
  BY DEF Reached
<1> USE DEF Goto, Begin
<1>0. /\ pc \in [Conns -> {"start", "connect", "add", "loop", "chat", "disconnect", "done",
                           "raised"}]
      /\ idx \in [Conns -> Nat] /\ clients \in Seq(Conns)
      /\ said \in [Conns -> 0..MaxChats] /\ wire \in [Conns -> Seq(Frame)]
  BY DEF TypeOK, Frame
<1>1. \A e \in Conns : pc[e] # "done"
  BY ServedStays
<1>2. ASSUME Broadcasting(c)
      PROVE  /\ idx[c] <= Len(clients)
             /\ \A i \in DOMAIN clients : i <= idx[c] =>
                   clients[i] \in ClosedOnes \/ Heard(wire[clients[i]], Current(c))
  BY <1>1, <1>2 DEF Reached
<1>3. ASSUME NEW d \in Conns, NEW m, d \in ClosedOnes \/ Heard(wire[d], m)
      PROVE  d \in ClosedOnes' \/ Heard(wire'[d], m)
  BY <1>3, ServedStays
<1>4. ASSUME Broadcasting(c), Current(c)' = Current(c), clients' = clients, idx'[c] = idx[c]
      PROVE  /\ idx'[c] <= Len(clients')
             /\ \A i \in DOMAIN clients' : i <= idx'[c] =>
                   clients'[i] \in ClosedOnes' \/ Heard(wire'[clients'[i]], Current(c)')
  <2>1. ASSUME NEW i \in DOMAIN clients, i <= idx[c]
        PROVE  clients[i] \in ClosedOnes' \/ Heard(wire'[clients[i]], Current(c))
    <3>1. clients[i] \in Conns /\ (clients[i] \in ClosedOnes \/ Heard(wire[clients[i]], Current(c)))
      BY <1>0, <1>2, <1>4, <2>1
    <3> QED BY <1>3, <3>1
  <2> QED BY <1>2, <1>4, <2>1
<1>5. ASSUME pc'[c] = pc[c], said'[c] = said[c]
      PROVE  Broadcasting(c) /\ Current(c)' = Current(c)
  BY <1>5 DEF Broadcasting, Current
<1> DEFINE Goal == /\ idx'[c] <= Len(clients')
                   /\ \A i \in DOMAIN clients' : i <= idx'[c] =>
                         clients'[i] \in ClosedOnes' \/ Heard(wire'[clients'[i]], Current(c)')
<1>6. ASSUME NEW b \in Conns, SendNext(b) PROVE Goal
  <2>1. /\ UNCHANGED <<pc, said, clients, gone>> /\ idx' = [idx EXCEPT ![b] = idx[b] + 1]
        /\ idx[b] < Len(clients)
    BY <1>0, <1>6 DEF SendNext
  <2>2. Broadcasting(c) /\ Current(c)' = Current(c)
    BY <1>5, <2>1
  <2>3. CASE c # b
    BY <1>0, <1>4, <2>1, <2>2, <2>3
  <2>4. CASE c = b
    <3> DEFINE d == clients[idx[c] + 1]
    <3>1. d \in Conns /\ idx'[c] = idx[c] + 1 /\ idx[c] \in Nat /\ Len(clients) \in Nat
      BY <1>0, <1>6, <2>1, <2>4, SendNextTo
    <3>2. d \in ClosedOnes' \/ Heard(wire'[d], Current(c))
      <4>1. CASE Closed(d)
        BY <1>3, <3>1, <4>1 DEF ClosedOnes
      <4>2. CASE ~Closed(d)
        <5>1. wire'[d] = Append(wire[d], Current(c))
          BY <1>6, <2>4, <4>2, SendNextTo
        <5> HIDE DEF d
        <5> QED BY <1>0, <2>2, <3>1, <5>1, FrameTypes, HeardAppend
      <4> QED BY <4>1, <4>2
    <3>3. ASSUME NEW i \in DOMAIN clients, i <= idx[c] + 1
          PROVE  clients[i] \in ClosedOnes' \/ Heard(wire'[clients[i]], Current(c))
      <4>1. CASE i = idx[c] + 1
        BY <3>2, <4>1
      <4>2. CASE i <= idx[c]
        <5>1. clients[i] \in Conns /\ (clients[i] \in ClosedOnes \/ Heard(wire[clients[i]], Current(c)))
          BY <1>0, <1>2, <2>2, <3>3, <4>2
        <5> QED BY <1>3, <5>1
      <4>3. i \in Nat
        BY <1>0
      <4> QED BY <3>1, <3>3, <4>1, <4>2, <4>3
    <3>4. idx'[c] <= Len(clients')
      BY <2>1, <2>4, <3>1
    <3> HIDE DEF d
    <3> QED BY <2>1, <2>2, <3>1, <3>3, <3>4
  <2> QED BY <2>3, <2>4
<1>7. ASSUME NEW b \in Conns, SendOwn(b) \/ ChatSent(b) \/ ReceiveGarbage(b) PROVE Goal
  <2>1. /\ UNCHANGED <<said, clients, idx>> /\ pc'[b] \in {"raised", "add", "loop"}
        /\ \A d \in Conns : d # b => pc'[d] = pc[d]
    BY <1>0, <1>7 DEF SendOwn, ChatSent, ReceiveGarbage
  <2>2. c # b
    BY <2>1 DEF Broadcasting
  <2> QED BY <1>4, <1>5, <2>1, <2>2
<1>8. ASSUME NEW b \in Conns, Add(b) PROVE Goal
  <2>1. /\ UNCHANGED <<said, wire, idx>> /\ pc'[b] = "loop"
        /\ \A d \in Conns : d # b => pc'[d] = pc[d]
        /\ clients' = Append(clients, b)
    BY <1>0, <1>8 DEF Add
  <2>2. c # b
    BY <2>1 DEF Broadcasting
  <2>3. Broadcasting(c) /\ Current(c)' = Current(c)
    BY <1>5, <2>1, <2>2
  <2>4. /\ Len(clients') = Len(clients) + 1 /\ Len(clients) \in Nat /\ idx[c] \in Nat
        /\ \A i \in 1..Len(clients) : clients'[i] = clients[i]
        /\ DOMAIN clients = 1..Len(clients) /\ DOMAIN clients' = 1..(Len(clients) + 1)
    BY <1>0, <2>1, AppendSeq
  <2>5. idx[c] <= Len(clients)
    BY <1>2, <2>3
  <2>6. ASSUME NEW i \in DOMAIN clients', i <= idx[c]
        PROVE  clients'[i] \in ClosedOnes' \/ Heard(wire'[clients'[i]], Current(c))
    <3>1. i \in DOMAIN clients /\ clients'[i] = clients[i]
      BY <2>4, <2>5, <2>6
    <3>2. clients[i] \in Conns /\ (clients[i] \in ClosedOnes \/ Heard(wire[clients[i]], Current(c)))
      BY <1>0, <1>2, <2>3, <2>6, <3>1
    <3> QED BY <1>3, <3>1, <3>2
  <2> QED BY <2>1, <2>3, <2>4, <2>5, <2>6
<1>9. ASSUME NEW b \in Conns, Unregister(b) PROVE FALSE
  BY <1>0, <1>9 DEF Unregister
<1>10. ASSUME NEW b \in Conns, Accept(b) \/ ReceiveChat(b) \/ ReceiveEnd(b) PROVE Goal
  <2>1. /\ UNCHANGED <<wire, clients>> /\ idx'[b] = 0
        /\ \A d \in Conns : d # b => pc'[d] = pc[d] /\ said'[d] = said[d] /\ idx'[d] = idx[d]
    BY <1>0, <1>10 DEF Accept, ReceiveChat, ReceiveEnd
  <2>2. CASE c # b
    BY <1>4, <1>5, <2>1, <2>2
  <2>3. CASE c = b
    <3>1. Len(clients') \in Nat /\ \A i \in DOMAIN clients' : ~(i <= 0)
      BY <1>0, <2>1
    <3>2. 0 <= Len(clients')
      BY <3>1
    <3> QED BY <2>1, <2>3, <3>1, <3>2
  <2> QED BY <2>2, <2>3
<1>11. ASSUME UNCHANGED vars \/ \E b \in Conns : PeerCloses(b) PROVE Goal
  <2>1. UNCHANGED <<clients, said, idx, pc>>
    BY <1>11 DEF vars, PeerCloses
  <2> QED BY <1>4, <1>5, <2>1
<1> QED BY <1>6, <1>7, <1>8, <1>9, <1>10, <1>11 DEF Next, HandlerStep, UserStep

\* Until somebody is taken off the list, a broadcast that has reached its end has been
\* sent to everybody on it who could be reached.
THEOREM BroadcastsReach == Spec => []Delivered
<1>1. TypeOK /\ Reached => Delivered
  <2> SUFFICES ASSUME TypeOK, Reached, \A e \in Conns : pc[e] # "done",
                      NEW c \in Conns, Broadcasting(c), Exhausted(c), NEW d \in Range(clients)
               PROVE  Closed(d) \/ Heard(wire[d], Current(c))
    BY DEF Delivered
  <2>1. PICK i \in DOMAIN clients : clients[i] = d
    BY DEF Range
  <2>2. i <= idx[c]
    BY <2>1 DEF Exhausted, TypeOK
  <2> QED BY <2>1, <2>2 DEF Reached, ClosedOnes
<1> QED BY ListInit, ListStep, FirstInit, FirstStep, OrderInit, BegunStep, PendingStep,
           ReachedInit, ReachedStep, <1>1, PTL DEF Spec

-----------------------------------------------------------------------------
=============================================================================
