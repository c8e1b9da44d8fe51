-------------------------- MODULE RustServerProofs --------------------------
(***************************************************************************)
(* The actix server implements the atomic room, for any number of          *)
(* connections, chats and malformed messages.                              *)
(***************************************************************************)
EXTENDS RustServer, TLAPS

\* A chat in the mailbox has contents, and who runs or is registered has started.
Chats == \A i \in DOMAIN mbox : mbox[i].type = "Message" => mbox[i].n \in Texts

Registered ==
    \A c \in Conns :
        /\ conn[c] = "running" => c \in clients \/ Mailed("Connect", c)
        /\ c \in clients => conn[c] # "new"

-----------------------------------------------------------------------------
(* Mailboxes *)

\* What a mailbox holds after one more message.
LEMMA AppendMail ==
    ASSUME NEW S, NEW s \in Seq(S), NEW x \in S
    PROVE  /\ Append(s, x) \in Seq(S)
           /\ DOMAIN Append(s, x) = DOMAIN s \cup {Len(s) + 1}
           /\ \A i \in DOMAIN s : Append(s, x)[i] = s[i] /\ i \in Nat /\ i < Len(s) + 1
           /\ Append(s, x)[Len(s) + 1] = x
           /\ Len(s) \in Nat
<1>1. DOMAIN s = 1..Len(s) /\ Len(s) \in Nat
  OBVIOUS
<1>2. /\ Append(s, x) \in Seq(S)
      /\ DOMAIN Append(s, x) = 1..(Len(s) + 1)
      /\ \A i \in 1..Len(s) : Append(s, x)[i] = s[i]
      /\ Append(s, x)[Len(s) + 1] = x
  OBVIOUS
<1>3. \A n \in Nat : 1..(n + 1) = 1..n \cup {n + 1} /\ \A i \in 1..n : i \in Nat /\ i < n + 1
  OBVIOUS
<1> QED BY <1>1, <1>2, <1>3

\* What a mailbox holds once its head is taken.
LEMMA TailMail ==
    ASSUME NEW S, NEW s \in Seq(S), s # <<>>
    PROVE  /\ Tail(s) \in Seq(S)
           /\ Head(s) = s[1] /\ 1 \in DOMAIN s
           /\ \A i \in DOMAIN Tail(s) :
                 i \in Nat /\ i + 1 \in DOMAIN s /\ i + 1 # 1 /\ 1 < i + 1
                 /\ Tail(s)[i] = s[i + 1]
           /\ \A i \in DOMAIN s :
                 i \in Nat /\ ~(i < 1)
                 /\ (i # 1 => i - 1 \in DOMAIN Tail(s) /\ Tail(s)[i - 1] = s[i])
<1>1. /\ DOMAIN s = 1..Len(s) /\ Len(s) \in Nat /\ Len(s) >= 1
      /\ Tail(s) \in Seq(S) /\ Len(Tail(s)) = Len(s) - 1
      /\ DOMAIN Tail(s) = 1..(Len(s) - 1)
      /\ \A i \in 1..(Len(s) - 1) : Tail(s)[i] = s[i + 1]
      /\ Head(s) = s[1]
  OBVIOUS
<1>2. \A n \in Nat : n >= 1 =>
        /\ 1 \in 1..n
        /\ \A i \in 1..(n - 1) : i \in Nat /\ i + 1 \in 1..n /\ i + 1 # 1 /\ 1 < i + 1
        /\ \A i \in 1..n : i \in Nat /\ ~(i < 1)
                           /\ (i # 1 => i - 1 \in 1..(n - 1) /\ (i - 1) + 1 = i)
  OBVIOUS
<1> QED BY <1>1, <1>2
-----------------------------------------------------------------------------
(* Type correctness *)

\* What as_str, new_system and new_chat make is a frame of the wire.
LEMMA MessageTypes ==
    \A c \in Conns :
        /\ \A a \in WireActions : SysMsg(a, c) \in Message(WireActions, Conns, Texts)
        /\ \A n \in {0} \cup Texts : ChatMsg(c, n) \in Message(WireActions, Conns, Texts)
BY DEF SysMsg, ChatMsg, Message, NewSystemMessage, NewChatMessage, WireActions

\* The server starts well typed.
LEMMA TypeInit == Init => TypeOK
BY BoundsAssumption DEF Init, TypeOK

\* A broadcast only appends: it keeps the type and shortens no mailbox.
LEMMA BroadcastType ==
    ASSUME TypeOK, NEW S, NEW m \in Message(WireActions, Conns, Texts), BroadcastText(S, m)
    PROVE  /\ sent' \in [Conns -> Seq(Message(WireActions, Conns, Texts))]
           /\ \A c \in Conns : pos[c] <= Len(sent'[c])
<1> DEFINE M == Message(WireActions, Conns, Texts)
<1>1. \A s \in Seq(M) : Append(s, m) \in Seq(M) /\ Len(Append(s, m)) = Len(s) + 1 /\ Len(s) \in Nat
  OBVIOUS
<1> HIDE DEF M
<1>2. \A c \in Conns : sent'[c] = sent[c] \/ sent'[c] = Append(sent[c], m)
  BY DEF BroadcastText
<1>3. \A c \in Conns : sent[c] \in Seq(M) /\ pos[c] \in Nat /\ pos[c] <= Len(sent[c])
  BY DEF TypeOK, M
<1>4. \A c \in Conns : pos[c] <= Len(sent'[c])
  BY <1>1, <1>2, <1>3
<1>5. sent' \in [Conns -> Seq(M)]
  BY <1>1, <1>2, <1>3 DEF BroadcastText
<1> QED BY <1>4, <1>5 DEF M

\* No handler takes the state out of its type.
LEMMA TypeStep == TypeOK /\ [Next]_vars => TypeOK'
<1> SUFFICES ASSUME TypeOK, [Next]_vars PROVE TypeOK'
  OBVIOUS
<1> DEFINE M == Message(WireActions, Conns, Texts)
<1>1. \A type \in {"Connect", "Message", "Disconnect"}, c \in Conns, n \in {0} \cup Texts :
        DoSend(type, c, n) => mbox' \in Seq(ServerMsg)
  BY DEF DoSend, ServerMsg, TypeOK
<1>2. \A type, c : Receives(type, c) => mbox' \in Seq(ServerMsg) /\ Head(mbox) \in ServerMsg
  BY DEF Receives, TypeOK
<1>3. ASSUME NEW c \in Conns, Started(c) PROVE TypeOK'
  BY <1>1, <1>3 DEF Started, TypeOK
<1>4. ASSUME NEW c \in Conns, HandleText(c) PROVE TypeOK'
  <2>1. said[c] + 1 \in Texts /\ said' \in [Conns -> 0..MaxChats]
    BY <1>4, BoundsAssumption DEF HandleText, TypeOK, Texts
  <2> QED BY <1>1, <1>4, <2>1 DEF HandleText, TypeOK
<1>5. ASSUME NEW c \in Conns, HandleBadText(c) PROVE TypeOK'
  <2>1. SysMsg(as_str.Error, c) \in M
    BY MessageTypes DEF WireActions
  <2>2. bad' \in [Conns -> 0..MaxBad]
    BY <1>5, BoundsAssumption DEF HandleBadText, TypeOK
  <2> HIDE DEF M
  <2>3. wire' \in [Conns -> Seq(M)]
    BY <1>5, <2>1 DEF HandleBadText, TypeOK, M
  <2> QED BY <1>5, <2>2, <2>3 DEF HandleBadText, TypeOK, M
<1>6. ASSUME NEW c \in Conns, HandleStop(c) PROVE TypeOK'
  BY <1>1, <1>6 DEF HandleStop, TypeOK
<1>7. ASSUME NEW c \in Conns, HandleSerMsg(c) PROVE TypeOK'
  <2> HIDE DEF M
  <2>1. sent[c] \in Seq(M) /\ pos[c] \in Nat /\ pos[c] < Len(sent[c])
    BY <1>7 DEF HandleSerMsg, TypeOK, M
  <2>2. sent[c][pos[c] + 1] \in M
    BY <2>1
  <2>3. wire' \in [Conns -> Seq(M)]
    BY <1>7, <2>2 DEF HandleSerMsg, TypeOK, M
  <2>4. pos' \in [Conns -> Nat] /\ \A d \in Conns : pos'[d] <= Len(sent[d])
    BY <1>7, <2>1 DEF HandleSerMsg, TypeOK
  <2> QED BY <1>7, <2>3, <2>4 DEF HandleSerMsg, TypeOK, M
<1>8. ASSUME NEW c \in Conns, HandleConnect(c) PROVE TypeOK'
  <2>1. SysMsg(as_str.Connect, c) \in M
    BY MessageTypes DEF WireActions
  <2> QED BY <1>2, <1>8, <2>1, BroadcastType DEF HandleConnect, TypeOK
<1>9. ASSUME NEW c \in Conns, HandleMessage(c) PROVE TypeOK'
  <2>1. Head(mbox).n \in {0} \cup Texts
    BY <1>2, <1>9 DEF HandleMessage, ServerMsg
  <2>2. ChatMsg(c, Head(mbox).n) \in M
    BY <2>1, MessageTypes
  <2> QED BY <1>2, <1>9, <2>2, BroadcastType DEF HandleMessage, TypeOK
<1>10. ASSUME NEW c \in Conns, HandleDisconnect(c) PROVE TypeOK'
  <2>1. SysMsg(as_str.Disconnect, c) \in M
    BY MessageTypes DEF WireActions
  <2> QED BY <1>2, <1>10, <2>1, BroadcastType DEF HandleDisconnect, TypeOK
<1>11. CASE UNCHANGED vars
  BY <1>11 DEF vars, TypeOK
<1> QED BY <1>3, <1>4, <1>5, <1>6, <1>7, <1>8, <1>9, <1>10, <1>11
        DEF Next, UserStep, ServerStep
-----------------------------------------------------------------------------
(* The mailbox *)

\* The refinement needs to know, when the Server handles a chat or a Disconnect,
\* that its sender is registered, and when it handles a Disconnect, that nothing of
\* that sender is left behind: facts about the mailbox.
MailInv == MailOrder /\ MailSender /\ Chats /\ Registered /\ NoGhosts

\* The mailbox starts empty, with no connection made.
LEMMA MailInit == Init => MailInv
BY DEF Init, MailInv, MailOrder, MailSender, Chats, Registered, NoGhosts, Mailed

\* A step of a Conn puts one message at the end of the mailbox.
LEMMA UserMail ==
    ASSUME TypeOK, MailInv, NEW c \in Conns, Started(c) \/ HandleText(c) \/ HandleStop(c)
    PROVE  MailInv'
<1> DEFINE L == Len(mbox) + 1
<1>1. PICK x \in ServerMsg :
        /\ mbox' = Append(mbox, x)
        /\ x.uuid = c
        /\ clients' = clients
        /\ \/ /\ x.type = "Connect" /\ conn[c] = "new"
              /\ conn' = [conn EXCEPT ![c] = "running"]
           \/ x.type = "Message" /\ conn[c] = "running" /\ conn' = conn /\ x.n \in Texts
           \/ /\ x.type = "Disconnect" /\ conn[c] = "running"
              /\ conn' = [conn EXCEPT ![c] = "stopped"]
  <2>1. CASE Started(c)
    BY <2>1 DEF Started, DoSend, ServerMsg
  <2>2. CASE HandleText(c)
    <3>1. said[c] + 1 \in Texts
      BY <2>2, BoundsAssumption DEF HandleText, TypeOK, Texts
    <3> QED BY <2>2, <3>1 DEF HandleText, DoSend, ServerMsg
  <2>3. CASE HandleStop(c)
    BY <2>3 DEF HandleStop, DoSend, ServerMsg
  <2> QED BY <2>1, <2>2, <2>3
<1>2. /\ mbox \in Seq(ServerMsg) /\ conn \in [Conns -> {"new", "running", "stopped"}]
      /\ \A i \in DOMAIN mbox : mbox[i].uuid \in Conns
  <2>1. mbox \in Seq(ServerMsg) /\ conn \in [Conns -> {"new", "running", "stopped"}]
    BY DEF TypeOK
  <2>2. \A i \in DOMAIN mbox : mbox[i] \in ServerMsg
    BY <2>1
  <2> QED BY <2>1, <2>2 DEF ServerMsg
<1>3. /\ DOMAIN mbox' = DOMAIN mbox \cup {L}
      /\ \A i \in DOMAIN mbox : mbox'[i] = mbox[i] /\ i \in Nat /\ i < L
      /\ mbox'[L] = x
      /\ L \in Nat /\ ~(L < L)
  <2>1. x \in ServerMsg /\ mbox \in Seq(ServerMsg) /\ mbox' = Append(mbox, x)
    BY <1>1, <1>2
  <2>2. /\ DOMAIN Append(mbox, x) = DOMAIN mbox \cup {L}
        /\ \A i \in DOMAIN mbox : Append(mbox, x)[i] = mbox[i] /\ i \in Nat /\ i < L
        /\ Append(mbox, x)[L] = x
        /\ Len(mbox) \in Nat
    BY <2>1, AppendMail
  <2> QED BY <2>1, <2>2
<1> HIDE DEF L
<1>4. ASSUME NEW type, NEW d
      PROVE  Mailed(type, d)' <=> Mailed(type, d) \/ (x.type = type /\ d = c)
  <2>1. Mailed(type, d)' <=> \E i \in DOMAIN mbox' : mbox'[i].type = type /\ mbox'[i].uuid = d
    BY DEF Mailed
  <2> QED BY <2>1, <1>1, <1>3 DEF Mailed
<1>5. \A i \in DOMAIN mbox : mbox[i].uuid = c =>
        conn[c] # "new" /\ mbox[i].type # "Disconnect"
  BY <1>1 DEF MailInv, MailSender
<1>6. MailOrder'
  BY <1>1, <1>3, <1>5 DEF MailInv, MailOrder
<1>7. MailSender'
  <2> SUFFICES ASSUME NEW i \in DOMAIN mbox'
               PROVE  /\ conn'[mbox'[i].uuid] # "new"
                      /\ mbox'[i].type = "Disconnect" => conn'[mbox'[i].uuid] = "stopped"
                      /\ mbox'[i].type = "Connect" => mbox'[i].uuid \notin clients'
                      /\ mbox'[i].type # "Connect" =>
                           \/ mbox'[i].uuid \in clients'
                           \/ \E j \in DOMAIN mbox' : /\ j < i
                                                      /\ mbox'[j].type = "Connect"
                                                      /\ mbox'[j].uuid = mbox'[i].uuid
    BY DEF MailSender
  <2>1. CASE i \in DOMAIN mbox
    BY <2>1, <1>1, <1>2, <1>3 DEF MailInv, MailSender
  <2>2. CASE i = L
    <3>1. c \in clients => conn[c] # "new"
      BY DEF MailInv, Registered
    <3>2. conn[c] = "running" => c \in clients \/ \E j \in DOMAIN mbox : mbox[j].type = "Connect" /\ mbox[j].uuid = c
      BY DEF MailInv, Registered, Mailed
    <3> QED BY <2>2, <3>1, <3>2, <1>1, <1>2, <1>3
  <2> QED BY <2>1, <2>2, <1>3
<1>8. Chats'
  BY <1>1, <1>3 DEF MailInv, Chats
<1>9. Registered'
  BY <1>1, <1>2, <1>4 DEF MailInv, Registered
<1>10. NoGhosts'
  BY <1>1, <1>2, <1>4 DEF MailInv, NoGhosts
<1> QED BY <1>6, <1>7, <1>8, <1>9, <1>10 DEF MailInv

\* A step of the Server takes the head of the mailbox.
LEMMA ServerMail ==
    ASSUME TypeOK, MailInv, NEW c \in Conns, ServerStep(c)
    PROVE  MailInv'
<1> DEFINE h == Head(mbox)
<1>1. /\ mbox # <<>> /\ mbox' = Tail(mbox) /\ conn' = conn /\ h.uuid = c
      /\ \/ h.type = "Connect" /\ clients' = clients \cup {c}
         \/ h.type = "Message" /\ clients' = clients
         \/ h.type = "Disconnect" /\ clients' = clients \ {c}
  BY DEF ServerStep, HandleConnect, HandleMessage, HandleDisconnect, Receives
<1>2. mbox \in Seq(ServerMsg)
  BY DEF TypeOK
<1>3. /\ h = mbox[1] /\ 1 \in DOMAIN mbox
      /\ \A i \in DOMAIN mbox' :
            i \in Nat /\ i + 1 \in DOMAIN mbox /\ 1 < i + 1 /\ mbox'[i] = mbox[i + 1]
      /\ \A i \in DOMAIN mbox :
            i \in Nat /\ ~(i < 1)
            /\ (i # 1 => i - 1 \in DOMAIN mbox' /\ mbox'[i - 1] = mbox[i])
  BY <1>1, <1>2, TailMail
<1> HIDE DEF h
<1>4. ASSUME NEW type, NEW d
      PROVE  /\ Mailed(type, d)' => Mailed(type, d)
             /\ Mailed(type, d) => Mailed(type, d)' \/ (h.type = type /\ d = c)
  <2>1. Mailed(type, d)' <=> \E i \in DOMAIN mbox' : mbox'[i].type = type /\ mbox'[i].uuid = d
    BY DEF Mailed
  <2>2. Mailed(type, d)' => Mailed(type, d)
    BY <2>1, <1>3 DEF Mailed
  <2>3. ASSUME Mailed(type, d), ~(h.type = type /\ d = c)
        PROVE  Mailed(type, d)'
    <3>1. PICK i \in DOMAIN mbox : mbox[i].type = type /\ mbox[i].uuid = d
      BY <2>3 DEF Mailed
    <3>2. i # 1
      BY <2>3, <3>1, <1>1, <1>3
    <3> QED BY <2>1, <3>1, <3>2, <1>3
  <2> QED BY <2>2, <2>3
<1>5. /\ h.type = "Disconnect" => conn[c] = "stopped"
      /\ h.type = "Connect" => c \notin clients
      /\ h.type # "Connect" => c \in clients
      /\ conn[c] # "new"
  BY <1>1, <1>3 DEF MailInv, MailSender
<1>6. \A i \in DOMAIN mbox' : mbox'[i].uuid = c =>
        mbox'[i].type # "Connect" /\ h.type # "Disconnect"
  BY <1>1, <1>3 DEF MailInv, MailOrder
<1>7. MailOrder'
  <2> SUFFICES ASSUME NEW i \in DOMAIN mbox', NEW j \in DOMAIN mbox', i < j,
                      mbox'[i].uuid = mbox'[j].uuid
               PROVE  mbox'[j].type # "Connect" /\ mbox'[i].type # "Disconnect"
    BY DEF MailOrder
  <2>1. i + 1 < j + 1
    BY <1>3
  <2> QED BY <2>1, <1>3 DEF MailInv, MailOrder
<1>8. MailSender'
  <2> SUFFICES ASSUME NEW i \in DOMAIN mbox'
               PROVE  /\ conn'[mbox'[i].uuid] # "new"
                      /\ mbox'[i].type = "Disconnect" => conn'[mbox'[i].uuid] = "stopped"
                      /\ mbox'[i].type = "Connect" => mbox'[i].uuid \notin clients'
                      /\ mbox'[i].type # "Connect" =>
                           \/ mbox'[i].uuid \in clients'
                           \/ \E j \in DOMAIN mbox' : /\ j < i
                                                      /\ mbox'[j].type = "Connect"
                                                      /\ mbox'[j].uuid = mbox'[i].uuid
    BY DEF MailSender
  <2>1. i + 1 \in DOMAIN mbox /\ mbox'[i] = mbox[i + 1] /\ i \in Nat
    BY <1>3
  <2>2. /\ conn'[mbox'[i].uuid] # "new"
        /\ mbox'[i].type = "Disconnect" => conn'[mbox'[i].uuid] = "stopped"
    BY <1>1, <2>1 DEF MailInv, MailSender
  <2>3. mbox'[i].type = "Connect" => mbox'[i].uuid \notin clients'
    BY <1>1, <1>6, <2>1 DEF MailInv, MailSender
  <2>4. ASSUME mbox'[i].type # "Connect"
        PROVE  \/ mbox'[i].uuid \in clients'
               \/ \E j \in DOMAIN mbox' : /\ j < i
                                          /\ mbox'[j].type = "Connect"
                                          /\ mbox'[j].uuid = mbox'[i].uuid
    <3>1. CASE mbox'[i].uuid \in clients
      BY <3>1, <1>1, <1>6
    <3>2. CASE mbox'[i].uuid \notin clients
      <4>1. PICK k \in DOMAIN mbox : /\ k < i + 1 /\ mbox[k].type = "Connect"
                                     /\ mbox[k].uuid = mbox'[i].uuid
        BY <3>2, <2>1, <2>4 DEF MailInv, MailSender
      <4>2. CASE k = 1
        BY <4>1, <4>2, <1>1, <1>3
      <4>3. CASE k # 1
        <5>1. k - 1 \in DOMAIN mbox' /\ mbox'[k - 1] = mbox[k] /\ k \in Nat
          BY <4>3, <1>3
        <5>2. k - 1 < i
          BY <5>1, <4>1, <2>1
        <5> QED BY <5>1, <5>2, <4>1
      <4> QED BY <4>2, <4>3
    <3> QED BY <3>1, <3>2
  <2> QED BY <2>2, <2>3, <2>4
<1>9. Chats'
  BY <1>3 DEF MailInv, Chats
<1>10. Registered'
  BY <1>1, <1>4, <1>5 DEF MailInv, Registered
<1>11. NoGhosts'
  <2>1. ~Mailed("Connect", c)' /\ Mailed(h.type, c)
    BY <1>1, <1>3, <1>6 DEF Mailed
  <2> SUFFICES ASSUME NEW d \in Conns, conn[d] = "stopped", d \in clients' \/ Mailed("Connect", d)'
               PROVE  Mailed("Disconnect", d)'
    BY <1>1 DEF NoGhosts
  <2>2. d \in clients \/ Mailed("Connect", d)
    BY <2>1, <1>1, <1>4
  <2>3. Mailed("Disconnect", d)
    BY <2>2 DEF MailInv, NoGhosts
  <2> QED BY <2>1, <2>3, <1>1, <1>4
<1> QED BY <1>7, <1>8, <1>9, <1>10, <1>11 DEF MailInv

\* No handler of a Conn or of the Server breaks the sessions in the mailbox.
LEMMA MailStep == TypeOK /\ MailInv /\ [Next]_vars => MailInv'
<1> SUFFICES ASSUME TypeOK, MailInv, [Next]_vars PROVE MailInv'
  OBVIOUS
<1>1. ASSUME UNCHANGED <<conn, mbox, clients>> PROVE MailInv'
  BY <1>1 DEF MailInv, MailOrder, MailSender, Chats, Registered, NoGhosts, Mailed
<1>2. ASSUME NEW c \in Conns, HandleBadText(c) \/ HandleSerMsg(c) PROVE MailInv'
  BY <1>1, <1>2 DEF HandleBadText, HandleSerMsg
<1>3. CASE UNCHANGED vars
  BY <1>1, <1>3 DEF vars
<1> QED BY <1>2, <1>3, UserMail, ServerMail DEF Next, UserStep
-----------------------------------------------------------------------------
(* The refinement *)

\* The same substitution as Room, to cite what is proved of the room.
RoomP == INSTANCE ChatRoomProofs WITH
            Users <- Conns, ActionStr <- as_str, members <- clients, inbox <- sent,
            up <- {c \in Conns : conn[c] # "stopped"},
            left <- {c \in Conns : conn[c] = "stopped" /\ c \notin clients /\ ~Pending(c)}

Up == {c \in Conns : conn[c] # "stopped"}
Left == {c \in Conns : conn[c] = "stopped" /\ c \notin clients /\ ~Pending(c)}

\* Every variable stays in its type, whatever the number of connections and messages.
THEOREM TypeCorrect == Spec => []TypeOK
BY TypeInit, TypeStep, PTL DEF Spec

\* What the mailbox of the Server holds from each connection is a piece of one
\* session, and no connection that stopped is forgotten in the registry.
THEOREM MailboxSafe == Spec => [](MailboxSessions /\ NoGhosts)
<1>1. MailInv => MailboxSessions /\ NoGhosts
  BY DEF MailInv, MailboxSessions
<1> QED BY TypeInit, TypeStep, MailInit, MailStep, <1>1, PTL DEF Spec

\* The server starts as an empty room.
LEMMA RefineInit == Init => Room!Init
BY DEF Init, Room!Init, Pending

\* A Conn's message leaves what the others have in the mailbox alone.
LEMMA UserPending ==
    ASSUME TypeOK, NEW type \in {"Connect", "Message", "Disconnect"}, NEW c \in Conns,
           NEW n \in {0} \cup Texts, DoSend(type, c, n), NEW d
    PROVE  Pending(d)' <=> Pending(d) \/ d = c
<1> DEFINE x == [type |-> type, uuid |-> c, n |-> n]
<1>1. mbox' = Append(mbox, x) /\ x.uuid = c
  BY DEF DoSend
<1>2. x \in ServerMsg /\ mbox \in Seq(ServerMsg)
  BY DEF TypeOK, ServerMsg
<1> HIDE DEF x
<1>3. /\ DOMAIN mbox' = DOMAIN mbox \cup {Len(mbox) + 1}
      /\ \A i \in DOMAIN mbox : mbox'[i] = mbox[i]
      /\ mbox'[Len(mbox) + 1] = x
  BY <1>1, <1>2, AppendMail
<1>4. Pending(d)' <=> \E i \in DOMAIN mbox' : mbox'[i].uuid = d
  BY DEF Pending
<1> QED BY <1>1, <1>3, <1>4 DEF Pending

\* So does the Server when it takes c's message; c had one, and after its Disconnect
\* has none.
LEMMA ServerPending ==
    ASSUME TypeOK, MailInv, NEW c \in Conns, NEW type, Receives(type, c)
    PROVE  /\ Pending(c)
           /\ type = "Disconnect" => ~Pending(c)'
           /\ \A d \in Conns \ {c} : Pending(d)' <=> Pending(d)
<1>1. mbox # <<>> /\ mbox' = Tail(mbox) /\ Head(mbox).uuid = c /\ Head(mbox).type = type
  BY DEF Receives
<1>2. mbox \in Seq(ServerMsg)
  BY DEF TypeOK
<1>3. /\ Head(mbox) = mbox[1] /\ 1 \in DOMAIN mbox
      /\ \A i \in DOMAIN mbox' :
            i + 1 \in DOMAIN mbox /\ 1 < i + 1 /\ mbox'[i] = mbox[i + 1]
      /\ \A i \in DOMAIN mbox :
            i # 1 => i - 1 \in DOMAIN mbox' /\ mbox'[i - 1] = mbox[i]
  BY <1>1, <1>2, TailMail
<1>4. Pending(c)
  BY <1>1, <1>3 DEF Pending
<1>5. type = "Disconnect" => ~Pending(c)'
  BY <1>1, <1>3 DEF Pending, MailInv, MailOrder
<1>6. ASSUME NEW d \in Conns \ {c}
      PROVE  Pending(d)' <=> Pending(d)
  <2>1. Pending(d)' => Pending(d)
    BY <1>3 DEF Pending
  <2>2. ASSUME Pending(d) PROVE Pending(d)'
    <3>1. PICK i \in DOMAIN mbox : mbox[i].uuid = d
      BY <2>2 DEF Pending
    <3>2. i # 1
      BY <3>1, <1>1, <1>3
    <3> QED BY <3>1, <3>2, <1>3 DEF Pending
  <2> QED BY <2>1, <2>2
<1> QED BY <1>4, <1>5, <1>6

\* A broadcast of the server is a post of the room.
LEMMA BroadcastIsPost ==
    ASSUME NEW S, NEW m, BroadcastText(S, m)
    PROVE  Room!Post(S, m)
BY DEF BroadcastText, Room!Post

\* Every handler is a step of the room, or none.
LEMMA RefineStep == TypeOK /\ MailInv /\ [Next]_vars => [Room!Next]_(Room!vars)
<1> SUFFICES ASSUME TypeOK, MailInv, [Next]_vars PROVE [Room!Next]_(Room!vars)
  OBVIOUS
<1> USE DEF Room!vars
<1>1. conn \in [Conns -> {"new", "running", "stopped"}] /\ clients \subseteq Conns
  BY DEF TypeOK
<1>2. ASSUME NEW c \in Conns, Started(c) PROVE UNCHANGED Room!vars
  <2>1. \A d \in Conns : Pending(d)' <=> Pending(d) \/ d = c
    BY <1>2, UserPending DEF Started
  <2>2. Up' = Up /\ Left' = Left
    BY <1>1, <1>2, <2>1 DEF Started, Up, Left
  <2> QED BY <1>2, <2>2 DEF Started, Up, Left
<1>3. ASSUME NEW c \in Conns, HandleText(c) PROVE UNCHANGED Room!vars
  <2>1. said[c] + 1 \in Texts
    BY <1>3, BoundsAssumption DEF HandleText, TypeOK, Texts
  <2>2. \A d \in Conns : Pending(d)' <=> Pending(d) \/ d = c
    BY <1>3, <2>1, UserPending DEF HandleText
  <2>3. Up' = Up /\ Left' = Left
    BY <1>1, <1>3, <2>2 DEF HandleText, Up, Left
  <2> QED BY <1>3, <2>3 DEF HandleText, Up, Left
<1>4. ASSUME NEW c \in Conns, HandleStop(c) PROVE Room!Hangup(c)
  <2>1. \A d \in Conns : Pending(d)' <=> Pending(d) \/ d = c
    BY <1>4, UserPending DEF HandleStop
  <2>2. Up' = Up \ {c} /\ Left' = Left
    BY <1>1, <1>4, <2>1 DEF HandleStop, Up, Left
  <2> QED BY <1>4, <2>2 DEF HandleStop, Up, Left, Room!Hangup
<1>5. ASSUME NEW c \in Conns, HandleBadText(c) \/ HandleSerMsg(c) PROVE UNCHANGED Room!vars
  BY <1>5 DEF HandleBadText, HandleSerMsg, Pending
<1>6. ASSUME NEW c \in Conns, HandleConnect(c) PROVE Room!Join(c)
  <2>1. /\ Pending(c)
        /\ \A d \in Conns \ {c} : Pending(d)' <=> Pending(d)
    BY <1>6, ServerPending DEF HandleConnect
  <2>2. c \notin clients
    <3>1. mbox \in Seq(ServerMsg) /\ mbox # <<>>
      BY <1>6 DEF TypeOK, HandleConnect, Receives
    <3>2. 1 \in DOMAIN mbox /\ Head(mbox) = mbox[1]
      BY <3>1, TailMail
    <3> QED BY <1>6, <3>2 DEF HandleConnect, Receives, MailInv, MailSender
  <2>3. Up' = Up /\ Left' = Left /\ c \notin Left
    BY <1>6, <2>1 DEF HandleConnect, Up, Left
  <2>4. Room!Post(clients \cup {c}, Room!Connected(c))
    BY <1>6, BroadcastIsPost DEF HandleConnect, ConnectRecipients, Room!Connected, SysMsg,
         NewSystemMessage, Room!NewSystemMessage
  <2> QED BY <1>6, <2>2, <2>3, <2>4 DEF HandleConnect, Up, Left, Room!Join
<1>7. ASSUME NEW c \in Conns, HandleMessage(c) \/ HandleDisconnect(c)
      PROVE  c \in clients /\ Head(mbox).n \in {0} \cup Texts
             /\ (HandleMessage(c) => Head(mbox).n \in Texts)
             /\ (HandleDisconnect(c) => conn[c] = "stopped")
  <2>1. mbox \in Seq(ServerMsg) /\ mbox # <<>>
    BY <1>7 DEF TypeOK, HandleMessage, HandleDisconnect, Receives
  <2>2. 1 \in DOMAIN mbox /\ Head(mbox) = mbox[1] /\ \A j \in DOMAIN mbox : ~(j < 1)
    BY <2>1, TailMail
  <2>3. mbox[1] \in ServerMsg
    BY <2>1, <2>2
  <2>4. c \in clients
    BY <1>7, <2>2 DEF HandleMessage, HandleDisconnect, Receives, MailInv, MailSender
  <2>5. mbox[1].n \in {0} \cup Texts
    BY <2>3 DEF ServerMsg
  <2>6. HandleMessage(c) => Head(mbox).n \in Texts
    BY <2>2 DEF HandleMessage, Receives, MailInv, Chats
  <2>7. HandleDisconnect(c) => conn[c] = "stopped"
    BY <2>2 DEF HandleDisconnect, Receives, MailInv, MailSender
  <2> QED BY <2>2, <2>4, <2>5, <2>6, <2>7
<1>8. ASSUME NEW c \in Conns, HandleMessage(c) PROVE Room!Say(c, Head(mbox).n)
  <2>1. \A d \in Conns \ {c} : Pending(d)' <=> Pending(d)
    BY <1>8, ServerPending DEF HandleMessage
  <2>2. Up' = Up /\ Left' = Left
    BY <1>7, <1>8, <2>1 DEF HandleMessage, Up, Left
  <2>3. Room!Post(clients, Room!Said(c, Head(mbox).n))
    BY <1>8, BroadcastIsPost DEF HandleMessage, Room!Said, ChatMsg,
         NewChatMessage, Room!NewChatMessage
  <2> QED BY <1>7, <1>8, <2>2, <2>3 DEF HandleMessage, Up, Left, Room!Say
<1>9. ASSUME NEW c \in Conns, HandleDisconnect(c) PROVE Room!Leave(c)
  <2>1. ~Pending(c)' /\ \A d \in Conns \ {c} : Pending(d)' <=> Pending(d)
    BY <1>9, ServerPending DEF HandleDisconnect
  <2>2. Up' = Up /\ Left' = Left \cup {c} /\ c \notin Up
    BY <1>7, <1>9, <2>1 DEF HandleDisconnect, Up, Left
  <2>3. Room!Post(clients, Room!Disconnected(c))
    BY <1>9, BroadcastIsPost DEF HandleDisconnect, Room!Disconnected, SysMsg,
         NewSystemMessage, Room!NewSystemMessage
  <2> QED BY <1>7, <1>9, <2>2, <2>3 DEF HandleDisconnect, Up, Left, Room!Leave
<1>10. CASE UNCHANGED vars
  BY <1>10 DEF vars, Pending
<1>11. ASSUME NEW c \in Conns, ServerStep(c) PROVE Room!Next
  BY <1>6, <1>7, <1>8, <1>9, <1>11 DEF ServerStep, Room!Next
<1>12. ASSUME NEW c \in Conns, HandleStop(c) PROVE Room!Next
  BY <1>4, <1>12 DEF Room!Next
<1> QED BY <1>2, <1>3, <1>5, <1>10, <1>11, <1>12 DEF Next, UserStep

\* The server with its two kinds of actors and its mailboxes implements the atomic
\* room, for any number of connections, chats and malformed messages.
THEOREM ImplementsRoom == Spec => RoomSpec
BY TypeInit, TypeStep, MailInit, MailStep, RefineInit, RefineStep, PTL
   DEF Spec, RoomSpec, Room!Spec

\* So two registered users see the same room, each user's own "connect" comes first,
\* and no two registered users are hidden from each other.
THEOREM RoomGuarantees == Spec => []RoomPromises
<1>1. Room!Init <=> RoomP!Init
  BY DEF Room!Init, RoomP!Init
<1>2. [Room!Next]_(Room!vars) <=> [RoomP!Next]_(RoomP!vars)
  BY DEF Room!Next, RoomP!Next, Room!vars, RoomP!vars, Room!Join, RoomP!Join, Room!Say,
         RoomP!Say, Room!Hangup, RoomP!Hangup, Room!Leave, RoomP!Leave, Room!Post, RoomP!Post,
         Room!Connected, RoomP!Connected, Room!Said, RoomP!Said, Room!Disconnected,
         RoomP!Disconnected, Room!NewSystemMessage, RoomP!NewSystemMessage,
         Room!NewChatMessage, RoomP!NewChatMessage
<1>3. RoomP!Agreement /\ RoomP!OwnConnectFirst /\ RoomP!Visibility => RoomPromises
  BY DEF RoomPromises, Room!Agreement, RoomP!Agreement, Room!Agree, RoomP!Agree,
         Room!SuffixOf, RoomP!SuffixOf, Room!OwnConnectFirst,
         RoomP!OwnConnectFirst, Room!Visibility, RoomP!Visibility,
         Room!Heard, RoomP!Heard, Room!Connected, RoomP!Connected,
         Room!NewSystemMessage, RoomP!NewSystemMessage
<1> QED BY <1>1, <1>2, <1>3, ImplementsRoom, RoomP!RoomSafe, PTL
        DEF RoomSpec, Room!Spec, RoomP!Spec

-----------------------------------------------------------------------------
(* What a user is sent about another *)

\* No connection that stopped is forgotten in the registry, also when it died while its
\* Connect was queued.
THEOREM GhostsLeave == Spec => []NoGhosts
BY MailboxSafe, PTL

\* The chats of one user wait in the mailbox in the order they were sent.
MailChats ==
    /\ \A i \in DOMAIN mbox :
          mbox[i].type = "Message" => mbox[i].n <= said[mbox[i].uuid]
    /\ \A i, j \in DOMAIN mbox :
          i < j /\ mbox[i].uuid = mbox[j].uuid
             /\ mbox[i].type = "Message" /\ mbox[j].type = "Message" => mbox[i].n < mbox[j].n

\* What c was sent about d is behind all that d still has in the mailbox.
Spoken(c, d) ==
    /\ Heard(sent[c], SysMsg(as_str.Connect, d)) => conn[d] # "new" /\ ~Mailed("Connect", d)
    /\ Heard(sent[c], SysMsg(as_str.Disconnect, d)) => conn[d] = "stopped" /\ ~Pending(d)
    /\ \A k \in Texts : Heard(sent[c], ChatMsg(d, k)) =>
          /\ conn[d] # "new" /\ ~Mailed("Connect", d) /\ k <= said[d]
          /\ \A i \in DOMAIN mbox :
                mbox[i].type = "Message" /\ mbox[i].uuid = d => k < mbox[i].n

\* What anybody was sent about anybody.
AllSpoken == \A c, d \in Conns : Spoken(c, d)

\* The messages of a session differ.
LEMMA Different ==
    \A c, d, k, l :
        /\ SysMsg(as_str.Connect, c) # ChatMsg(d, k)
        /\ SysMsg(as_str.Disconnect, c) # ChatMsg(d, k)
        /\ SysMsg(as_str.Connect, c) # SysMsg(as_str.Disconnect, d)
        /\ ChatMsg(c, k) = ChatMsg(d, l) => c = d /\ k = l
        /\ SysMsg(as_str.Connect, c) = SysMsg(as_str.Connect, d) => c = d
        /\ SysMsg(as_str.Disconnect, c) = SysMsg(as_str.Disconnect, d) => c = d
<1> SUFFICES ASSUME NEW c, NEW d, NEW k, NEW l
             PROVE  /\ SysMsg(as_str.Connect, c) # ChatMsg(d, k)
                    /\ SysMsg(as_str.Disconnect, c) # ChatMsg(d, k)
                    /\ SysMsg(as_str.Connect, c) # SysMsg(as_str.Disconnect, d)
                    /\ ChatMsg(c, k) = ChatMsg(d, l) => c = d /\ k = l
                    /\ SysMsg(as_str.Connect, c) = SysMsg(as_str.Connect, d) => c = d
                    /\ SysMsg(as_str.Disconnect, c) = SysMsg(as_str.Disconnect, d) => c = d
  OBVIOUS
<1>1. /\ as_str.Connect = "connect" /\ as_str.Chat = "chat"
      /\ as_str.Disconnect = "discconnect"
  BY DEF as_str
<1>2. \A a, e : SysMsg(a, e).action = a /\ SysMsg(a, e).user = e
  BY DEF SysMsg, NewSystemMessage
<1>3. \A e, n : ChatMsg(e, n).action = as_str.Chat /\ ChatMsg(e, n).user = e
                /\ ChatMsg(e, n).n = n
  BY DEF ChatMsg, NewChatMessage
<1> QED BY <1>1, <1>2, <1>3

\* What is heard, and in which order, once one more message is sent.
LEMMA HeardMore ==
    ASSUME NEW S, NEW s \in Seq(S), NEW x \in S
    PROVE  /\ \A m : Heard(Append(s, x), m) <=> Heard(s, m) \/ m = x
           /\ NoRepeats(s) /\ ~Heard(s, x) => NoRepeats(Append(s, x))
           /\ \A m, m2 : NotAfter(s, m, m2) /\ m # m2 /\ (x = m => ~Heard(s, m2))
                            => NotAfter(Append(s, x), m, m2)
<1> DEFINE t == Append(s, x)
           L == Len(s) + 1
<1>1. /\ DOMAIN t = DOMAIN s \cup {L} /\ t[L] = x
      /\ \A i \in DOMAIN s : t[i] = s[i] /\ i \in Nat /\ i < L
      /\ L \in Nat /\ L \notin DOMAIN s
  <2>1. \A i \in DOMAIN s : i < L
    BY AppendMail
  <2>2. L \in Nat /\ ~(L < L)
    BY AppendMail
  <2> QED BY <2>1, <2>2, AppendMail
<1> HIDE DEF t, L
<1>2. \A m : Heard(t, m) <=> Heard(s, m) \/ m = x
  BY <1>1 DEF Heard
<1>3. NoRepeats(s) /\ ~Heard(s, x) => NoRepeats(t)
  BY <1>1 DEF NoRepeats, Heard
<1>4. ASSUME NEW m, NEW m2, NotAfter(s, m, m2), m # m2, x = m => ~Heard(s, m2)
      PROVE  NotAfter(t, m, m2)
  <2> SUFFICES ASSUME NEW i \in DOMAIN t, NEW j \in DOMAIN t, t[i] = m, t[j] = m2
               PROVE  i < j
    BY DEF NotAfter
  <2>1. CASE i \in DOMAIN s /\ j \in DOMAIN s
    BY <1>1, <1>4, <2>1 DEF NotAfter
  <2>2. CASE j = L /\ i \in DOMAIN s
    BY <1>1, <2>2
  <2>3. CASE i = L
    BY <1>1, <1>4, <2>3 DEF Heard
  <2> QED BY <1>1, <2>1, <2>2, <2>3
<1> QED BY <1>2, <1>3, <1>4 DEF t

\* What a Conn puts in the mailbox follows what it put there before.
LEMMA UserSpoken ==
    ASSUME TypeOK, MailInv, MailChats, AllSpoken,
           NEW c \in Conns, Started(c) \/ HandleText(c) \/ HandleStop(c)
    PROVE  MailChats' /\ AllSpoken'
<1> DEFINE L == Len(mbox) + 1
<1>1. PICK x \in ServerMsg :
        /\ mbox' = Append(mbox, x) /\ x.uuid = c /\ sent' = sent
        /\ \/ x.type = "Connect" /\ conn[c] = "new" /\ said' = said
           \/ /\ x.type = "Message" /\ conn[c] = "running" /\ x.n = said[c] + 1
              /\ said' = [said EXCEPT ![c] = @ + 1]
           \/ x.type = "Disconnect" /\ conn[c] = "running" /\ said' = said
        /\ \A d \in Conns : conn[d] # "new" => conn'[d] # "new"
        /\ \A d \in Conns : conn[d] = "stopped" => conn'[d] = "stopped"
  <2>0. conn \in [Conns -> {"new", "running", "stopped"}]
    BY DEF TypeOK
  <2>1. CASE Started(c)
    BY <2>0, <2>1 DEF Started, DoSend, ServerMsg
  <2>2. CASE HandleText(c)
    <3>1. said[c] + 1 \in Texts
      BY <2>2, BoundsAssumption DEF HandleText, TypeOK, Texts
    <3> QED BY <2>2, <3>1 DEF HandleText, DoSend, ServerMsg
  <2>3. CASE HandleStop(c)
    BY <2>0, <2>3 DEF HandleStop, DoSend, ServerMsg
  <2> QED BY <2>1, <2>2, <2>3
<1>2. /\ mbox \in Seq(ServerMsg) /\ said \in [Conns -> 0..MaxChats] /\ MaxChats \in Nat
      /\ \A i \in DOMAIN mbox : mbox[i] \in ServerMsg /\ mbox[i].uuid \in Conns
  <2>1. mbox \in Seq(ServerMsg) /\ said \in [Conns -> 0..MaxChats]
    BY DEF TypeOK
  <2>2. \A i \in DOMAIN mbox : mbox[i] \in ServerMsg
    BY <2>1
  <2> QED BY <2>1, <2>2, BoundsAssumption DEF ServerMsg
<1>3. /\ DOMAIN mbox' = DOMAIN mbox \cup {L}
      /\ \A i \in DOMAIN mbox : mbox'[i] = mbox[i] /\ i \in Nat /\ i < L
      /\ mbox'[L] = x /\ L \in Nat /\ ~(L < L)
  BY <1>1, <1>2, AppendMail
<1> HIDE DEF L
<1>4. \A d \in Conns : said'[d] \in Nat /\ said[d] \in Nat /\ said[d] <= said'[d]
  BY <1>1, <1>2
<1>5. \A i \in DOMAIN mbox : mbox[i].n \in Nat
  BY <1>2 DEF ServerMsg, Texts
<1>6. x.type = "Message" => x.n = said'[c] /\ x.n = said[c] + 1
  BY <1>1, <1>2
<1>7. MailChats'
  <2>1. \A i \in DOMAIN mbox' : mbox'[i].type = "Message" => mbox'[i].n <= said'[mbox'[i].uuid]
    <3> TAKE i \in DOMAIN mbox'
    <3>1. CASE i \in DOMAIN mbox
      BY <1>2, <1>3, <1>4, <1>5, <3>1 DEF MailChats
    <3>2. CASE i = L
      BY <1>1, <1>3, <1>4, <1>6, <3>2
    <3> QED BY <1>3, <3>1, <3>2
  <2>2. ASSUME NEW i \in DOMAIN mbox', NEW j \in DOMAIN mbox', i < j,
               mbox'[i].uuid = mbox'[j].uuid, mbox'[i].type = "Message",
               mbox'[j].type = "Message"
        PROVE  mbox'[i].n < mbox'[j].n
    <3>1. CASE j \in DOMAIN mbox /\ i \in DOMAIN mbox
      BY <1>3, <2>2, <3>1 DEF MailChats
    <3>2. CASE j = L /\ i \in DOMAIN mbox
      <4>1. mbox[i].n <= said[c]
        BY <1>1, <1>3, <2>2, <3>2 DEF MailChats
      <4> QED BY <1>1, <1>3, <1>4, <1>5, <1>6, <2>2, <3>2, <4>1
    <3>3. CASE i = L
      BY <1>3, <2>2, <3>3
    <3> QED BY <1>3, <3>1, <3>2, <3>3
  <2> QED BY <2>1, <2>2 DEF MailChats
<1>8. ASSUME NEW type, NEW d
      PROVE  Mailed(type, d)' <=> Mailed(type, d) \/ (x.type = type /\ d = c)
  <2>1. Mailed(type, d)' <=> \E i \in DOMAIN mbox' : mbox'[i].type = type /\ mbox'[i].uuid = d
    BY DEF Mailed
  <2> QED BY <2>1, <1>1, <1>3 DEF Mailed
<1>9. ASSUME NEW d PROVE Pending(d)' <=> Pending(d) \/ d = c
  <2>1. Pending(d)' <=> \E i \in DOMAIN mbox' : mbox'[i].uuid = d
    BY DEF Pending
  <2> QED BY <2>1, <1>1, <1>3 DEF Pending
<1>10. ASSUME NEW e \in Conns, NEW d \in Conns PROVE Spoken(e, d)'
  <2>0. Spoken(e, d) /\ sent'[e] = sent[e]
    BY <1>1 DEF AllSpoken
  <2>1. Heard(sent[e], SysMsg(as_str.Connect, d)) => conn'[d] # "new" /\ ~Mailed("Connect", d)'
    BY <1>1, <1>8, <2>0 DEF Spoken
  <2>2. Heard(sent[e], SysMsg(as_str.Disconnect, d)) => conn'[d] = "stopped" /\ ~Pending(d)'
    BY <1>1, <1>9, <2>0 DEF Spoken
  <2>3. ASSUME NEW k \in Texts, Heard(sent[e], ChatMsg(d, k))
        PROVE  /\ conn'[d] # "new" /\ ~Mailed("Connect", d)' /\ k <= said'[d]
               /\ \A i \in DOMAIN mbox' :
                     mbox'[i].type = "Message" /\ mbox'[i].uuid = d => k < mbox'[i].n
    <3>1. /\ conn[d] # "new" /\ ~Mailed("Connect", d) /\ k <= said[d]
          /\ \A i \in DOMAIN mbox : mbox[i].type = "Message" /\ mbox[i].uuid = d => k < mbox[i].n
      BY <2>0, <2>3 DEF Spoken
    <3>2. k \in Nat /\ k <= said'[d]
      BY <1>4, <3>1 DEF Texts
    <3>3. ASSUME NEW i \in DOMAIN mbox', mbox'[i].type = "Message", mbox'[i].uuid = d
          PROVE  k < mbox'[i].n
      <4>1. CASE i \in DOMAIN mbox
        BY <1>3, <3>1, <3>3, <4>1
      <4>2. CASE i = L
        BY <1>1, <1>3, <1>4, <1>6, <3>1, <3>2, <3>3, <4>2
      <4> QED BY <1>3, <4>1, <4>2
    <3>4. ~Mailed("Connect", d)'
      BY <1>1, <1>8, <3>1
    <3>5. conn'[d] # "new"
      BY <1>1, <3>1
    <3> QED BY <3>2, <3>3, <3>4, <3>5
  <2> QED BY <2>0, <2>1, <2>2, <2>3 DEF Spoken
<1> QED BY <1>7, <1>10 DEF AllSpoken

\* What the Server sends on is the next of that user's session for whoever gets it.
LEMMA ServerSpoken ==
    ASSUME TypeOK, MailInv, MailChats, AllSpoken, SessionOrder, NEW c \in Conns, ServerStep(c)
    PROVE  MailChats' /\ AllSpoken' /\ SessionOrder'
<1> DEFINE h == Head(mbox)
           M == Message(WireActions, Conns, Texts)
<1>1. /\ mbox # <<>> /\ mbox' = Tail(mbox) /\ h.uuid = c /\ conn' = conn /\ said' = said
      /\ h.type \in {"Connect", "Message", "Disconnect"}
  BY DEF ServerStep, HandleConnect, HandleMessage, HandleDisconnect, Receives
<1>2. /\ mbox \in Seq(ServerMsg) /\ \A e \in Conns : sent[e] \in Seq(M)
  BY DEF TypeOK
<1>3. /\ h = mbox[1] /\ 1 \in DOMAIN mbox
      /\ \A i \in DOMAIN mbox' :
            i \in Nat /\ i + 1 \in DOMAIN mbox /\ 1 < i + 1 /\ mbox'[i] = mbox[i + 1]
  BY <1>1, <1>2, TailMail
<1> HIDE DEF h
<1>4. PICK x \in M :
         /\ \/ h.type = "Connect" /\ x = SysMsg(as_str.Connect, c)
            \/ h.type = "Message" /\ h.n \in Texts /\ x = ChatMsg(c, h.n)
            \/ h.type = "Disconnect" /\ x = SysMsg(as_str.Disconnect, c)
         /\ \A e \in Conns : sent'[e] = sent[e] \/ sent'[e] = Append(sent[e], x)
  <2>1. CASE HandleConnect(c)
    <3>1. SysMsg(as_str.Connect, c) \in M
      BY MessageTypes DEF WireActions
    <3> HIDE DEF M
    <3> QED BY <2>1, <3>1 DEF HandleConnect, Receives, BroadcastText, h
  <2>2. CASE HandleMessage(c)
    <3>1. h.type = "Message" /\ h.n \in Texts
      BY <1>3, <2>2 DEF HandleMessage, Receives, MailInv, Chats, h
    <3>2. ChatMsg(c, h.n) \in M
      BY <3>1, MessageTypes
    <3> HIDE DEF M
    <3> QED BY <2>2, <3>1, <3>2 DEF HandleMessage, BroadcastText, h
  <2>3. CASE HandleDisconnect(c)
    <3>1. SysMsg(as_str.Disconnect, c) \in M
      BY MessageTypes DEF WireActions
    <3> HIDE DEF M
    <3> QED BY <2>3, <3>1 DEF HandleDisconnect, Receives, BroadcastText, h
  <2> QED BY <2>1, <2>2, <2>3 DEF ServerStep
<1> HIDE DEF M
<1>5. /\ Mailed(h.type, c) /\ Pending(c) /\ conn[c] # "new"
      /\ h.type = "Disconnect" => conn[c] = "stopped"
  BY <1>1, <1>3 DEF Mailed, Pending, MailInv, MailSender
<1>6. \A i \in DOMAIN mbox' : mbox'[i].uuid = c =>
         mbox'[i].type # "Connect" /\ h.type # "Disconnect"
  BY <1>1, <1>3 DEF MailInv, MailOrder
<1>7. MailChats'
  <2>1. \A i \in DOMAIN mbox' :
           mbox'[i].type = "Message" => mbox'[i].n <= said'[mbox'[i].uuid]
    BY <1>1, <1>3 DEF MailChats
  <2>2. \A i, j \in DOMAIN mbox' : i < j => i + 1 < j + 1
    BY <1>3
  <2> QED BY <1>3, <2>1, <2>2 DEF MailChats
<1>8. /\ \A type, d : Mailed(type, d)' => Mailed(type, d)
      /\ \A d : Pending(d)' => Pending(d)
      /\ ~Mailed("Connect", c)' /\ (h.type = "Disconnect" => ~Pending(c)')
  <2>1. \A type, d : Mailed(type, d)' => Mailed(type, d)
    BY <1>3 DEF Mailed
  <2>2. \A d : Pending(d)' => Pending(d)
    BY <1>3 DEF Pending
  <2>3. ~Mailed("Connect", c)'
    BY <1>6 DEF Mailed
  <2>4. h.type = "Disconnect" => ~Pending(c)'
    BY <1>6 DEF Pending
  <2> QED BY <2>1, <2>2, <2>3, <2>4
<1>9. ASSUME NEW e \in Conns PROVE ~Heard(sent[e], x)
  <2>1. Spoken(e, c)
    BY DEF AllSpoken
  <2>2. CASE h.type = "Connect"
    BY <1>4, <1>5, <2>1, <2>2 DEF Spoken
  <2>3. CASE h.type = "Message"
    <3>1. x = ChatMsg(c, h.n) /\ h.n \in Texts
      BY <1>4, <2>3
    <3>2. Heard(sent[e], x) => h.n < h.n
      BY <1>1, <1>3, <2>1, <2>3, <3>1 DEF Spoken
    <3> QED BY <3>1, <3>2 DEF Texts
  <2>4. CASE h.type = "Disconnect"
    BY <1>4, <1>5, <2>1, <2>4 DEF Spoken
  <2> QED BY <1>1, <2>2, <2>3, <2>4
<1>10. ASSUME NEW e \in Conns, NEW m
       PROVE  Heard(sent'[e], m) => Heard(sent[e], m) \/ m = x
  <2>1. sent[e] \in Seq(M) /\ (sent'[e] = sent[e] \/ sent'[e] = Append(sent[e], x))
    BY <1>2, <1>4
  <2>2. Heard(Append(sent[e], x), m) <=> Heard(sent[e], m) \/ m = x
    BY <2>1, HeardMore
  <2> QED BY <2>1, <2>2
<1>11. ASSUME NEW e \in Conns, NEW d \in Conns PROVE Spoken(e, d)'
  <2>0. Spoken(e, d)
    BY DEF AllSpoken
  <2>1. Heard(sent'[e], SysMsg(as_str.Connect, d)) => conn[d] # "new" /\ ~Mailed("Connect", d)'
    <3>1. CASE Heard(sent[e], SysMsg(as_str.Connect, d))
      BY <1>8, <2>0, <3>1 DEF Spoken
    <3>2. CASE SysMsg(as_str.Connect, d) = x
      <4>1. d = c
        BY <1>4, <3>2, Different
      <4> QED BY <1>5, <1>8, <4>1
    <3> QED BY <1>10, <3>1, <3>2
  <2>2. Heard(sent'[e], SysMsg(as_str.Disconnect, d)) => conn[d] = "stopped" /\ ~Pending(d)'
    <3>1. CASE Heard(sent[e], SysMsg(as_str.Disconnect, d))
      BY <1>8, <2>0, <3>1 DEF Spoken
    <3>2. CASE SysMsg(as_str.Disconnect, d) = x
      <4>1. d = c /\ h.type = "Disconnect"
        BY <1>4, <3>2, Different
      <4> QED BY <1>5, <1>8, <4>1
    <3> QED BY <1>10, <3>1, <3>2
  <2>3. ASSUME NEW k \in Texts, Heard(sent'[e], ChatMsg(d, k))
        PROVE  /\ conn[d] # "new" /\ ~Mailed("Connect", d)' /\ k <= said[d]
               /\ \A i \in DOMAIN mbox' :
                     mbox'[i].type = "Message" /\ mbox'[i].uuid = d => k < mbox'[i].n
    <3>1. CASE Heard(sent[e], ChatMsg(d, k))
      <4>1. /\ conn[d] # "new" /\ ~Mailed("Connect", d) /\ k <= said[d]
            /\ \A i \in DOMAIN mbox : mbox[i].type = "Message" /\ mbox[i].uuid = d => k < mbox[i].n
        BY <2>0, <3>1 DEF Spoken
      <4> QED BY <1>3, <1>8, <4>1
    <3>2. CASE ChatMsg(d, k) = x
      <4>1. d = c /\ h.type = "Message" /\ k = h.n
        BY <1>4, <3>2, Different
      <4>2. k <= said[d]
        BY <1>1, <1>3, <4>1 DEF MailChats
      <4>3. \A i \in DOMAIN mbox' :
               mbox'[i].type = "Message" /\ mbox'[i].uuid = d => k < mbox'[i].n
        BY <1>1, <1>3, <4>1 DEF MailChats
      <4> QED BY <1>5, <1>8, <4>1, <4>2, <4>3
    <3> QED BY <1>10, <2>3, <3>1, <3>2
  <2> QED BY <1>1, <2>1, <2>2, <2>3 DEF Spoken
<1>12. ASSUME NEW e \in Conns, NEW d \in Conns
       PROVE  /\ NoRepeats(sent'[e])
              /\ \A k \in Texts :
                    /\ NotAfter(sent'[e], SysMsg(as_str.Connect, d), ChatMsg(d, k))
                    /\ NotAfter(sent'[e], ChatMsg(d, k), SysMsg(as_str.Disconnect, d))
                    /\ k > 1 => NotAfter(sent'[e], ChatMsg(d, k - 1), ChatMsg(d, k))
  <2>0. /\ Spoken(e, c) /\ NoRepeats(sent[e]) /\ sent[e] \in Seq(M)
        /\ \A k \in Texts :
              /\ NotAfter(sent[e], SysMsg(as_str.Connect, d), ChatMsg(d, k))
              /\ NotAfter(sent[e], ChatMsg(d, k), SysMsg(as_str.Disconnect, d))
              /\ k > 1 => NotAfter(sent[e], ChatMsg(d, k - 1), ChatMsg(d, k))
    BY <1>2 DEF AllSpoken, SessionOrder
  <2>1. CASE sent'[e] = sent[e]
    BY <2>0, <2>1
  <2>2. CASE sent'[e] = Append(sent[e], x)
    <3>1. NoRepeats(sent'[e])
      BY <1>9, <2>0, <2>2, HeardMore
    <3>2. \A m, m2 : NotAfter(sent[e], m, m2) /\ m # m2 /\ (x = m => ~Heard(sent[e], m2))
                        => NotAfter(sent'[e], m, m2)
      BY <2>0, <2>2, HeardMore
    <3>3. ASSUME NEW k \in Texts
          PROVE  NotAfter(sent'[e], SysMsg(as_str.Connect, d), ChatMsg(d, k))
      <4>1. x = SysMsg(as_str.Connect, d) => ~Heard(sent[e], ChatMsg(d, k))
        <5>1. x = SysMsg(as_str.Connect, d) => d = c /\ h.type = "Connect"
          BY <1>4, Different
        <5> QED BY <1>5, <2>0, <5>1 DEF Spoken
      <4> QED BY <2>0, <3>2, <4>1, Different
    <3>4. ASSUME NEW k \in Texts
          PROVE  NotAfter(sent'[e], ChatMsg(d, k), SysMsg(as_str.Disconnect, d))
      <4>1. x = ChatMsg(d, k) => ~Heard(sent[e], SysMsg(as_str.Disconnect, d))
        <5>1. x = ChatMsg(d, k) => d = c
          BY <1>4, Different
        <5> QED BY <1>5, <2>0, <5>1 DEF Spoken
      <4> QED BY <2>0, <3>2, <4>1, Different
    <3>5. ASSUME NEW k \in Texts, k > 1
          PROVE  NotAfter(sent'[e], ChatMsg(d, k - 1), ChatMsg(d, k))
      <4>1. x = ChatMsg(d, k - 1) => ~Heard(sent[e], ChatMsg(d, k))
        <5>1. x = ChatMsg(d, k - 1) => d = c /\ h.type = "Message" /\ h.n = k - 1
          BY <1>4, Different
        <5>2. x = ChatMsg(d, k - 1) /\ Heard(sent[e], ChatMsg(d, k)) => k < k - 1
          BY <1>1, <1>3, <2>0, <5>1 DEF Spoken
        <5> QED BY <5>2 DEF Texts
      <4>2. ChatMsg(d, k - 1) # ChatMsg(d, k)
        <5>1. k - 1 # k
          BY DEF Texts
        <5> QED BY <5>1, Different
      <4> QED BY <2>0, <3>2, <3>5, <4>1, <4>2
    <3> QED BY <3>1, <3>3, <3>4, <3>5
  <2> QED BY <1>4, <2>1, <2>2
<1> QED BY <1>7, <1>11, <1>12 DEF AllSpoken, SessionOrder

\* What the Server sends about a user is that user's session in order: no message twice,
\* no chat before the "connect" or after the "disconnect", the chats in their order.
THEOREM SessionsInOrder == Spec => []SessionOrder
<1> DEFINE Inv == MailChats /\ AllSpoken /\ SessionOrder
<1>1. Init => Inv
  <2> SUFFICES ASSUME Init PROVE Inv
    OBVIOUS
  <2>1. \A c \in Conns : sent[c] = <<>> /\ \A m : ~Heard(sent[c], m)
    BY DEF Init, Heard
  <2>2. MailChats
    BY DEF Init, MailChats
  <2>3. AllSpoken
    BY <2>1 DEF AllSpoken, Spoken
  <2>4. SessionOrder
    BY <2>1 DEF SessionOrder, NoRepeats, NotAfter
  <2> QED BY <2>2, <2>3, <2>4
<1>2. TypeOK /\ MailInv /\ Inv /\ [Next]_vars => Inv'
  <2> SUFFICES ASSUME TypeOK, MailInv, Inv, [Next]_vars PROVE Inv'
    OBVIOUS
  <2>1. ASSUME NEW c \in Conns, Started(c) \/ HandleText(c) \/ HandleStop(c) PROVE Inv'
    <3>1. MailChats' /\ AllSpoken'
      BY <2>1, UserSpoken
    <3>2. sent' = sent
      BY <2>1 DEF Started, HandleText, HandleStop
    <3> QED BY <3>1, <3>2 DEF SessionOrder
  <2>2. ASSUME NEW c \in Conns, ServerStep(c) PROVE Inv'
    BY <2>2, ServerSpoken
  <2>3. ASSUME UNCHANGED <<conn, mbox, sent, said>> PROVE Inv'
    BY <2>3 DEF MailChats, AllSpoken, Spoken, SessionOrder, Mailed, Pending
  <2>4. ASSUME NEW c \in Conns, HandleBadText(c) \/ HandleSerMsg(c) PROVE Inv'
    BY <2>3, <2>4 DEF HandleBadText, HandleSerMsg
  <2>5. CASE UNCHANGED vars
    BY <2>3, <2>5 DEF vars
  <2> QED BY <2>1, <2>2, <2>4, <2>5 DEF Next, UserStep
<1>3. Inv => SessionOrder
  OBVIOUS
<1> HIDE DEF Inv
<1> QED BY <1>1, <1>2, <1>3, TypeInit, TypeStep, MailInit, MailStep, PTL DEF Spec
=============================================================================
