--------------------------- MODULE ChatRoomProofs ---------------------------
(***************************************************************************)
(* The atomic room keeps the README's promises, for any users and texts.   *)
(***************************************************************************)
EXTENDS ChatRoom, TLAPS

Msg == Message({ActionStr.Connect, ActionStr.Chat, ActionStr.Disconnect}, Users, Texts)

RoomTypeOK ==
    /\ members \subseteq Users
    /\ left \subseteq Users
    /\ up \subseteq Users
    /\ inbox \in [Users -> Seq(Msg)]

\* Who has not joined yet has received nothing.
Unheard == \A u \in Users : u \notin members \cup left => inbox[u] = <<>>

\* Who is in the room, and can be reached, was so when they joined.
Welcomed == \A u \in members \cap up : inbox[u] # <<>>

\* Agreement alone is not inductive: a newcomer's stream must start empty.
RoomInv == RoomTypeOK /\ Unheard /\ Welcomed /\ OwnConnectFirst /\ Agreement

-----------------------------------------------------------------------------
(* Streams *)

\* Appending one message to two streams of which one is a suffix keeps it so.
LEMMA SuffixAppend ==
    ASSUME NEW S, NEW s \in Seq(S), NEW t \in Seq(S), NEW m \in S, SuffixOf(s, t)
    PROVE  SuffixOf(Append(s, m), Append(t, m))
<1> DEFINE a == Append(s, m)
           b == Append(t, m)
<1>1. /\ Len(a) = Len(s) + 1
      /\ Len(b) = Len(t) + 1
      /\ Len(s) \in Nat /\ Len(t) \in Nat /\ Len(s) <= Len(t)
  BY DEF SuffixOf
<1>2. ASSUME NEW i \in 1..Len(a)
      PROVE  a[i] = b[Len(b) - Len(a) + i]
  <2>1. CASE i \in 1..Len(s)
    <3>1. a[i] = s[i]
      BY <2>1
    <3>2. Len(t) - Len(s) + i \in 1..Len(t)
      BY <1>1, <2>1
    <3>3. b[Len(t) - Len(s) + i] = t[Len(t) - Len(s) + i]
      BY <3>2
    <3>4. Len(b) - Len(a) + i = Len(t) - Len(s) + i
      BY <1>1, <2>1
    <3> HIDE DEF a, b
    <3> QED BY <3>1, <3>3, <3>4, <2>1 DEF SuffixOf
  <2>2. CASE i = Len(s) + 1
    <3>1. a[i] = m /\ b[Len(t) + 1] = m
      BY <2>2, <1>1
    <3>2. Len(b) - Len(a) + i = Len(t) + 1
      BY <1>1, <2>2
    <3> HIDE DEF a, b
    <3> QED BY <3>1, <3>2
  <2> HIDE DEF a, b
  <2> QED BY <2>1, <2>2, <1>1
<1>3. Len(a) <= Len(b)
  BY <1>1
<1> QED BY <1>2, <1>3 DEF SuffixOf

\* A stream of one message is a suffix of every stream that ends with it.
LEMMA SuffixSingle ==
    ASSUME NEW S, NEW t \in Seq(S), NEW m \in S
    PROVE  SuffixOf(Append(<<>>, m), Append(t, m))
BY SuffixAppend, SuffixOf(<<>>, t) DEF SuffixOf

-----------------------------------------------------------------------------
(* The room *)

\* What the room announces are messages.
LEMMA MsgTypes ==
    /\ \A u \in Users : Connected(u) \in Msg /\ Disconnected(u) \in Msg
    /\ \A u \in Users, t \in Texts : Said(u, t) \in Msg
BY DEF Msg, Message, Connected, Disconnected, Said, NewSystemMessage, NewChatMessage

\* A message posted to a set of users that holds every member keeps the streams of
\* the members it reaches in agreement.
LEMMA PostAgrees ==
    ASSUME RoomTypeOK, Agreement, NEW S, NEW m \in Msg, members \subseteq S, Post(S, m),
           NEW u \in members \cap up, NEW v \in members \cap up
    PROVE  Agree(inbox'[u], inbox'[v])
<1>1. /\ inbox'[u] = Append(inbox[u], m)
      /\ inbox'[v] = Append(inbox[v], m)
  BY DEF Post, RoomTypeOK
<1>2. inbox[u] \in Seq(Msg) /\ inbox[v] \in Seq(Msg)
  BY DEF RoomTypeOK
<1>3. SuffixOf(inbox[u], inbox[v]) \/ SuffixOf(inbox[v], inbox[u])
  BY DEF Agreement, Agree
<1> QED BY <1>1, <1>2, <1>3, SuffixAppend DEF Agree

\* Posting appends, to the streams of whom it reaches, and to no other.
LEMMA PostStreams ==
    ASSUME RoomTypeOK, NEW S, NEW m \in Msg, Post(S, m)
    PROVE  /\ inbox' \in [Users -> Seq(Msg)]
           /\ \A u \in Users :
                /\ u \notin S => inbox'[u] = inbox[u]
                /\ u \notin up => inbox'[u] = inbox[u]
                /\ u \in S \cap up => inbox'[u] # <<>>
                /\ inbox[u] # <<>> => inbox'[u] # <<>> /\ inbox'[u][1] = inbox[u][1]
                /\ inbox[u] = <<>> /\ inbox'[u] # <<>> => inbox'[u] = <<m>>
<1>1. \A u \in Users : inbox[u] \in Seq(Msg)
  BY DEF RoomTypeOK
<1>2. \A s \in Seq(Msg) :
        /\ Append(s, m) \in Seq(Msg)
        /\ Append(s, m) # <<>>
        /\ s # <<>> => Append(s, m)[1] = s[1]
  <2> SUFFICES ASSUME NEW s \in Seq(Msg)
               PROVE  /\ Append(s, m) \in Seq(Msg)
                      /\ Append(s, m) # <<>>
                      /\ s # <<>> => Append(s, m)[1] = s[1]
    OBVIOUS
  <2>1. Append(s, m) \in Seq(Msg) /\ Len(Append(s, m)) = Len(s) + 1 /\ Len(s) \in Nat
    OBVIOUS
  <2>2. s # <<>> => 1 \in 1..Len(s)
    OBVIOUS
  <2>3. \A i \in 1..Len(s) : Append(s, m)[i] = s[i]
    OBVIOUS
  <2>4. Append(s, m) # <<>>
    BY <2>1
  <2> QED BY <2>1, <2>2, <2>3, <2>4
<1>3. \A s \in Seq(Msg) : s = <<>> => Append(s, m) = <<m>>
  OBVIOUS
<1>4. \A u \in Users : inbox'[u] = IF u \in S \cap up THEN Append(inbox[u], m) ELSE inbox[u]
  BY DEF Post
<1>5. inbox' \in [Users -> Seq(Msg)]
  BY <1>1, <1>2 DEF Post
<1> QED BY <1>1, <1>2, <1>3, <1>4, <1>5

\* An empty room satisfies the invariant.
LEMMA RoomInit == Init => RoomInv
BY DEF Init, RoomInv, RoomTypeOK, Unheard, Welcomed, OwnConnectFirst, Agreement

\* Joining, saying, hanging up and leaving preserve the invariant.
LEMMA RoomStep == RoomInv /\ [Next]_vars => RoomInv'
<1> SUFFICES ASSUME RoomInv, [Next]_vars PROVE RoomInv'
  OBVIOUS
<1> USE DEF RoomInv
<1>1. ASSUME NEW u \in Users, Join(u) PROVE RoomInv'
  <2> DEFINE m == Connected(u)
             S == members \cup {u}
  <2>1. m \in Msg /\ Post(S, m)
    BY <1>1, MsgTypes DEF Join
  <2> HIDE DEF m
  <2>2. inbox[u] = <<>>
    BY <1>1 DEF Join, Unheard
  <2>3. RoomTypeOK'
    BY <1>1, <2>1, PostStreams DEF Join, RoomTypeOK
  <2>4. Unheard'
    BY <1>1, <2>1, PostStreams DEF Join, Unheard
  <2>5. Welcomed'
    BY <1>1, <2>1, PostStreams DEF Join, Welcomed, RoomTypeOK
  <2>6. OwnConnectFirst'
    <3> SUFFICES ASSUME NEW v \in Users, inbox'[v] # <<>>
                 PROVE  inbox'[v][1] = Connected(v)
      BY DEF OwnConnectFirst, Connected
    <3>1. CASE inbox[v] # <<>>
      BY <3>1, <2>1, PostStreams DEF OwnConnectFirst
    <3>2. CASE inbox[v] = <<>>
      <4>1. inbox'[v] = <<m>> /\ v \in S /\ v \in up
        BY <3>2, <2>1, PostStreams
      <4>2. v = u
        BY <4>1, <3>2 DEF Welcomed
      <4> QED BY <4>1, <4>2 DEF m
    <3> QED BY <3>1, <3>2
  <2>7. Agreement'
    <3> SUFFICES ASSUME NEW v \in (members \cap up)', NEW w \in (members \cap up)'
                 PROVE  Agree(inbox'[v], inbox'[w])
      BY DEF Agreement
    <3>1. v \in S \cap up /\ w \in S \cap up
      BY <1>1 DEF Join
    <3>2. \A x \in S \cap up : inbox'[x] = Append(inbox[x], m) /\ inbox[x] \in Seq(Msg)
      BY <2>1 DEF Post, RoomTypeOK
    <3>3. CASE v = u
      BY <3>1, <3>2, <3>3, <2>1, <2>2, SuffixSingle DEF Agree
    <3>4. CASE w = u
      BY <3>1, <3>2, <3>4, <2>1, <2>2, SuffixSingle DEF Agree
    <3>5. CASE v # u /\ w # u
      BY <3>1, <3>5, <2>1, PostAgrees
    <3> QED BY <3>3, <3>4, <3>5
  <2> QED BY <2>3, <2>4, <2>5, <2>6, <2>7
<1>2. ASSUME NEW m \in Msg, Post(members, m), up' = up,
             members' \subseteq members, left' \subseteq Users,
             members' \cup left' = members \cup left
      PROVE  RoomInv'
  <2>1. RoomTypeOK'
    BY <1>2, PostStreams DEF RoomTypeOK
  <2>2. Unheard'
    BY <1>2, PostStreams DEF Unheard
  <2>3. Welcomed'
    BY <1>2, PostStreams DEF Welcomed, RoomTypeOK
  <2>4. OwnConnectFirst'
    <3> SUFFICES ASSUME NEW v \in Users, inbox'[v] # <<>>
                 PROVE  inbox'[v][1] = Connected(v)
      BY DEF OwnConnectFirst, Connected
    <3>1. inbox[v] # <<>>
      BY <1>2, PostStreams DEF Welcomed
    <3> QED BY <3>1, <1>2, PostStreams DEF OwnConnectFirst
  <2>5. Agreement'
    <3> SUFFICES ASSUME NEW v \in members \cap up, NEW w \in members \cap up
                 PROVE  Agree(inbox'[v], inbox'[w])
      BY <1>2 DEF Agreement
    <3> QED BY <1>2, PostAgrees
  <2> QED BY <2>1, <2>2, <2>3, <2>4, <2>5
<1>3. ASSUME NEW u \in Users, NEW t \in Texts, Say(u, t) PROVE RoomInv'
  BY <1>2, <1>3, MsgTypes DEF Say, RoomTypeOK
<1>4. ASSUME NEW u \in Users, Leave(u) PROVE RoomInv'
  BY <1>2, <1>4, MsgTypes DEF Leave, RoomTypeOK
<1>5. ASSUME NEW u \in Users, Hangup(u) PROVE RoomInv'
  BY <1>5 DEF Hangup, RoomTypeOK, Unheard, Welcomed, OwnConnectFirst, Agreement, Connected
<1>6. ASSUME UNCHANGED vars PROVE RoomInv'
  BY <1>6 DEF vars, RoomTypeOK, Unheard, Welcomed, OwnConnectFirst, Agreement, Connected
<1> QED BY <1>1, <1>3, <1>4, <1>5, <1>6 DEF Next

\* Of two streams of which one is a suffix of the other, the longer holds the first
\* message of the shorter: that is how one of two users learns of the other.
LEMMA RoomVisible == RoomInv => Visibility
<1> SUFFICES ASSUME RoomInv, NEW u \in members \cap up, NEW v \in members \cap up
             PROVE  Heard(inbox[u], Connected(v)) \/ Heard(inbox[v], Connected(u))
  BY DEF Visibility
<1>1. ASSUME NEW x \in members \cap up, NEW y \in members \cap up, SuffixOf(inbox[x], inbox[y])
      PROVE  Heard(inbox[y], Connected(x))
  <2>1. inbox[x] \in Seq(Msg) /\ inbox[y] \in Seq(Msg) /\ inbox[x] # <<>>
    BY DEF RoomInv, RoomTypeOK, Welcomed
  <2>2. inbox[x][1] = Connected(x)
    BY <2>1 DEF RoomInv, RoomTypeOK, OwnConnectFirst
  <2>3. Len(inbox[x]) >= 1 /\ Len(inbox[x]) \in Nat /\ Len(inbox[y]) \in Nat
    BY <2>1
  <2> DEFINE i == Len(inbox[y]) - Len(inbox[x]) + 1
  <2>4. i \in DOMAIN inbox[y]
    <3>1. DOMAIN inbox[y] = 1..Len(inbox[y])
      BY <2>1
    <3>2. Len(inbox[x]) <= Len(inbox[y])
      BY <1>1 DEF SuffixOf
    <3>3. \A a, b \in Nat : a >= 1 /\ a <= b => b - a + 1 \in 1..b
      OBVIOUS
    <3>4. i \in 1..Len(inbox[y])
      BY <2>3, <3>2, <3>3
    <3> QED BY <3>1, <3>4
  <2>5. 1 \in 1..Len(inbox[x])
    BY <2>3
  <2>6. inbox[y][i] = Connected(x)
    BY <1>1, <2>2, <2>5 DEF SuffixOf
  <2> QED BY <2>4, <2>6 DEF Heard
<1> QED BY <1>1 DEF RoomInv, Agreement, Agree

\* For every set of users and texts, the room keeps its streams in agreement, shows
\* every user their own "connect" first, and hides no user from another.
THEOREM RoomSafe == Spec => [](Agreement /\ OwnConnectFirst /\ Visibility)
<1>1. RoomInv => Agreement /\ OwnConnectFirst /\ Visibility
  BY RoomVisible DEF RoomInv
<1> QED BY RoomInit, RoomStep, <1>1, PTL DEF Spec
=============================================================================
