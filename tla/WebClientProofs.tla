-------------------------- MODULE WebClientProofs --------------------------
(***************************************************************************)
(* The page keeps to one room and shows its messages in order, for any     *)
(* number of sockets and whatever their events.                            *)
(***************************************************************************)
EXTENDS WebClient, SequenceTheorems, NaturalsInduction, WellFoundedInduction, TLAPS

\* The messages on the page.
Shown == [via : Sockets, action : Actions, contents : Sockets \cup {"other"},
          timestamp : Nat \cup {Undefined}]

-----------------------------------------------------------------------------
(* Sequences *)

\* Some indices, not none, have a greatest.
LEMMA Greatest ==
    ASSUME NEW n \in Nat, NEW I \in SUBSET (1..n), I # {}
    PROVE  Max(I) \in I /\ \A i \in I : i <= Max(I)
<1> DEFINE T == {n - i : i \in I}
           R == OpToRel(<, Nat)
<1>1. T \subseteq Nat /\ T # {}
  <2>1. \A i \in I : i \in 1..n /\ n - i \in Nat
    OBVIOUS
  <2> QED BY <2>1
<1>2. IsWellFoundedOn(R, Nat)
  BY NatLessThanWellFounded
<1> HIDE DEF R
<1>3. PICK x \in T : \A y \in T : ~(<<y, x>> \in R)
  BY <1>1, <1>2, WFMin
<1>4. \A y \in T : ~(y < x)
  BY <1>1, <1>3 DEF R, OpToRel
<1>5. PICK i \in I : x = n - i
  BY <1>3
<1>6. \A j \in I : n - j \in T /\ j \in Int
  OBVIOUS
<1>7. \A j \in I : i >= j
  BY <1>4, <1>5, <1>6
<1>8. Max(I) \in I /\ \A y \in I : Max(I) >= y
  BY <1>7 DEF Max
<1> QED BY <1>8

\* new is s with x behind the first k elements.
IsInsert(new, s, k, x) ==
    /\ Len(new) = Len(s) + 1 /\ new[k + 1] = x
    /\ \A i \in 1..k : new[i] = s[i]
    /\ \A i \in (k + 1)..Len(s) : new[i + 1] = s[i]

\* InsertAt puts an element between those before and those behind.
LEMMA InsertSeq ==
    \A S : \A s \in Seq(S), x \in S : \A k \in 0..Len(s) :
        InsertAt(s, k + 1, x) \in Seq(S) /\ IsInsert(InsertAt(s, k + 1, x), s, k, x)
<1> SUFFICES ASSUME NEW S, NEW s \in Seq(S), NEW x \in S, NEW k \in 0..Len(s)
             PROVE  /\ InsertAt(s, k + 1, x) \in Seq(S)
                    /\ IsInsert(InsertAt(s, k + 1, x), s, k, x)
  OBVIOUS
<1> DEFINE a == SubSeq(s, 1, k)
           b == SubSeq(s, k + 1, Len(s))
<1>1. k \in Nat /\ Len(s) \in Nat /\ k <= Len(s)
  OBVIOUS
<1>2. \A i \in 1..Len(s) : s[i] \in S
  OBVIOUS
<1>3. a \in Seq(S) /\ Len(a) = k /\ \A i \in 1..k : a[i] = s[i]
  <2>1. \A i \in 1..k : s[i] \in S
    BY <1>1, <1>2
  <2> QED BY <1>1, <2>1, SubSeqProperties
<1>4. b \in Seq(S) /\ Len(b) = Len(s) - k /\ \A i \in 1..(Len(s) - k) : b[i] = s[k + i]
  <2>1. \A i \in (k + 1)..Len(s) : s[i] \in S
    BY <1>1, <1>2
  <2> QED BY <1>1, <2>1, SubSeqProperties
<1>5. InsertAt(s, k + 1, x) = (a \o <<x>>) \o b
  <2>1. (k + 1) - 1 = k
    BY <1>1
  <2> QED BY <2>1 DEF InsertAt
<1> HIDE DEF a, b
<1> DEFINE c == a \o <<x>>
<1>6. /\ c \in Seq(S) /\ Len(c) = k + 1 /\ c[k + 1] = x /\ \A i \in 1..k : c[i] = s[i]
  BY <1>1, <1>3
<1> HIDE DEF c
<1>7. /\ c \o b \in Seq(S) /\ Len(c \o b) = Len(s) + 1
      /\ \A i \in 1..(Len(s) + 1) : (c \o b)[i] = IF i <= k + 1 THEN c[i] ELSE b[i - (k + 1)]
  <2>1. /\ c \o b \in Seq(S) /\ Len(c \o b) = Len(c) + Len(b)
        /\ \A i \in 1..(Len(c) + Len(b)) :
              (c \o b)[i] = IF i <= Len(c) THEN c[i] ELSE b[i - Len(c)]
    BY <1>4, <1>6, ConcatProperties
  <2>2. Len(c) + Len(b) = Len(s) + 1 /\ Len(c) = k + 1
    BY <1>1, <1>4, <1>6
  <2> QED BY <2>1, <2>2
<1>8. \A i \in (k + 1)..Len(s) : (c \o b)[i + 1] = s[i]
  <2> TAKE i \in (k + 1)..Len(s)
  <2>1. /\ i + 1 \in 1..(Len(s) + 1) /\ ~(i + 1 <= k + 1) /\ (i + 1) - (k + 1) = i - k
        /\ i - k \in 1..(Len(s) - k) /\ k + (i - k) = i
    BY <1>1
  <2> QED BY <1>4, <1>7, <2>1
<1>9. \A i \in 1..(k + 1) : (c \o b)[i] = c[i]
  BY <1>1, <1>7
<1>10. \A i \in 1..k : i \in 1..(k + 1)
  BY <1>1
<1>11. k + 1 \in 1..(k + 1)
  BY <1>1
<1> QED BY <1>5, <1>6, <1>7, <1>8, <1>9, <1>10, <1>11 DEF c, IsInsert

\* The message is put behind the last one with a smaller timestamp.
LEMMA InsertPlace ==
    ASSUME NEW ms \in Seq(Shown), NEW m \in Shown
    PROVE  \E k \in 0..Len(ms) :
              /\ insert(ms, m) = InsertAt(ms, k + 1, m)
              /\ k > 0 => ms[k].timestamp # Undefined /\ ms[k].timestamp < m.timestamp
              /\ \A i \in (k + 1)..Len(ms) :
                    ~(ms[i].timestamp # Undefined /\ ms[i].timestamp < m.timestamp)
<1> DEFINE I == {i \in 1..Len(ms) :
                    ms[i].timestamp # Undefined /\ ms[i].timestamp < m.timestamp}
           k == IF I # {} THEN Max(I) ELSE 0
<1>1. Len(ms) \in Nat /\ I \in SUBSET (1..Len(ms))
  OBVIOUS
<1>2. SelectLastInSeq(ms, LAMBDA e : e.timestamp # Undefined /\ e.timestamp < m.timestamp) = k
  BY DEF SelectLastInSeq
<1>3. insert(ms, m) = InsertAt(ms, 1 + k, m)
  BY <1>2 DEF insert
<1> HIDE DEF k
<1>4. CASE I # {}
  <2>1. k \in I /\ \A i \in I : i <= k
    BY <1>1, <1>4, Greatest DEF k
  <2>2. k \in 1..Len(ms) /\ 1 + k = k + 1
    BY <1>1, <2>1
  <2>3. \A i \in (k + 1)..Len(ms) : i \in 1..Len(ms) /\ i \notin I
    BY <1>1, <2>1, <2>2
  <2> QED BY <1>3, <2>1, <2>2, <2>3
<1>5. CASE I = {}
  <2>1. k = 0 /\ 1 + k = k + 1
    BY <1>5 DEF k
  <2> QED BY <1>1, <1>3, <1>5, <2>1
<1> QED BY <1>4, <1>5

\* The order Sorted asks for.
InOrder(ms) ==
    (\A i \in DOMAIN ms : ms[i].timestamp # Undefined) =>
        \A i, j \in DOMAIN ms : i < j => ms[i].timestamp <= ms[j].timestamp

\* Whatever is put in, messages in order stay in order, and nothing else is shown.
LEMMA InsertKeeps ==
    ASSUME NEW ms \in Seq(Shown), NEW m \in Shown
    PROVE  /\ insert(ms, m) \in Seq(Shown)
           /\ \A j \in DOMAIN insert(ms, m) :
                 insert(ms, m)[j] = m \/ \E i \in DOMAIN ms : insert(ms, m)[j] = ms[i]
           /\ InOrder(ms) => InOrder(insert(ms, m))
<1> DEFINE new == insert(ms, m)
<1>1. PICK k \in 0..Len(ms) :
          /\ new = InsertAt(ms, k + 1, m)
          /\ k > 0 => ms[k].timestamp # Undefined /\ ms[k].timestamp < m.timestamp
          /\ \A i \in (k + 1)..Len(ms) :
                ~(ms[i].timestamp # Undefined /\ ms[i].timestamp < m.timestamp)
  BY InsertPlace
<1> HIDE DEF new
<1>2. /\ new \in Seq(Shown) /\ Len(new) = Len(ms) + 1 /\ new[k + 1] = m
      /\ \A i \in 1..k : new[i] = ms[i]
      /\ \A i \in (k + 1)..Len(ms) : new[i + 1] = ms[i]
  <2>1. new \in Seq(Shown) /\ IsInsert(new, ms, k, m)
    BY <1>1, InsertSeq, Zenon
  <2> QED BY <2>1 DEF IsInsert
<1>3. /\ k \in Nat /\ Len(ms) \in Nat /\ k <= Len(ms)
      /\ DOMAIN ms = 1..Len(ms) /\ DOMAIN new = 1..(Len(ms) + 1)
  BY <1>2
<1>4. ASSUME NEW j \in DOMAIN new
      PROVE  \/ j \in 1..k /\ j \in DOMAIN ms
             \/ j = k + 1
             \/ j - 1 \in (k + 1)..Len(ms) /\ j - 1 \in DOMAIN ms /\ (j - 1) + 1 = j
  BY <1>3
<1>5. \A j \in DOMAIN new : new[j] = m \/ \E i \in DOMAIN ms : new[j] = ms[i]
  BY <1>2, <1>4
<1>6. ASSUME InOrder(ms), \A i \in DOMAIN new : new[i].timestamp # Undefined,
             NEW i \in DOMAIN new, NEW j \in DOMAIN new, i < j
      PROVE  new[i].timestamp <= new[j].timestamp
  <2>1. /\ \A l \in DOMAIN ms : ms[l] \in Shown /\ ms[l].timestamp # Undefined
        /\ m.timestamp # Undefined
    <3>1. \A l \in DOMAIN ms : ms[l] \in Shown
      BY <1>3
    <3>2. \A l \in 1..k : l \in DOMAIN new
      BY <1>3
    <3>3. \A l \in (k + 1)..Len(ms) : l + 1 \in DOMAIN new
      BY <1>3
    <3>4. \A l \in DOMAIN ms : l \in 1..k \/ l \in (k + 1)..Len(ms)
      BY <1>3
    <3>5. k + 1 \in DOMAIN new
      BY <1>3
    <3> QED BY <1>2, <1>6, <3>1, <3>2, <3>3, <3>4, <3>5
  <2>2. \A l \in DOMAIN ms : ms[l].timestamp \in Nat
    BY <2>1 DEF Shown
  <2>3. m.timestamp \in Nat
    BY <2>1 DEF Shown
  <2>4. \A g, h \in DOMAIN ms : g <= h => ms[g].timestamp <= ms[h].timestamp
    <3> SUFFICES ASSUME NEW g \in DOMAIN ms, NEW h \in DOMAIN ms, g <= h
                 PROVE  ms[g].timestamp <= ms[h].timestamp
      OBVIOUS
    <3>1. CASE g = h
      BY <2>2, <3>1
    <3>2. CASE g < h
      BY <1>6, <2>1, <3>2 DEF InOrder
    <3> QED BY <1>3, <3>1, <3>2
  <2>5. \A l \in 1..k : ms[l].timestamp <= m.timestamp
    <3> SUFFICES ASSUME NEW l \in 1..k PROVE ms[l].timestamp <= m.timestamp
      OBVIOUS
    <3>1. k \in DOMAIN ms /\ l \in DOMAIN ms /\ l <= k /\ k > 0
      BY <1>3
    <3>2. ms[l].timestamp <= ms[k].timestamp /\ ms[k].timestamp < m.timestamp
      BY <1>1, <2>4, <3>1
    <3> QED BY <2>2, <2>3, <3>1, <3>2
  <2>6. \A l \in (k + 1)..Len(ms) : m.timestamp <= ms[l].timestamp
    <3> SUFFICES ASSUME NEW l \in (k + 1)..Len(ms) PROVE m.timestamp <= ms[l].timestamp
      OBVIOUS
    <3>1. l \in DOMAIN ms
      BY <1>3
    <3> QED BY <1>1, <2>1, <2>2, <2>3, <3>1
  <2>7. CASE j \in 1..k
    <3>1. i \in 1..k /\ i \in DOMAIN ms /\ j \in DOMAIN ms /\ i <= j
      BY <1>3, <1>6, <2>7
    <3> QED BY <1>2, <2>4, <2>7, <3>1
  <2>8. CASE j = k + 1
    <3>1. i \in 1..k
      BY <1>3, <1>6, <2>8
    <3> QED BY <1>2, <2>5, <2>8, <3>1
  <2>9. CASE j - 1 \in (k + 1)..Len(ms) /\ j - 1 \in DOMAIN ms
    <3>1. new[j] = ms[j - 1]
      BY <1>2, <1>3, <2>9
    <3>2. CASE i \in 1..k
      <4>1. i \in DOMAIN ms /\ i <= j - 1
        BY <1>3, <2>9, <3>2
      <4> QED BY <1>2, <2>4, <2>9, <3>1, <3>2, <4>1
    <3>3. CASE i = k + 1
      BY <1>2, <2>6, <2>9, <3>1, <3>3
    <3>4. CASE i - 1 \in (k + 1)..Len(ms) /\ i - 1 \in DOMAIN ms
      <4>1. new[i] = ms[i - 1] /\ i - 1 <= j - 1
        BY <1>2, <1>3, <1>6, <3>4
      <4> QED BY <2>4, <2>9, <3>1, <3>4, <4>1
    <3> QED BY <1>4, <3>2, <3>3, <3>4
  <2> QED BY <1>4, <2>7, <2>8, <2>9
<1>7. InOrder(ms) => InOrder(new)
  BY <1>6 DEF InOrder
<1> QED BY <1>2, <1>5, <1>7 DEF new

-----------------------------------------------------------------------------
(* Types *)

App == [ws : Sockets \cup {None}, isOpen : BOOLEAN, uuid : Sockets \cup {None, "other"},
        messages : Seq(Shown)]

States == {"none", "connecting", "open", "failing", "closing", "closed"}

TypeInv ==
    /\ app \in App /\ ready \in [Sockets -> States]
    /\ got \in [Sockets -> Nat] /\ joined \in SUBSET Sockets

\* reset leaves an app without a socket, a user or messages.
LEMMA ResetFields ==
    ASSUME app \in App
    PROVE  /\ reset(app) \in App /\ reset(app).ws = None /\ reset(app).uuid = None
           /\ reset(app).messages = <<>>
           /\ reset(app).isOpen = (app.isOpen /\ ~isConnected(app))
<1>1. <<>> \in Seq(Shown)
  OBVIOUS
<1>2. (app.isOpen /\ ~isConnected(app)) \in BOOLEAN
  BY DEF isConnected
<1> QED BY <1>1, <1>2 DEF reset, App

\* ws.close() touches no socket but the app's.
LEMMA ClosedByReset ==
    ASSUME TypeInv
    PROVE  /\ closed_by_reset(ready, app) \in [Sockets -> States]
           /\ \A s \in Sockets : s # app.ws => closed_by_reset(ready, app)[s] = ready[s]
           /\ isConnected(app) =>
                 closed_by_reset(ready, app)[app.ws] =
                    IF ready[app.ws] = "connecting" THEN "failing" ELSE "closing"
           /\ ~isConnected(app) => closed_by_reset(ready, app) = ready
<1>1. isConnected(app) => app.ws \in Sockets
  BY DEF TypeInv, App, isConnected
<1> QED BY <1>1 DEF TypeInv, closed_by_reset, States

\* A parsed message is one to be shown; only its timestamp may differ.
LEMMA Parsed ==
    ASSUME NEW s \in Sockets, NEW raw \in Sent(s)
    PROVE  /\ parseMessage(raw) \in Shown
           /\ parseMessage(raw).via = s /\ parseMessage(raw).action = raw.action
           /\ parseMessage(raw).contents = raw.contents
<1>1. /\ raw \in [via : {s}, action : Actions, contents : {s, "other"}, timestamp : Stamps]
      /\ raw.timestamp \in Int
  BY WebAssumption DEF Sent
<1> DEFINE t == IF raw.timestamp = Undefined THEN raw.timestamp
                ELSE IF raw.timestamp < 0 THEN -raw.timestamp ELSE raw.timestamp
<1>2. t \in Nat \cup {Undefined}
  BY <1>1
<1>3. parseMessage(raw) = [raw EXCEPT !.timestamp = t]
  BY DEF parseMessage
<1> HIDE DEF t
<1> QED BY <1>1, <1>2, <1>3 DEF Shown

\* What a message does to the app: it resets it, and leaves at most itself to be seen, or
\* it is shown among the others, and the user may get a name.
LEMMA Delivery ==
    ASSUME TypeInv, NEW s \in Sockets, messageHandler(s)
    PROVE  \E raw \in Sent(s), m \in Shown :
              /\ m.via = s /\ m.action = raw.action /\ m.contents = raw.contents
              /\ \/ /\ m.action \in {"error", "disconnect"} \/ app'.messages = <<>>
                    /\ app' \in App /\ app'.ws = None /\ app'.uuid = None
                    /\ app'.isOpen = (app.isOpen /\ ~isConnected(app))
                    /\ app'.messages = <<>> \/ app'.messages = insert(<<>>, m)
                    /\ ready' = closed_by_reset(ready, app)
                    /\ \/ m.action \notin {"connect", "chat", "disconnect"}
                       \/ m.action = "disconnect" /\ m.contents = app.uuid
                 \/ /\ app' \in App /\ app'.ws = app.ws /\ app'.isOpen = app.isOpen
                    /\ app'.messages = insert(app.messages, m)
                    /\ app'.uuid = IF m.action = "connect" /\ app.uuid = None
                                   THEN m.contents ELSE app.uuid
                    /\ ready' = ready
<1> DEFINE M(raw) == parseMessage(raw)
           known(m)  == m.action \in {"connect", "chat", "disconnect", "error"}
           resets(m) == \/ ~known(m) \/ m.action = "error"
                        \/ m.action = "disconnect" /\ m.contents = app.uuid
           a(m) == CASE resets(m) -> reset(app)
                     [] m.action = "connect" /\ app.uuid = None -> [app EXCEPT !.uuid = m.contents]
                     [] OTHER -> app
<1>1. PICK raw \in Sent(s) :
         /\ app' = IF known(M(raw)) THEN [a(M(raw)) EXCEPT !.messages = insert(@, M(raw))]
                   ELSE a(M(raw))
         /\ ready' = IF resets(M(raw)) THEN closed_by_reset(ready, app) ELSE ready
  BY DEF messageHandler
<1>2. PICK m \in Shown : m = M(raw)
  BY Parsed
<1>3. /\ m.via = s /\ m.action = raw.action /\ m.contents = raw.contents
      /\ m.contents \in {s, "other"}
  BY <1>2, Parsed DEF Sent
<1>4. /\ app' = IF known(m) THEN [a(m) EXCEPT !.messages = insert(@, m)] ELSE a(m)
      /\ ready' = IF resets(m) THEN closed_by_reset(ready, app) ELSE ready
  BY <1>1, <1>2
<1> HIDE DEF M
<1>5. app \in App /\ app.messages \in Seq(Shown) /\ <<>> \in Seq(Shown)
  BY DEF TypeInv, App
<1>6. CASE resets(m)
  <2>1. a(m) = reset(app)
    BY <1>6
  <2>2. CASE known(m)
    <3>1. insert(<<>>, m) \in Seq(Shown)
      BY <1>5, InsertKeeps
    <3>2. app' = [reset(app) EXCEPT !.messages = insert(<<>>, m)]
      BY <1>4, <1>5, <2>1, <2>2, ResetFields
    <3>3. /\ app' \in App /\ app'.ws = None /\ app'.uuid = None
          /\ app'.isOpen = (app.isOpen /\ ~isConnected(app))
          /\ app'.messages = insert(<<>>, m)
      BY <1>5, <3>1, <3>2, ResetFields DEF App
    <3>4. /\ m.action \in {"error", "disconnect"}
          /\ \/ m.action \notin {"connect", "chat", "disconnect"}
             \/ m.action = "disconnect" /\ m.contents = app.uuid
      BY <1>6, <2>2
    <3> QED BY <1>3, <1>4, <1>6, <3>3, <3>4
  <2>3. CASE ~known(m)
    <3>1. app' = reset(app)
      BY <1>4, <2>1, <2>3
    <3>2. m.action \notin {"connect", "chat", "disconnect"}
      BY <2>3
    <3> QED BY <1>3, <1>4, <1>5, <1>6, <3>1, <3>2, ResetFields
  <2> QED BY <2>2, <2>3
<1>7. CASE ~resets(m)
  <2>1. known(m)
    BY <1>7
  <2>2. insert(app.messages, m) \in Seq(Shown)
    BY <1>5, InsertKeeps
  <2>3. /\ a(m) \in App /\ a(m).ws = app.ws /\ a(m).isOpen = app.isOpen
        /\ a(m).messages = app.messages
        /\ a(m).uuid = IF m.action = "connect" /\ app.uuid = None THEN m.contents ELSE app.uuid
    <3>1. CASE m.action = "connect" /\ app.uuid = None
      <4>1. a(m) = [app EXCEPT !.uuid = m.contents]
        BY <1>7, <3>1
      <4> HIDE DEF a
      <4> QED BY <1>3, <1>5, <3>1, <4>1 DEF App
    <3>2. CASE ~(m.action = "connect" /\ app.uuid = None)
      <4>1. a(m) = app
        BY <1>7, <3>2
      <4> HIDE DEF a
      <4> QED BY <1>5, <3>2, <4>1
    <3> QED BY <3>1, <3>2
  <2> HIDE DEF a
  <2>4. app' = [a(m) EXCEPT !.messages = insert(app.messages, m)]
    BY <1>4, <2>1, <2>3
  <2>5. /\ app' \in App /\ app'.ws = app.ws /\ app'.isOpen = app.isOpen
        /\ app'.messages = insert(app.messages, m) /\ app'.uuid = a(m).uuid
    BY <2>2, <2>3, <2>4 DEF App
  <2> QED BY <1>3, <1>4, <1>7, <2>3, <2>5
<1> QED BY <1>6, <1>7

\* The page starts with no socket.
LEMMA TypeInit == Init => TypeInv
<1> SUFFICES ASSUME Init PROVE TypeInv
  OBVIOUS
<1>1. <<>> \in Seq(Shown)
  OBVIOUS
<1> QED BY <1>1 DEF Init, TypeInv, App, States

\* Every event and every action of the user keeps the types.
LEMMA TypeStep == ASSUME TypeInv, [Next]_vars PROVE TypeInv'
<1>0. /\ app \in App /\ ready \in [Sockets -> States]
      /\ got \in [Sockets -> Nat] /\ joined \in SUBSET Sockets
  BY DEF TypeInv
<1>1. reset(app) \in App /\ closed_by_reset(ready, app) \in [Sockets -> States]
  BY <1>0, ResetFields, ClosedByReset
<1>2. CASE Leave \/ ConnectThrows
  BY <1>0, <1>1, <1>2 DEF Leave, ConnectThrows, TypeInv
<1>3. ASSUME NEW s \in Sockets, Connect(s) PROVE TypeInv'
  <2>1. app' \in App
    BY <1>0, <1>1, <1>3 DEF Connect, App
  <2>2. ready' \in [Sockets -> States]
    BY <1>1, <1>3 DEF Connect, States
  <2> QED BY <1>0, <1>3, <2>1, <2>2 DEF Connect, TypeInv
<1>4. ASSUME NEW s \in Sockets, openHandler(s) PROVE TypeInv'
  <2>1. app' \in App
    BY <1>0, <1>4 DEF openHandler, App
  <2>2. ready' \in [Sockets -> States] /\ joined' \in SUBSET Sockets
    BY <1>0, <1>4 DEF openHandler, States
  <2> QED BY <1>0, <1>4, <2>1, <2>2 DEF openHandler, TypeInv
<1>5. ASSUME NEW s \in Sockets, messageHandler(s) PROVE TypeInv'
  <2>1. app' \in App /\ ready' \in [Sockets -> States]
    <3>1. app' \in App /\ (ready' = ready \/ ready' = closed_by_reset(ready, app))
      BY <1>5, Delivery
    <3> QED BY <1>0, <1>1, <3>1
  <2>2. got' \in [Sockets -> Nat] /\ joined' = joined
    BY <1>0, <1>5 DEF messageHandler
  <2> QED BY <1>0, <2>1, <2>2 DEF TypeInv
<1>6. ASSUME NEW s \in Sockets, errorHandler(s) \/ closeHandler(s) PROVE TypeInv'
  <2>1. app' \in App
    BY <1>0, <1>1, <1>6 DEF errorHandler, closeHandler
  <2>2. ready' \in [Sockets -> States]
    BY <1>1, <1>6 DEF errorHandler, closeHandler, States
  <2> QED BY <1>0, <1>6, <2>1, <2>2 DEF errorHandler, closeHandler, TypeInv
<1>7. CASE UNCHANGED vars
  BY <1>7 DEF vars, TypeInv
<1> QED BY <1>2, <1>3, <1>4, <1>5, <1>6, <1>7 DEF Next

-----------------------------------------------------------------------------
(* Sockets *)

\* A socket that was joined has opened, and the app knows that its own is open.
SocketInv ==
    /\ Held
    /\ app.ws # None /\ ready[app.ws] = "open" => app.isOpen
    /\ \A s \in joined : ready[s] \in {"open", "closing", "closed"}

\* Once the app is reset, no socket that was joined is open.
LEMMA ResetLeavesNone ==
    ASSUME TypeInv, SocketInv
    PROVE  \A s \in joined : closed_by_reset(ready, app)[s] \in {"closing", "closed"}
<1> SUFFICES ASSUME NEW s \in joined
             PROVE  closed_by_reset(ready, app)[s] \in {"closing", "closed"}
  OBVIOUS
<1>1. s \in Sockets /\ ready[s] \in {"open", "closing", "closed"} /\ None \notin Sockets
  BY WebAssumption DEF TypeInv, SocketInv
<1>2. CASE s # app.ws
  <2>1. closed_by_reset(ready, app)[s] = ready[s] /\ ready[s] # "open"
    BY <1>1, <1>2, ClosedByReset DEF SocketInv, Held
  <2> QED BY <1>1, <2>1
<1>3. CASE s = app.ws
  <2>1. ready[app.ws] = "open" /\ isConnected(app)
    BY <1>1, <1>3 DEF SocketInv, Held, isConnected
  <2> QED BY <1>3, <2>1, ClosedByReset
<1> QED BY <1>2, <1>3

\* Old sockets and late events included, every step keeps it so.
LEMMA SocketStep ==
    ASSUME TypeInv, TypeInv', SocketInv, [Next]_vars
    PROVE  SocketInv'
<1>0. /\ app \in App /\ ready \in [Sockets -> States] /\ joined \subseteq Sockets
      /\ None \notin Sockets
  BY WebAssumption DEF TypeInv
<1>1. /\ reset(app).ws = None
      /\ \A s \in joined : closed_by_reset(ready, app)[s] \in {"closing", "closed"}
  BY <1>0, ResetFields, ResetLeavesNone
<1>2. ASSUME app'.ws = None, joined' = joined,
             \A s \in joined : ready'[s] \in {"closing", "closed"}
      PROVE  SocketInv'
  BY <1>2 DEF SocketInv, Held
<1>3. CASE Leave \/ ConnectThrows
  BY <1>1, <1>2, <1>3 DEF Leave, ConnectThrows
<1>4. ASSUME NEW s \in Sockets, Connect(s) PROVE SocketInv'
  <2>1. /\ ready[s] = "none" /\ joined' = joined
        /\ ready' = [closed_by_reset(ready, app) EXCEPT ![s] = "connecting"]
    BY <1>4 DEF Connect
  <2>2. app'.ws = s
    BY <1>0, <1>4, ResetFields DEF Connect, App
  <2>3. s \notin joined
    BY <2>1 DEF SocketInv
  <2>4. /\ ready'[s] = "connecting"
        /\ \A t \in Sockets : t # s => ready'[t] = closed_by_reset(ready, app)[t]
    BY <2>1, ClosedByReset
  <2>5. \A t \in joined : ready'[t] \in {"closing", "closed"}
    BY <1>0, <1>1, <2>3, <2>4
  <2> QED BY <2>1, <2>2, <2>4, <2>5 DEF SocketInv, Held
<1>5. ASSUME NEW s \in Sockets, openHandler(s) PROVE SocketInv'
  <2>1. /\ ready[s] = "connecting" /\ ready'[s] = "open"
        /\ \A t \in Sockets : t # s => ready'[t] = ready[t]
    BY <1>0, <1>5 DEF openHandler
  <2>2. app'.ws = app.ws /\ app'.isOpen
    BY <1>0, <1>5 DEF openHandler, App
  <2>3. joined' = IF app.ws = s THEN joined \cup {s} ELSE joined
    BY <1>5 DEF openHandler
  <2>4. s \notin joined
    BY <2>1 DEF SocketInv
  <2>5. app'.ws # None => ready'[app'.ws] \in {"connecting", "open"}
    BY <1>0, <2>1, <2>2 DEF SocketInv, Held, App
  <2>6. \A t \in joined' \ {app'.ws} : ready'[t] # "open"
    BY <1>0, <2>1, <2>2, <2>3, <2>4 DEF SocketInv, Held
  <2>7. \A t \in joined' : ready'[t] \in {"open", "closing", "closed"}
    BY <1>0, <2>1, <2>3, <2>4 DEF SocketInv
  <2> QED BY <2>2, <2>5, <2>6, <2>7 DEF SocketInv, Held
<1>6. ASSUME NEW s \in Sockets, messageHandler(s) PROVE SocketInv'
  <2>1. joined' = joined
    BY <1>6 DEF messageHandler
  <2>2. \/ app'.ws = None /\ ready' = closed_by_reset(ready, app)
        \/ app'.ws = app.ws /\ app'.isOpen = app.isOpen /\ ready' = ready
    BY <1>6, Delivery
  <2>3. CASE app'.ws = None /\ ready' = closed_by_reset(ready, app)
    BY <1>1, <1>2, <2>1, <2>3
  <2>4. CASE app'.ws = app.ws /\ app'.isOpen = app.isOpen /\ ready' = ready
    BY <2>1, <2>4 DEF SocketInv, Held
  <2> QED BY <2>2, <2>3, <2>4
<1>7. ASSUME NEW s \in Sockets, errorHandler(s) PROVE SocketInv'
  <2>1. /\ app'.ws = None /\ joined' = joined
        /\ ready' = [closed_by_reset(ready, app) EXCEPT ![s] = "closed"]
    BY <1>1, <1>7 DEF errorHandler
  <2>2. \A t \in joined : ready'[t] \in {"closing", "closed"}
    BY <1>0, <1>1, <2>1, ClosedByReset
  <2> QED BY <1>2, <2>1, <2>2
<1>8. ASSUME NEW s \in Sockets, closeHandler(s) PROVE SocketInv'
  <2>1. /\ ready[s] \in {"open", "closing"} /\ joined' = joined
        /\ ready' = [closed_by_reset(ready, app) EXCEPT ![s] = "closed"]
        /\ app' = IF isConnected(app) THEN reset(app) ELSE app
    BY <1>8 DEF closeHandler
  <2>2. \A t \in joined : ready'[t] \in {"closing", "closed"}
    BY <1>0, <1>1, <2>1, ClosedByReset
  <2>3. CASE isConnected(app)
    BY <1>1, <1>2, <2>1, <2>2, <2>3
  <2>4. CASE ~isConnected(app)
    <3>1. app' = app /\ \A t \in Sockets : t # s => ready'[t] = ready[t]
      BY <1>0, <2>1, <2>4, ClosedByReset
    <3>2. app.ws # s
      BY <1>0, <2>1, <2>4 DEF SocketInv, Held, isConnected
    <3>3. app.ws # None => app.ws \in Sockets /\ ready'[app.ws] = ready[app.ws]
      BY <1>0, <3>1, <3>2 DEF App
    <3> QED BY <2>1, <2>2, <3>1, <3>3 DEF SocketInv, Held
  <2> QED BY <2>3, <2>4
<1>9. CASE UNCHANGED vars
  BY <1>9 DEF vars, SocketInv, Held
<1> QED BY <1>3, <1>4, <1>5, <1>6, <1>7, <1>8, <1>9 DEF Next

\* However late the events of old sockets come, the app never holds on to a socket that
\* is closing or closed, and leaves no room it joined with the socket open.
THEOREM SocketsHeld == Spec => []Held
<1>1. Init => SocketInv
  BY DEF Init, SocketInv, Held
<1>2. SocketInv => Held
  BY DEF SocketInv
<1> QED BY <1>1, <1>2, TypeInit, TypeStep, SocketStep, PTL DEF Spec

-----------------------------------------------------------------------------
(* Messages *)

\* Nothing of a room that was left is shown but what reset the app.
LastWords ==
    \A i \in DOMAIN app.messages :
        app.messages[i].via \in joined \ {app.ws} =>
            app.messages[i].action \in {"error", "disconnect"}

\* The messages shown: the last words of old rooms, in order.
MessageInv == LastWords /\ InOrder(app.messages)

\* An app without messages shows none of an old room, and none out of order.
LEMMA NoMessages == ASSUME app.messages = <<>> PROVE MessageInv
BY DEF MessageInv, LastWords, InOrder

\* Old sockets and late events included, every step keeps it so.
LEMMA MessageStep ==
    ASSUME TypeInv, TypeInv', SocketInv, MessageInv, [Next]_vars
    PROVE  MessageInv'
<1>0. /\ app \in App /\ app.messages \in Seq(Shown) /\ None \notin Sockets
      /\ joined \subseteq Sockets /\ reset(app).messages = <<>>
  BY WebAssumption, ResetFields DEF TypeInv, App
<1>1. app'.messages = <<>> => MessageInv'
  BY DEF MessageInv, LastWords, InOrder
<1>2. ASSUME app'.messages = app.messages, joined' \ {app'.ws} \subseteq joined \ {app.ws}
      PROVE  MessageInv'
  BY <1>2 DEF MessageInv, LastWords
<1>3. CASE Leave \/ ConnectThrows
  BY <1>0, <1>1, <1>3 DEF Leave, ConnectThrows
<1>4. ASSUME NEW s \in Sockets, Connect(s) PROVE MessageInv'
  <2>1. CASE isConnected(app)
    <3>1. app' = [reset(app) EXCEPT !.ws = s]
      BY <1>4, <2>1 DEF Connect
    <3>2. reset(app) \in App
      BY <1>0, ResetFields
    <3>3. app'.messages = <<>>
      BY <1>0, <3>1, <3>2 DEF App
    <3> QED BY <1>1, <3>3
  <2>2. CASE ~isConnected(app)
    <3>1. app' = [app EXCEPT !.ws = s] /\ joined' = joined
      BY <1>4, <2>2 DEF Connect
    <3>2. app'.messages = app.messages
      BY <1>0, <3>1 DEF App
    <3>3. app.ws \notin joined
      <4> SUFFICES ASSUME app.ws \in joined PROVE FALSE
        OBVIOUS
      <4>1. app.ws # None
        BY <1>0
      <4>2. ready[app.ws] = "open"
        BY <4>1 DEF SocketInv, Held
      <4> QED BY <2>2, <4>1, <4>2 DEF SocketInv, isConnected
    <3> QED BY <1>2, <3>1, <3>2, <3>3
  <2> QED BY <2>1, <2>2
<1>5. ASSUME NEW s \in Sockets, openHandler(s) PROVE MessageInv'
  <2>1. app'.messages = app.messages /\ app'.ws = app.ws
    BY <1>0, <1>5 DEF openHandler, App
  <2>2. joined' \ {app'.ws} \subseteq joined \ {app.ws}
    BY <1>5, <2>1 DEF openHandler
  <2> QED BY <1>2, <2>1, <2>2
<1>6. ASSUME NEW s \in Sockets, messageHandler(s) PROVE MessageInv'
  <2>1. ready[s] = "open" /\ joined' = joined
    BY <1>6 DEF messageHandler
  <2>2. s \notin joined \ {app.ws}
    BY <2>1 DEF SocketInv, Held
  <2>3. PICK m \in Shown :
           /\ m.via = s
           /\ \/ app'.messages = <<>>
              \/ m.action \in {"error", "disconnect"} /\ app'.messages = insert(<<>>, m)
              \/ app'.ws = app.ws /\ app'.messages = insert(app.messages, m)
    BY <1>6, Delivery
  <2>4. CASE m.action \in {"error", "disconnect"} /\ app'.messages = insert(<<>>, m)
    <3>1. <<>> \in Seq(Shown) /\ InOrder(<<>>) /\ DOMAIN <<>> = {}
      BY DEF InOrder
    <3>2. /\ InOrder(insert(<<>>, m))
          /\ \A j \in DOMAIN insert(<<>>, m) : insert(<<>>, m)[j] = m
      BY <3>1, InsertKeeps
    <3> QED BY <2>4, <3>2 DEF MessageInv, LastWords
  <2>5. CASE app'.ws = app.ws /\ app'.messages = insert(app.messages, m)
    <3>1. /\ InOrder(insert(app.messages, m))
          /\ \A j \in DOMAIN insert(app.messages, m) :
                \/ insert(app.messages, m)[j] = m
                \/ \E i \in DOMAIN app.messages : insert(app.messages, m)[j] = app.messages[i]
      BY <1>0, InsertKeeps DEF MessageInv
    <3>2. LastWords'
      BY <2>1, <2>2, <2>3, <2>5, <3>1 DEF MessageInv, LastWords
    <3> QED BY <2>5, <3>1, <3>2 DEF MessageInv
  <2> QED BY <1>1, <2>3, <2>4, <2>5
<1>7. ASSUME NEW s \in Sockets, errorHandler(s) PROVE MessageInv'
  BY <1>0, <1>1, <1>7 DEF errorHandler
<1>8. ASSUME NEW s \in Sockets, closeHandler(s) PROVE MessageInv'
  <2>1. CASE isConnected(app)
    BY <1>0, <1>1, <1>8, <2>1 DEF closeHandler
  <2>2. CASE ~isConnected(app)
    BY <1>2, <1>8, <2>2 DEF closeHandler
  <2> QED BY <2>1, <2>2
<1>9. CASE UNCHANGED vars
  BY <1>2, <1>9 DEF vars
<1> QED BY <1>3, <1>4, <1>5, <1>6, <1>7, <1>8, <1>9 DEF Next

\* The messages are shown in the order of their timestamps, in whatever order they come,
\* unless a server leaves some out.
THEOREM MessagesSorted == Spec => []Sorted
<1>1. Init => SocketInv /\ MessageInv
  <2> SUFFICES ASSUME Init PROVE SocketInv /\ MessageInv
    OBVIOUS
  <2>1. app.messages = <<>>
    BY DEF Init
  <2> QED BY <2>1, NoMessages DEF Init, SocketInv, Held
<1>2. MessageInv => Sorted
  BY DEF MessageInv, InOrder, Sorted
<1> QED BY <1>1, <1>2, TypeInit, TypeStep, SocketStep, MessageStep, PTL DEF Spec

-----------------------------------------------------------------------------
(* The user *)

\* No socket that never opened gave a message.
Silent == \A s \in Sockets : ready[s] \in {"none", "connecting"} => got[s] = 0

\* No socket was replaced before it opened, or none that was has given a message.
Faithful == \A s \in Sockets \ joined : got[s] = 0

\* The user is who the present server said first, until it has said anything.
Named == app.uuid = IF app.ws # None /\ got[app.ws] > 0 THEN app.ws ELSE None

UserInv == Silent /\ (Faithful => Named)

\* A server names its user in its first message, and no other socket is heard.
LEMMA UserStep ==
    ASSUME TypeInv, TypeInv', SocketInv, UserInv, [Next]_vars
    PROVE  UserInv'
<1>0. /\ app \in App /\ None \notin Sockets /\ joined \subseteq Sockets
      /\ ready \in [Sockets -> States] /\ got \in [Sockets -> Nat]
      /\ reset(app) \in App /\ reset(app).ws = None /\ reset(app).uuid = None
  BY WebAssumption, ResetFields DEF TypeInv
<1>1. \A s \in Sockets : closed_by_reset(ready, app)[s] \in {"none", "connecting"} =>
                            ready[s] \in {"none", "connecting"}
  <2> SUFFICES ASSUME NEW s \in Sockets,
                      closed_by_reset(ready, app)[s] \in {"none", "connecting"}
               PROVE  ready[s] \in {"none", "connecting"}
    OBVIOUS
  <2>1. closed_by_reset(ready, app)[s] = ready[s]
    BY ClosedByReset
  <2> QED BY <2>1
<1>2. ASSUME app'.ws = None, app'.uuid = None PROVE Named'
  BY <1>2 DEF Named
<1>3. CASE Leave \/ ConnectThrows
  BY <1>0, <1>1, <1>2, <1>3 DEF Leave, ConnectThrows, UserInv, Silent
<1>4. ASSUME NEW s \in Sockets, Connect(s) PROVE UserInv'
  <2>1. /\ ready[s] = "none" /\ got' = got /\ joined' = joined /\ got[s] = 0
        /\ ready' = [closed_by_reset(ready, app) EXCEPT ![s] = "connecting"]
    BY <1>4 DEF Connect, UserInv, Silent
  <2>2. Silent'
    <3>1. \A t \in Sockets : t # s => ready'[t] = closed_by_reset(ready, app)[t]
      BY <2>1, ClosedByReset
    <3> QED BY <1>1, <2>1, <3>1 DEF UserInv, Silent
  <2>3. app'.ws = s /\ app'.uuid = IF isConnected(app) THEN None ELSE app.uuid
    BY <1>0, <1>4 DEF Connect, App
  <2>4. ASSUME Faithful' PROVE app'.uuid = None
    <3>1. CASE isConnected(app)
      BY <2>3, <3>1
    <3>2. CASE ~isConnected(app)
      <4>1. Named
        BY <2>1, <2>4 DEF UserInv, Faithful
      <4>2. app.ws # None => got[app.ws] = 0
        <5> SUFFICES ASSUME app.ws # None PROVE got[app.ws] = 0
          OBVIOUS
        <5>1. app.ws \in Sockets /\ ready[app.ws] = "connecting"
          BY <1>0, <3>2 DEF SocketInv, Held, isConnected, App
        <5> QED BY <5>1 DEF UserInv, Silent
      <4> QED BY <2>3, <3>2, <4>1, <4>2 DEF Named
    <3> QED BY <3>1, <3>2
  <2> QED BY <2>1, <2>2, <2>3, <2>4 DEF UserInv, Named
<1>5. ASSUME NEW s \in Sockets, openHandler(s) PROVE UserInv'
  <2>1. /\ ready[s] = "connecting" /\ got' = got /\ got[s] = 0
        /\ ready' = [ready EXCEPT ![s] = "open"] /\ joined' \subseteq joined \cup {s}
    BY <1>5 DEF openHandler, UserInv, Silent
  <2>2. app'.ws = app.ws /\ app'.uuid = app.uuid
    BY <1>0, <1>5 DEF openHandler, App
  <2>3. Silent'
    BY <1>0, <2>1 DEF UserInv, Silent
  <2>4. Faithful' => Faithful
    BY <2>1 DEF Faithful
  <2> QED BY <2>1, <2>2, <2>3, <2>4 DEF UserInv, Named
<1>6. ASSUME NEW s \in Sockets, messageHandler(s) PROVE UserInv'
  <2>1. /\ ready[s] = "open" /\ joined' = joined
        /\ got'[s] = got[s] + 1 /\ \A t \in Sockets : t # s => got'[t] = got[t]
    BY <1>0, <1>6 DEF messageHandler
  <2>2. ready' = ready \/ ready' = closed_by_reset(ready, app)
    BY <1>6, Delivery
  <2>3. Silent'
    <3>1. ready'[s] \notin {"none", "connecting"}
      BY <1>1, <2>1, <2>2
    <3> QED BY <1>1, <2>1, <2>2, <3>1 DEF UserInv, Silent
  <2>4. ASSUME Faithful' PROVE Named'
    <3>1. s \in joined
      BY <1>0, <2>1, <2>4 DEF Faithful
    <3>2. app.ws = s
      BY <2>1, <3>1 DEF SocketInv, Held
    <3>3. Faithful
      BY <1>0, <2>1, <2>4, <3>1 DEF Faithful
    <3>4. app.uuid = IF got[s] > 0 THEN s ELSE None
      BY <1>0, <3>2, <3>3 DEF UserInv, Named
    <3>5. PICK raw \in Sent(s), m \in Shown :
             /\ m.action = raw.action /\ m.contents = raw.contents
             /\ \/ /\ app'.ws = None /\ app'.uuid = None
                \/ /\ app'.ws = app.ws
                   /\ app'.uuid = IF m.action = "connect" /\ app.uuid = None
                                  THEN m.contents ELSE app.uuid
      BY <1>6, Delivery
    <3>6. got[s] = 0 => m.action = "connect" /\ m.contents = s
      BY <3>5 DEF Sent
    <3>7. CASE app'.ws = None /\ app'.uuid = None
      BY <1>2, <3>7
    <3>8. CASE /\ app'.ws = app.ws
               /\ app'.uuid = IF m.action = "connect" /\ app.uuid = None
                              THEN m.contents ELSE app.uuid
      <4>1. app'.uuid = s
        BY <1>0, <3>4, <3>6, <3>8
      <4>2. got'[s] > 0 /\ s # None
        BY <1>0, <2>1
      <4> QED BY <3>2, <3>8, <4>1, <4>2 DEF Named
    <3> QED BY <3>5, <3>7, <3>8
  <2> QED BY <2>3, <2>4 DEF UserInv
<1>7. ASSUME NEW s \in Sockets, errorHandler(s) PROVE UserInv'
  <2>1. /\ app' = reset(app) /\ got' = got
        /\ ready' = [closed_by_reset(ready, app) EXCEPT ![s] = "closed"]
    BY <1>7 DEF errorHandler
  <2>2. \A t \in Sockets : ready'[t] \in {"none", "connecting"} =>
                              ready[t] \in {"none", "connecting"}
    BY <1>1, <2>1, ClosedByReset
  <2> QED BY <1>0, <1>2, <2>1, <2>2 DEF UserInv, Silent
<1>8. ASSUME NEW s \in Sockets, closeHandler(s) PROVE UserInv'
  <2>1. /\ got' = got /\ joined' = joined
        /\ app' = IF isConnected(app) THEN reset(app) ELSE app
        /\ ready' = [closed_by_reset(ready, app) EXCEPT ![s] = "closed"]
    BY <1>8 DEF closeHandler
  <2>2. \A t \in Sockets : ready'[t] \in {"none", "connecting"} =>
                              ready[t] \in {"none", "connecting"}
    BY <1>1, <2>1, ClosedByReset
  <2>3. Silent'
    BY <2>1, <2>2 DEF UserInv, Silent
  <2>4. CASE isConnected(app)
    BY <1>0, <1>2, <2>1, <2>3, <2>4 DEF UserInv
  <2>5. CASE ~isConnected(app)
    BY <2>1, <2>3, <2>5 DEF UserInv, Faithful, Named
  <2> QED BY <2>4, <2>5
<1>9. CASE UNCHANGED vars
  BY <1>9 DEF vars, UserInv, Silent, Faithful, Named
<1> QED BY <1>3, <1>4, <1>5, <1>6, <1>7, <1>8, <1>9 DEF Next

\* Nothing of a room that was left is shown but its last word, and the user speaks as
\* who the present server takes them for.
THEOREM OneRoomShown == Spec => []OneRoom
<1>1. Init => SocketInv /\ MessageInv /\ UserInv
  <2> SUFFICES ASSUME Init PROVE SocketInv /\ MessageInv /\ UserInv
    OBVIOUS
  <2>1. app.messages = <<>>
    BY DEF Init
  <2>2. MessageInv
    BY <2>1, NoMessages
  <2> QED BY <2>2 DEF Init, SocketInv, Held, UserInv, Silent, Named
<1>2. MessageInv /\ UserInv => OneRoom
  <2> SUFFICES ASSUME MessageInv, UserInv PROVE OneRoom
    OBVIOUS
  <2>1. Faithful => app.uuid \in {None, app.ws}
    BY DEF UserInv, Named
  <2> QED BY <2>1 DEF MessageInv, LastWords, Faithful, OneRoom
<1> QED BY <1>1, <1>2, TypeInit, TypeStep, SocketStep, MessageStep, UserStep, PTL DEF Spec
=============================================================================
