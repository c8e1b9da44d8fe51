--------------------------- MODULE CppFrontProofs ---------------------------
(***************************************************************************)
(* What leads to the chat of wschat-cpp, for any number of peers, requests *)
(* and texts: an HttpSession answers each request in its place, and        *)
(* WsConn::handle relays a text, but for its timestamp, or refuses it.     *)
(***************************************************************************)
EXTENDS CppFront, TLAPS

\* What is written for a request.
Response == [status : Statuses, keep_alive : BOOLEAN]
Request  == UNION {Asks[p] : p \in Peers}
Result   == UNION {Outcomes(t) : t \in Texts}

-----------------------------------------------------------------------------
(* The codec *)

\* Every whole number of int64_t comes back from its text.
LEMMA LiteralRead == \A n \in Int64 : ToInt64(Literal(n)) = n
<1> SUFFICES ASSUME NEW n \in Int64 PROVE ToInt64(Literal(n)) = n
  OBVIOUS
<1> DEFINE h == 2^(Width - 1)
<1>1. h \in Nat \ {0} /\ 2^Width = 2 * h
  BY WidthAssumption
<1>2. n \in -h .. h - 1
  BY DEF Int64
<1> HIDE DEF h
<1>3. CASE n >= 0
  <2>1. Literal(n)[1] = "unsigned" /\ Literal(n)[2] = n
    BY <1>3 DEF Literal
  <2>2. ToInt64(Literal(n)) = ((n + h) % (2 * h)) - h
    BY <1>1, <2>1 DEF ToInt64, h
  <2>3. \A a, b \in Nat : a < b => a % b = a
    OBVIOUS
  <2>4. n + h \in Nat /\ 2 * h \in Nat /\ n + h < 2 * h
    BY <1>1, <1>2, <1>3
  <2>5. (n + h) % (2 * h) = n + h
    BY <2>3, <2>4
  <2> QED BY <1>1, <1>2, <2>2, <2>5
<1>4. CASE ~(n >= 0)
  <2>1. Literal(n)[1] = "integer" /\ Literal(n)[2] = n
    BY <1>4 DEF Literal
  <2> QED BY <2>1 DEF ToInt64
<1> QED BY <1>3, <1>4

\* Whatever number a text holds becomes one of int64_t.
LEMMA NumberFits ==
    ASSUME NEW v, IsValue(v), IsNumber(v)
    PROVE  ToInt64(v) \in Int64
<1> DEFINE h == 2^(Width - 1)
<1>1. h \in Nat \ {0} /\ 2^Width = 2 * h
  BY WidthAssumption
<1>2. Int64 = -h .. h - 1
  BY DEF Int64
<1>3. CASE v[1] = "unsigned"
  <2>1. v[2] \in 0 .. 2 * h - 1 /\ ToInt64(v) = ((v[2] + h) % (2 * h)) - h
    BY <1>1, <1>3 DEF IsValue, ToInt64
  <2> HIDE DEF h
  <2>2. \A a, b \in Nat : 0 < b => a % b \in 0 .. b - 1
    OBVIOUS
  <2>3. v[2] + h \in Nat /\ 2 * h \in Nat /\ 0 < 2 * h
    BY <1>1, <2>1
  <2>4. (v[2] + h) % (2 * h) \in 0 .. 2 * h - 1
    BY <2>2, <2>3
  <2> QED BY <1>1, <1>2, <2>1, <2>4
<1>4. CASE v[1] = "integer"
  <2>1. v[2] \in -h .. 0 /\ ToInt64(v) = v[2]
    BY <1>1, <1>4 DEF IsValue, ToInt64
  <2> HIDE DEF h
  <2> QED BY <1>1, <1>2, <2>1
<1>5. CASE v[1] = "float"
  <2>1. /\ v[2] \in -(2 * h) - 1 .. 2 * h - 1
        /\ ToInt64(v) = IF v[2] >= 0 THEN v[2] \div 2 ELSE -((-v[2]) \div 2)
    BY <1>1, <1>5 DEF IsValue, ToInt64
  <2> HIDE DEF h
  <2>2. \A a \in Nat : a <= 2 * h + 1 => a \div 2 \in 0..h
    BY <1>1
  <2>3. \A a \in Nat : a <= 2 * h - 1 => a \div 2 \in 0 .. h - 1
    BY <1>1
  <2>4. CASE v[2] >= 0
    BY <1>1, <1>2, <2>1, <2>3, <2>4
  <2>5. CASE ~(v[2] >= 0)
    <3>1. -v[2] \in Nat /\ -v[2] <= 2 * h + 1
      BY <1>1, <2>1, <2>5
    <3>2. (-v[2]) \div 2 \in 0..h
      BY <2>2, <3>1
    <3> QED BY <1>1, <1>2, <2>1, <2>5, <3>2
  <2> QED BY <2>4, <2>5
<1> QED BY <1>3, <1>4, <1>5 DEF IsNumber

\* A message in memory.
MessageOf(s, a, c, t) == [sender |-> s, action |-> a, contents |-> c, timestamp |-> t]

\* The text of a message has its four fields, and is read as the same message,
\* whatever the memory held before.
Read(s, a, c, t, msg) ==
    /\ Accepts(serialize(msg))
    /\ \A raw \in Int64 : from_json(serialize(msg), raw) = msg
    /\ serialize(msg)[2].sender = <<"string", s>>
    /\ serialize(msg)[2].action = <<"string", action_str[a]>>
    /\ serialize(msg)[2].contents = <<"string", c>>
    /\ serialize(msg)[2].timestamp = Literal(t)

\* What was written is read.
LEMMA TextRead ==
    \A s, c : \A a \in Action : \A t \in Int64 : Read(s, a, c, t, MessageOf(s, a, c, t))
<1> SUFFICES ASSUME NEW s, NEW c, NEW a \in Action, NEW t \in Int64
             PROVE  Read(s, a, c, t, MessageOf(s, a, c, t))
  OBVIOUS
<1> DEFINE msg == MessageOf(s, a, c, t)
<1>1. serialize(msg) = <<"object", [sender    |-> <<"string", s>>,
                                     action    |-> <<"string", action_str[a]>>,
                                     contents  |-> <<"string", c>>,
                                     timestamp |-> Literal(t)]>>
  BY DEF serialize, to_json, MessageOf
<1> DEFINE f == [sender    |-> <<"string", s>>,
                 action    |-> <<"string", action_str[a]>>,
                 contents  |-> <<"string", c>>,
                 timestamp |-> Literal(t)]
<1>2. /\ serialize(msg)[1] = "object" /\ serialize(msg)[2] = f
      /\ DOMAIN f = {"sender", "action", "contents", "timestamp"}
      /\ f.sender = <<"string", s>> /\ f.action = <<"string", action_str[a]>>
      /\ f.contents = <<"string", c>> /\ f.timestamp = Literal(t)
  BY <1>1
<1> HIDE DEF f
<1>3. action_str[a] \in DOMAIN action_from_string /\ action_from_string[action_str[a]] = a
  BY DEF Action, action_str, action_from_string
<1>4. IsNumber(Literal(t))
  BY DEF IsNumber, Literal
<1>5. Accepts(serialize(msg))
  BY <1>2, <1>3, <1>4 DEF Accepts, Has, IsString
<1>6. ASSUME NEW raw \in Int64 PROVE from_json(serialize(msg), raw) = msg
  <2>1. from_json(serialize(msg), raw) =
           [sender |-> s, action |-> a, contents |-> c, timestamp |-> ToInt64(Literal(t))]
    <3> DEFINE v == serialize(msg)
    <3>1. /\ v[2].sender[2] = s /\ v[2].contents[2] = c /\ v[2].timestamp = Literal(t)
          /\ action_from_string[v[2].action[2]] = a
          /\ Has(v, "action") /\ Has(v, "contents") /\ Has(v, "timestamp")
      BY <1>2, <1>3 DEF Has
    <3> HIDE DEF v
    <3>2. from_json(v, raw) =
             [sender |-> s, action |-> a, contents |-> c, timestamp |-> ToInt64(Literal(t))]
      BY <3>1 DEF from_json
    <3> QED BY <3>2 DEF v
  <2> QED BY <2>1, LiteralRead DEF MessageOf
<1> QED BY <1>2, <1>5, <1>6 DEF Read

\* The README has the names of the actions, and so has the code.
LEMMA Names ==
    /\ DOMAIN action_from_string = {"connect", "chat", "disconnect", "error"}
    /\ \A n \in DOMAIN action_from_string :
          action_from_string[n] \in Action /\ action_str[action_from_string[n]] = n
    /\ \A a \in Action : action_str[a] \in DOMAIN action_from_string
BY DEF Action, action_str, action_from_string

\* What the code understands is a message with a sender.
LEMMA AcceptsConforming ==
    ASSUME NEW v
    PROVE  /\ Accepts(v) => Conforms(v)
           /\ Complete(v) => Accepts(v)
<1>1. Accepts(v) <=>
         /\ v[1] = "object"
         /\ Has(v, "sender") /\ IsString(v[2].sender)
         /\ Has(v, "action") => /\ IsString(v[2].action)
                                /\ v[2].action[2] \in {"connect", "chat", "disconnect", "error"}
         /\ Has(v, "contents") => IsString(v[2].contents)
         /\ Has(v, "timestamp") => IsNumber(v[2].timestamp)
  BY Names, Zenon DEF Accepts
<1>2. Conforms(v) <=>
         /\ v[1] = "object"
         /\ Has(v, "sender") => IsString(v[2].sender)
         /\ Has(v, "action") => /\ IsString(v[2].action)
                                /\ v[2].action[2] \in {"connect", "chat", "disconnect", "error"}
         /\ Has(v, "contents") => IsString(v[2].contents)
         /\ Has(v, "timestamp") => IsNumber(v[2].timestamp)
  BY DEF Conforms, Fields, Fits
<1>3. Complete(v) => Conforms(v) /\ Has(v, "sender")
  BY DEF Complete, Fields
<1> QED BY <1>1, <1>2, <1>3

\* The text of a message is complete.
LEMMA ReadComplete ==
    ASSUME NEW s, NEW c, NEW a \in Action, NEW t \in Int64, NEW msg, Read(s, a, c, t, msg)
    PROVE  Complete(serialize(msg))
<1>1. Conforms(serialize(msg))
  BY AcceptsConforming DEF Read
<1>2. \A key \in Fields : Has(serialize(msg), key)
  BY DEF serialize, to_json, Has, Fields
<1> QED BY <1>1, <1>2 DEF Complete

\* What the server says itself is a complete message of its own, and what it refuses is not.
LEMMA RefusalFits ==
    ASSUME NEW sent, ~Accepts(sent), NEW got \in Outcomes(sent)
    PROVE  Relayed(sent, got) /\ got.op = "send"
<1> DEFINE msg == SystemMessage("Error", "bad message")
<1>1. got = [op |-> "send", text |-> serialize(msg)]
  BY Zenon DEF Outcomes
<1>2. msg = MessageOf("system", "Error", "bad message", 0)
  BY DEF SystemMessage, get_timestamp, MessageOf
<1>3. "Error" \in Action /\ action_str["Error"] = "error"
  BY DEF Action, action_str
<1>4. 0 \in Int64
  BY WidthAssumption DEF Int64
<1> HIDE DEF msg
<1>5. Read("system", "Error", "bad message", 0, msg)
  BY <1>2, <1>3, <1>4, TextRead, Zenon
<1>6. Complete(serialize(msg)) /\ ~Complete(sent)
  BY <1>3, <1>4, <1>5, ReadComplete, AcceptsConforming
<1>7. got.op = "send" /\ got.text = serialize(msg)
  BY <1>1
<1>8. /\ serialize(msg)[2].action = <<"string", "error">>
      /\ serialize(msg)[2].sender = <<"string", "system">>
      /\ \A raw \in Int64 : from_json(serialize(msg), raw) = msg
  BY <1>3, <1>5, Zenon DEF Read
<1>9. /\ got.text[2].action[2] = "error" /\ got.text[2].sender[2] = "system"
      /\ \A raw \in Int64 : serialize(from_json(got.text, raw)) = got.text
  BY <1>7, <1>8
<1> QED BY <1>6, <1>7, <1>9 DEF Relayed

\* A text that is understood keeps its sender, its action and its contents.
LEMMA RelayFits ==
    ASSUME NEW sent \in Texts, Accepts(sent), NEW got \in Outcomes(sent)
    PROVE  Relayed(sent, got) /\ got.op = "broadcast"
<1>1. PICK raw \in Int64 : got.op = "broadcast" /\ got.text = serialize(from_json(sent, raw))
  BY DEF Outcomes, Message
<1> DEFINE f == sent[2]
           s == f.sender[2]
           a == IF Has(sent, "action") THEN action_from_string[f.action[2]] ELSE "Chat"
           c == IF Has(sent, "contents") THEN f.contents[2] ELSE ""
           t == IF Has(sent, "timestamp") THEN ToInt64(f.timestamp) ELSE raw
           msg == from_json(sent, raw)
<1>2. /\ \A key \in DOMAIN f : IsValue(f[key])
      /\ "sender" \in DOMAIN f /\ IsString(f.sender)
      /\ Has(sent, "action") => /\ "action" \in DOMAIN f /\ IsString(f.action)
                                /\ f.action[2] \in DOMAIN action_from_string
      /\ Has(sent, "contents") => "contents" \in DOMAIN f /\ IsString(f.contents)
      /\ Has(sent, "timestamp") => "timestamp" \in DOMAIN f /\ IsNumber(f.timestamp)
  BY TextAssumption DEF Accepts, Has
<1>3. msg = MessageOf(s, a, c, t)
  BY DEF from_json, MessageOf
<1>4. /\ a \in Action
      /\ Has(sent, "action") => action_str[a] = f.action[2]
      /\ ~Has(sent, "action") => action_str[a] = "chat"
  <2>1. CASE Has(sent, "action")
    BY <1>2, <2>1, Names
  <2>2. CASE ~Has(sent, "action")
    BY <2>2 DEF Action, action_str
  <2> QED BY <2>1, <2>2
<1>5. t \in Int64
  <2>1. CASE Has(sent, "timestamp")
    BY <1>2, <2>1, NumberFits
  <2>2. CASE ~Has(sent, "timestamp")
    BY <2>2
  <2> QED BY <2>1, <2>2
<1> HIDE DEF f, s, a, c, t, msg
<1>6. Read(s, a, c, t, msg)
  BY <1>3, <1>4, <1>5, TextRead, Zenon
<1>7. Complete(got.text)
  BY <1>1, <1>4, <1>5, <1>6, ReadComplete DEF msg
<1>8. got.text[2].sender = f.sender
  BY <1>1, <1>2, <1>6 DEF Read, IsValue, IsString, s, msg
<1>9. IF Has(sent, "action") THEN got.text[2].action = f.action
      ELSE got.text[2].action[2] = "chat"
  BY <1>1, <1>2, <1>4, <1>6 DEF Read, IsValue, IsString, msg
<1>10. IF Has(sent, "contents") THEN got.text[2].contents = f.contents
       ELSE got.text[2].contents[2] = ""
  <2>1. got.text[2].contents = <<"string", c>>
    BY <1>1, <1>6 DEF Read, msg
  <2>2. CASE Has(sent, "contents")
    <3>1. f.contents = <<"string", f.contents[2]>>
      BY <1>2, <2>2 DEF IsValue, IsString
    <3> QED BY <2>1, <2>2, <3>1 DEF c
  <2>3. CASE ~Has(sent, "contents")
    <3>1. got.text[2].contents[2] = c
      BY <2>1
    <3>2. c = ""
      BY <2>3 DEF c
    <3> QED BY <2>3, <3>1, <3>2, Zenon
  <2> QED BY <2>2, <2>3
<1>11. \A r \in Int64 : serialize(from_json(got.text, r)) = got.text
  BY <1>1, <1>6 DEF Read, msg
<1>12. Conforms(sent)
  BY AcceptsConforming
<1> QED BY <1>1, <1>7, <1>8, <1>9, <1>10, <1>11, <1>12 DEF Relayed, f

\* Either way what comes of a text is a text that is read.
LEMMA ResultFits ==
    ASSUME NEW sent \in Texts, NEW got \in Outcomes(sent)
    PROVE  Relayed(sent, got) /\ got.op \in {"broadcast", "send"} /\ Accepts(got.text)
<1>1. Relayed(sent, got) /\ got.op \in {"broadcast", "send"}
  BY RefusalFits, RelayFits
<1> QED BY <1>1, AcceptsConforming DEF Relayed

-----------------------------------------------------------------------------
(* Types *)

TypeInv ==
    /\ TypeOK
    /\ asked \in [Peers -> Seq(Request)]
    /\ handled \in [Peers -> Seq(Result)]
    /\ \A p \in Peers : pos[p] <= Len(asked[p]) /\ Len(asked[p]) <= MaxRequests

\* Nothing was asked, read, answered or sent yet.
LEMMA TypeInit == Init => TypeInv
<1> SUFFICES ASSUME Init PROVE TypeInv
  OBVIOUS
<1>1. \A S : <<>> \in Seq(S)
  OBVIOUS
<1>2. port \in 0 .. 2^PortWidth - 1 /\ workers \in Nat /\ 0 \in 0..MaxRequests
  BY FrontAssumption DEF Init
<1>3. /\ asked \in [Peers -> Seq(Request)] /\ handled \in [Peers -> Seq(Result)]
      /\ writing \in [Peers -> Seq(Response)] /\ answers \in [Peers -> Seq(Response)]
      /\ texts \in [Peers -> Seq(Texts)] /\ \A p \in Peers : asked[p] \in Seq(Asks[p])
  BY <1>1 DEF Init
<1>4. \A p \in Peers : handled[p] = <<>> /\ pos[p] = 0 /\ asked[p] = <<>>
  BY DEF Init
<1>5. \A p \in Peers : \A i \in DOMAIN handled[p] :
         handled[p][i].op \in {"broadcast", "send"} /\ Accepts(handled[p][i].text)
  BY <1>4
<1>6. TypeOK
  BY <1>2, <1>3, <1>5 DEF Init, TypeOK, Response
<1> QED BY <1>3, <1>4, <1>6, FrontAssumption DEF TypeInv

\* main and the acceptor, whose variables are few.
LEMMA TypeMain ==
    ASSUME TypeInv, Die \/ Start \/ Stop \/ Return \/ AcceptFails
    PROVE  TypeInv'
<1>0. \A a \in Int, b \in Nat \ {0} : a % b \in 0 .. b - 1
  OBVIOUS
<1> USE DEF TypeInv, TypeOK, hvars, evars, lvars, pvars
<1>1. CASE Die
  BY <1>1 DEF Die
<1>2. CASE Start
  <2>1. args.port \in Int /\ args.workers \in Int
    BY FrontAssumption
  <2>2. port' \in 0 .. 2^PortWidth - 1
    <3>1. port' = args.port % 2^PortWidth
      BY <1>2 DEF Start
    <3>2. 2^PortWidth \in Nat \ {0}
      BY FrontAssumption
    <3> QED BY <1>0, <2>1, <3>1, <3>2, Zenon
  <2>3. workers' \in Nat
    BY <1>2, <2>1 DEF Start
  <2> QED BY <1>2, <2>2, <2>3 DEF Start, Listener, run
<1>3. CASE Stop
  BY <1>3 DEF Stop
<1>4. CASE Return
  <2>1. workers' \in Nat
    BY <1>4 DEF Return
  <2> QED BY <1>4, <2>1 DEF Return
<1>5. CASE AcceptFails
  BY <1>5 DEF AcceptFails
<1> QED BY <1>1, <1>2, <1>3, <1>4, <1>5

\* The head and the rest of what is to be written.
LEMMA Rest == \A S : \A s \in Seq(S) : s # <<>> => Head(s) \in S /\ Tail(s) \in Seq(S)
OBVIOUS

\* The handlers of one connection, but for the two that append.
LEMMA TypeHandlers ==
    ASSUME TypeInv, NEW p \in Peers,
           \/ Accept(p) \/ HandleFails(p) \/ OnWrite(p) \/ OnWriteFails(p)
           \/ Shaken(p) \/ ShakenFails(p) \/ WsHandleFails(p) \/ Connect(p) \/ Leave(p)
           \/ Block(p)
    PROVE  TypeInv'
<1> USE DEF TypeInv, TypeOK, hvars, evars, lvars, pvars
<1>1. CASE Accept(p)
  BY <1>1 DEF Accept, HttpSession, do_read
<1>2. CASE HandleFails(p)
  BY <1>2 DEF HandleFails
<1>3. CASE OnWrite(p)
  <2>1. Head(writing[p]) \in Response /\ Tail(writing[p]) \in Seq(Response)
    <3>1. writing[p] \in Seq(Response) /\ writing[p] # <<>>
      BY <1>3 DEF OnWrite, Response
    <3> QED BY <3>1, Rest
  <2>2. Append(answers[p], Head(writing[p])) \in Seq(Response)
    BY <2>1 DEF Response
  <2> QED BY <1>3, <2>1, <2>2 DEF OnWrite, Response
<1>4. CASE OnWriteFails(p)
  <2>1. Tail(writing[p]) \in Seq(Response)
    <3>1. writing[p] \in Seq(Response) /\ writing[p] # <<>>
      BY <1>4 DEF OnWriteFails, Response
    <3> QED BY <3>1, Rest
  <2> QED BY <1>4, <2>1 DEF OnWriteFails, Response
<1>5. CASE Shaken(p)
  BY <1>5 DEF Shaken
<1>6. CASE ShakenFails(p)
  BY <1>6 DEF ShakenFails
<1>7. CASE WsHandleFails(p)
  BY <1>7 DEF WsHandleFails
<1>8. CASE Connect(p)
  BY <1>8 DEF Connect
<1>9. CASE Leave(p)
  BY <1>9 DEF Leave
<1>10. CASE Block(p)
  BY <1>10 DEF Block
<1> QED BY <1>1, <1>2, <1>3, <1>4, <1>5, <1>6, <1>7, <1>8, <1>9, <1>10

\* What is behind one another.
LEMMA ConcatSeq ==
    \A S : \A s, t \in Seq(S) :
        /\ s \o t \in Seq(S) /\ Len(s \o t) = Len(s) + Len(t)
        /\ \A i \in 1..Len(s) : (s \o t)[i] = s[i]
        /\ \A i \in 1..Len(t) : (s \o t)[Len(s) + i] = t[i]
        /\ t = <<>> => s \o t = s
OBVIOUS

\* What one more element does to a sequence.
LEMMA AppendSeq ==
    \A S : \A s \in Seq(S), x \in S :
        /\ Append(s, x) \in Seq(S) /\ Len(Append(s, x)) = Len(s) + 1
        /\ \A i \in 1..Len(s) : Append(s, x)[i] = s[i]
        /\ Append(s, x)[Len(s) + 1] = x
OBVIOUS

\* The actions that read a request or append one, or a text, or what comes of it.
LEMMA TypeAppends ==
    ASSUME TypeInv, NEW p \in Peers, Handle(p) \/ WsHandle(p) \/ Ask(p) \/ SendText(p)
    PROVE  TypeInv'
<1> USE DEF TypeInv, TypeOK, hvars, evars, lvars, pvars
<1>1. CASE Handle(p)
  <2> DEFINE r == asked[p][pos[p] + 1]
  <2>1. asked[p] \in Seq(Asks[p]) /\ pos[p] \in Nat /\ pos[p] < Len(asked[p])
    BY <1>1 DEF Handle
  <2>2. r \in Asks[p]
    BY <2>1
  <2>3. handle_request(r) \in Response
    BY <2>2, FrontAssumption DEF handle_request, Response, Statuses
  <2>4. writing[p] \in Seq(Response) /\ Append(writing[p], handle_request(r)) \in Seq(Response)
    BY <2>3, AppendSeq DEF Response
  <2>5. writing' \in [Peers -> Seq(Response)]
    BY <1>1, <2>4 DEF Handle, Response
  <2>6. sock' \in [Peers -> {"none", "queued", "http", "handshake", "ws", "closed"}]
    BY <1>1 DEF Handle
  <2>7. /\ pos' \in [Peers -> 0..MaxRequests]
        /\ \A q \in Peers : pos'[q] <= Len(asked[q])
    <3>1. pos[p] + 1 \in 0..MaxRequests /\ pos[p] + 1 <= Len(asked[p])
      BY <2>1, FrontAssumption
    <3> QED BY <1>1, <3>1 DEF Handle
  <2>8. reading' \in [Peers -> BOOLEAN]
    BY <1>1 DEF Handle
  <2>9. UNCHANGED <<pvars, lvars, answers, handled, evars>>
    BY <1>1 DEF Handle
  <2> QED BY <2>5, <2>6, <2>7, <2>8, <2>9 DEF Response
<1>2. CASE WsHandle(p)
  <2>1. PICK o \in Outcomes(texts[p][Len(handled[p]) + 1]) :
           handled' = [handled EXCEPT ![p] = Append(@, o)]
    BY <1>2 DEF WsHandle
  <2>2. handled[p] \in Seq(Result) /\ texts[p] \in Seq(Texts) /\ Len(handled[p]) < Len(texts[p])
    BY <1>2 DEF WsHandle
  <2>3. texts[p][Len(handled[p]) + 1] \in Texts
    BY <2>2
  <2>4. o \in Result
    BY <2>1, <2>3 DEF Result
  <2>5. Append(handled[p], o) \in Seq(Result)
    BY <2>2, <2>4, AppendSeq
  <2>6. handled' \in [Peers -> Seq(Result)]
    BY <2>1, <2>5
  <2>7. \A q \in Peers : \A i \in DOMAIN handled'[q] :
           handled'[q][i].op \in {"broadcast", "send"} /\ Accepts(handled'[q][i].text)
    <3>1. \A e \in Result : e.op \in {"broadcast", "send"} /\ Accepts(e.text)
      BY ResultFits DEF Result
    <3>2. \A s \in Seq(Result) : \A i \in DOMAIN s : s[i] \in Result
      OBVIOUS
    <3> QED BY <2>6, <3>1, <3>2
  <2>8. UNCHANGED <<pvars, lvars, sock, hvars, evars>>
    BY <1>2 DEF WsHandle
  <2> QED BY <2>6, <2>7, <2>8
<1>3. CASE Ask(p)
  <2>1. PICK r \in Asks[p] : asked' = [asked EXCEPT ![p] = Append(@, r)]
    BY <1>3 DEF Ask
  <2>2. /\ asked[p] \in Seq(Asks[p]) /\ asked[p] \in Seq(Request) /\ r \in Request
        /\ Len(asked[p]) < MaxRequests /\ Len(asked[p]) \in Nat
    BY <1>3 DEF Ask, Request
  <2>3. /\ Append(asked[p], r) \in Seq(Asks[p]) /\ Append(asked[p], r) \in Seq(Request)
        /\ Len(Append(asked[p], r)) = Len(asked[p]) + 1
    BY <2>2, AppendSeq
  <2>4. /\ asked' \in [Peers -> Seq(Request)]
        /\ \A q \in Peers : asked'[q] \in Seq(Asks[q])
    BY <2>1, <2>3
  <2>5. \A q \in Peers : pos[q] <= Len(asked'[q]) /\ Len(asked'[q]) <= MaxRequests
    <3> TAKE q \in Peers
    <3>1. pos[q] <= Len(asked[q]) /\ Len(asked[q]) <= MaxRequests /\ pos[q] \in Nat
      OBVIOUS
    <3>2. CASE q = p
      BY <2>1, <2>2, <2>3, <3>1, <3>2, FrontAssumption
    <3>3. CASE q # p
      BY <2>1, <3>1, <3>3
    <3> QED BY <3>2, <3>3
  <2>6. UNCHANGED <<pvars, lvars, sock, hvars, handled, texts, gone>>
    BY <1>3 DEF Ask
  <2> QED BY <2>4, <2>5, <2>6
<1>4. CASE SendText(p)
  <2>1. PICK t \in Texts : texts' = [texts EXCEPT ![p] = Append(@, t)]
    BY <1>4 DEF SendText
  <2>2. Append(texts[p], t) \in Seq(Texts)
    BY AppendSeq
  <2>3. texts' \in [Peers -> Seq(Texts)]
    BY <2>1, <2>2
  <2> QED BY <1>4, <2>3 DEF SendText
<1> QED BY <1>1, <1>2, <1>3, <1>4

\* The end of the program takes the handlers along.
LEMMA TypeExit == ASSUME TypeInv, Exit PROVE TypeInv'
<1> USE DEF TypeInv, TypeOK, hvars, evars, lvars, pvars
<1>1. writing' \in [Peers -> Seq(Response)] /\ reading' \in [Peers -> BOOLEAN]
  BY DEF Exit
<1>2. sock' \in [Peers -> {"none", "queued", "http", "handshake", "ws", "closed"}]
  BY DEF Exit
<1>3. /\ main' = "exited" /\ acceptor' = "closed" /\ accepting' = FALSE
      /\ UNCHANGED <<args, workers, stuck, port, refused, pos, answers, handled, evars>>
  BY DEF Exit
<1> QED BY <1>1, <1>2, <1>3 DEF Response

\* Every step keeps the types.
LEMMA TypeStep == ASSUME TypeInv, [Next]_vars PROVE TypeInv'
<1>1. CASE Die \/ Start \/ Stop \/ Return \/ AcceptFails
  BY <1>1, TypeMain
<1>2. CASE Exit
  BY <1>2, TypeExit
<1>3. ASSUME NEW p \in Peers, Handler(p) \/ Block(p) \/ Peer(p) PROVE TypeInv'
  BY <1>3, TypeHandlers, TypeAppends DEF Handler, Peer
<1>4. CASE UNCHANGED vars
  BY <1>4 DEF vars, pvars, lvars, hvars, evars, TypeInv, TypeOK
<1> QED BY <1>1, <1>2, <1>3, <1>4 DEF Next

\* Every variable of the Listener, the sessions and the connections stays in its type,
\* and only what was asked is read.
THEOREM TypeCorrect == Spec => []TypeOK
<1>1. TypeInv => TypeOK
  BY DEF TypeInv
<1> QED BY <1>1, TypeInit, TypeStep, PTL DEF Spec

-----------------------------------------------------------------------------
(* What comes of the texts *)

\* The results are those of the first texts, in their order.
InOrder(p) ==
    /\ Len(handled[p]) <= Len(texts[p])
    /\ \A i \in 1..Len(handled[p]) : handled[p][i] \in Outcomes(texts[p][i])

TextsInOrder == \A p \in Peers : InOrder(p)

\* Only WsHandle adds a result, that of the next text; texts are only added.
LEMMA InOrderStep ==
    ASSUME TypeInv, TypeInv', TextsInOrder, [Next]_vars
    PROVE  TextsInOrder'
<1> SUFFICES ASSUME NEW p \in Peers PROVE InOrder(p)'
  BY DEF TextsInOrder
<1>1. /\ InOrder(p) /\ handled[p] \in Seq(Result) /\ texts[p] \in Seq(Texts)
      /\ handled \in [Peers -> Seq(Result)] /\ texts \in [Peers -> Seq(Texts)]
  BY DEF TextsInOrder, TypeInv, TypeOK
<1>2. CASE handled'[p] = handled[p] /\ texts'[p] = texts[p]
  BY <1>1, <1>2 DEF InOrder
<1>3. ASSUME NEW q \in Peers, WsHandle(q), q = p PROVE InOrder(p)'
  <2>1. PICK o \in Outcomes(texts[p][Len(handled[p]) + 1]) :
           handled' = [handled EXCEPT ![p] = Append(@, o)]
    BY <1>3 DEF WsHandle
  <2>2. texts' = texts /\ Len(handled[p]) < Len(texts[p])
    BY <1>3 DEF WsHandle, evars
  <2>3. o \in Result
    <3>1. texts[p][Len(handled[p]) + 1] \in Texts
      BY <1>1, <2>2
    <3> QED BY <3>1 DEF Result
  <2>4. handled'[p] = Append(handled[p], o)
    BY <1>1, <2>1
  <2>5. /\ Len(handled'[p]) = Len(handled[p]) + 1
        /\ \A i \in 1..Len(handled[p]) : handled'[p][i] = handled[p][i]
        /\ handled'[p][Len(handled[p]) + 1] = o
    BY <1>1, <2>3, <2>4, AppendSeq
  <2>6. \A i \in 1..(Len(handled[p]) + 1) : i \in 1..Len(handled[p]) \/ i = Len(handled[p]) + 1
    BY <1>1
  <2> QED BY <1>1, <2>1, <2>2, <2>5, <2>6 DEF InOrder
<1>4. ASSUME NEW q \in Peers, SendText(q), q = p PROVE InOrder(p)'
  <2>1. PICK t \in Texts : texts' = [texts EXCEPT ![p] = Append(@, t)]
    BY <1>4 DEF SendText
  <2>2. handled' = handled
    BY <1>4 DEF SendText
  <2>3. texts'[p] = Append(texts[p], t)
    BY <1>1, <2>1
  <2>4. /\ Len(texts'[p]) = Len(texts[p]) + 1
        /\ \A i \in 1..Len(texts[p]) : texts'[p][i] = texts[p][i]
    BY <1>1, <2>3, AppendSeq
  <2>5. \A i \in 1..Len(handled[p]) : i \in 1..Len(texts[p])
    BY <1>1 DEF InOrder
  <2> QED BY <1>1, <2>2, <2>4, <2>5 DEF InOrder
<1>5. ASSUME NEW q \in Peers, Handler(q) \/ Block(q) \/ Peer(q) PROVE InOrder(p)'
  <2>1. CASE WsHandle(q) /\ q # p
    <3>1. handled'[p] = handled[p] /\ texts' = texts
      BY <1>1, <2>1 DEF WsHandle, evars
    <3> QED BY <3>1, <1>2
  <2>2. CASE SendText(q) /\ q # p
    <3>1. handled' = handled /\ texts'[p] = texts[p]
      BY <1>1, <2>2 DEF SendText
    <3> QED BY <3>1, <1>2
  <2>3. CASE ~WsHandle(q) /\ ~SendText(q)
    <3>1. UNCHANGED <<handled, texts>>
      BY <1>5, <2>3 DEF Handler, Peer, Accept, Handle, HandleFails, OnWrite, OnWriteFails,
         Shaken, ShakenFails, WsHandleFails, Block, Connect, Ask, Leave, evars
    <3> QED BY <3>1, <1>2
  <2> QED BY <1>3, <1>4, <2>1, <2>2, <2>3
<1>6. CASE Die \/ Start \/ Stop \/ Return \/ Exit \/ AcceptFails \/ UNCHANGED vars
  BY <1>2, <1>6 DEF Die, Start, Stop, Return, Exit, AcceptFails, vars, evars
<1> QED BY <1>5, <1>6 DEF Next

\* WsConn::handle relays or refuses every text in the order sent: what it relays has the
\* sender, the action and the contents that were sent, what it refuses is not a complete
\* message, and what it sends is one, whatever the texts and the width of an integer.
THEOREM TextsRelayed == Spec => []Relays
<1>1. Init => TextsInOrder
  <2> SUFFICES ASSUME Init, NEW p \in Peers PROVE InOrder(p)
    BY DEF TextsInOrder
  <2>1. handled[p] = <<>> /\ texts[p] = <<>>
    BY DEF Init
  <2> QED BY <2>1 DEF InOrder
<1>2. TypeInv /\ TextsInOrder => Relays
  <2> SUFFICES ASSUME TypeInv, TextsInOrder, NEW p \in Peers, NEW i \in DOMAIN handled[p]
               PROVE  Relayed(texts[p][i], handled[p][i])
    BY DEF Relays
  <2>1. handled[p] \in Seq(Result) /\ texts[p] \in Seq(Texts) /\ InOrder(p)
    BY DEF TypeInv, TypeOK, TextsInOrder
  <2>2. i \in 1..Len(handled[p])
    BY <2>1
  <2>3. texts[p][i] \in Texts /\ handled[p][i] \in Outcomes(texts[p][i])
    BY <2>1, <2>2 DEF InOrder
  <2> QED BY <2>3, ResultFits
<1> QED BY <1>1, <1>2, TypeInit, TypeStep, InOrderStep, PTL DEF Spec

-----------------------------------------------------------------------------
(* What comes of the requests *)

\* So many of p's requests were answered, each in its place, and all but the last request
\* read asked to keep the connection.  While the session has the socket, it either reads
\* and owes no answer, or writes the answer to the request it read last.
Served(p) ==
    /\ Len(answers[p]) <= pos[p]
    /\ \A i \in 1..Len(answers[p]) :
          /\ asked[p][i].kind = "plain" /\ answers[p][i] = handle_request(asked[p][i])
          /\ i < pos[p] => asked[p][i].keep_alive
    /\ sock[p] = "http" /\ reading[p] =>
          /\ Len(answers[p]) = pos[p]
          /\ \A i \in 1..pos[p] : asked[p][i].keep_alive
    /\ sock[p] = "http" /\ ~reading[p] =>
          /\ Len(answers[p]) + 1 = pos[p] /\ asked[p][pos[p]].kind = "plain"
          /\ writing[p] = <<handle_request(asked[p][pos[p]])>>
    /\ ~(sock[p] = "http" /\ ~reading[p]) => writing[p] = <<>>
    /\ sock[p] \in {"none", "queued"} => pos[p] = 0
    /\ sock[p] # "http" => (reading[p] <=> sock[p] = "ws")

RequestsServed == \A p \in Peers : Served(p)

\* What there is to know of peer p.
LEMMA PeerTypes ==
    ASSUME TypeInv, NEW p \in Peers
    PROVE  /\ answers[p] \in Seq(Response) /\ writing[p] \in Seq(Response)
           /\ asked[p] \in Seq(Request) /\ pos[p] \in Nat /\ pos[p] <= Len(asked[p])
           /\ reading[p] \in BOOLEAN /\ Len(answers[p]) \in Nat /\ Len(asked[p]) \in Nat
           /\ sock[p] \in {"none", "queued", "http", "handshake", "ws", "closed"}
<1>1. /\ answers \in [Peers -> Seq(Response)] /\ writing \in [Peers -> Seq(Response)]
      /\ asked \in [Peers -> Seq(Request)] /\ pos \in [Peers -> 0..MaxRequests]
      /\ reading \in [Peers -> BOOLEAN] /\ pos[p] <= Len(asked[p])
      /\ sock \in [Peers -> {"none", "queued", "http", "handshake", "ws", "closed"}]
  BY DEF TypeInv, TypeOK, Response
<1>2. answers[p] \in Seq(Response) /\ asked[p] \in Seq(Request)
  BY <1>1
<1> QED BY <1>1, <1>2

\* The handlers of p itself keep its requests served.
LEMMA ServedByHandlers ==
    ASSUME TypeInv, NEW p \in Peers, Served(p), Handler(p)
    PROVE  Served(p)'
<1>0. /\ reading \in [Peers -> BOOLEAN] /\ pos \in [Peers -> 0..MaxRequests]
      /\ sock \in [Peers -> {"none", "queued", "http", "handshake", "ws", "closed"}]
      /\ writing \in [Peers -> Seq(Response)] /\ answers \in [Peers -> Seq(Response)]
  BY DEF TypeInv, TypeOK, Response
<1> USE PeerTypes
<1>1. CASE Accept(p)
  <2>1. /\ sock[p] = "queued" /\ sock'[p] = "http" /\ reading'[p]
        /\ UNCHANGED <<writing, pos, answers, asked>>
    BY <1>0, <1>1 DEF Accept, HttpSession, do_read, evars
  <2>2. pos[p] = 0 /\ writing[p] = <<>> /\ Len(answers[p]) = 0
    BY <2>1 DEF Served
  <2> QED BY <2>1, <2>2 DEF Served
<1>2. CASE Handle(p)
  <2> DEFINE r == asked[p][pos[p] + 1]
  <2>1. /\ sock[p] = "http" /\ reading[p] /\ ~reading'[p] /\ pos'[p] = pos[p] + 1
        /\ sock'[p] = CASE r.kind = "malformed" -> "closed"
                        [] r.kind \in {"upgrade", "no_key"} -> "handshake"
                        [] OTHER -> "http"
        /\ writing'[p] = IF r.kind = "plain" THEN Append(writing[p], handle_request(r))
                         ELSE writing[p]
        /\ UNCHANGED <<answers, asked>> /\ pos[p] < Len(asked[p])
    BY <1>0, <1>2 DEF Handle, evars
  <2>2. /\ Len(answers[p]) = pos[p] /\ writing[p] = <<>>
        /\ \A i \in 1..pos[p] : asked[p][i].keep_alive
    BY <2>1 DEF Served
  <2>3. r.kind \in {"plain", "upgrade", "no_key", "malformed"}
    <3>1. asked[p] \in Seq(Asks[p])
      BY DEF TypeInv, TypeOK
    <3>2. r \in Asks[p]
      BY <2>1, <3>1
    <3> QED BY <3>2, FrontAssumption
  <2>4. r = asked'[p][pos'[p]]
    BY <2>1
  <2> HIDE DEF r
  <2>5. \A i \in 1..Len(answers[p]) :
           asked'[p][i].kind = "plain" /\ answers'[p][i] = handle_request(asked'[p][i])
    BY <2>1 DEF Served
  <2>6. CASE r.kind = "plain"
    <3>1. sock'[p] = "http" /\ writing'[p] = <<handle_request(r)>>
      <4>1. sock'[p] = "http" /\ writing'[p] = Append(<<>>, handle_request(r))
        BY <2>1, <2>2, <2>6
      <4>2. Append(<<>>, handle_request(r)) = <<handle_request(r)>>
        OBVIOUS
      <4> QED BY <4>1, <4>2
    <3> QED BY <2>1, <2>2, <2>4, <2>5, <2>6, <3>1 DEF Served
  <2>7. CASE r.kind # "plain"
    <3>1. sock'[p] \in {"closed", "handshake"} /\ writing'[p] = <<>>
      BY <2>1, <2>2, <2>3, <2>7
    <3> QED BY <2>1, <2>2, <2>5, <3>1 DEF Served
  <2> QED BY <2>6, <2>7
<1>3. CASE HandleFails(p)
  <2>1. /\ sock[p] = "http" /\ reading[p] /\ ~reading'[p] /\ sock'[p] = "closed"
        /\ UNCHANGED <<writing, pos, answers, asked>>
    BY <1>0, <1>3 DEF HandleFails, evars
  <2> QED BY <2>1 DEF Served
<1>4. CASE OnWrite(p)
  <2> DEFINE res == Head(writing[p])
  <2>1. /\ writing[p] # <<>> /\ writing'[p] = Tail(writing[p])
        /\ answers'[p] = Append(answers[p], res) /\ reading'[p] = res.keep_alive
        /\ sock'[p] = IF res.keep_alive THEN sock[p] ELSE "closed"
        /\ UNCHANGED <<pos, asked>>
    BY <1>0, <1>4 DEF OnWrite, evars
  <2>2. /\ sock[p] = "http" /\ ~reading[p] /\ Len(answers[p]) + 1 = pos[p]
        /\ writing[p] = <<handle_request(asked[p][pos[p]])>>
        /\ asked[p][pos[p]].kind = "plain"
    BY <2>1 DEF Served
  <2>3. res = handle_request(asked[p][pos[p]]) /\ writing'[p] = <<>>
    BY <2>1, <2>2
  <2>4. res \in Response
    BY <2>1, Rest
  <2>5. res.keep_alive = asked[p][pos[p]].keep_alive /\ res.keep_alive \in BOOLEAN
    BY <2>3, <2>4 DEF handle_request, Response
  <2>6. /\ Len(answers'[p]) = Len(answers[p]) + 1
        /\ \A i \in 1..Len(answers[p]) : answers'[p][i] = answers[p][i]
        /\ answers'[p][Len(answers[p]) + 1] = res
    BY <2>1, <2>4, AppendSeq
  <2>7. \A i \in 1..Len(answers'[p]) :
           (i \in 1..Len(answers[p]) /\ i < pos[p]) \/ i = pos[p]
    BY <2>2, <2>6
  <2> HIDE DEF res
  <2>8. \A i \in 1..Len(answers'[p]) :
           /\ asked[p][i].kind = "plain" /\ answers'[p][i] = handle_request(asked[p][i])
           /\ i < pos[p] => asked[p][i].keep_alive
    BY <2>2, <2>3, <2>6, <2>7 DEF Served
  <2>9. CASE res.keep_alive
    <3>1. \A i \in 1..pos[p] : asked[p][i].keep_alive
      BY <2>2, <2>5, <2>6, <2>7, <2>8, <2>9
    <3> QED BY <2>1, <2>2, <2>3, <2>6, <2>8, <2>9, <3>1 DEF Served
  <2>10. CASE ~res.keep_alive
    BY <2>1, <2>2, <2>3, <2>5, <2>6, <2>8, <2>10 DEF Served
  <2> QED BY <2>9, <2>10
<1>5. CASE OnWriteFails(p)
  <2>1. /\ writing[p] # <<>> /\ writing'[p] = Tail(writing[p]) /\ sock'[p] = "closed"
        /\ UNCHANGED <<reading, pos, answers, asked>>
    BY <1>0, <1>5 DEF OnWriteFails, evars
  <2>2. writing[p] = <<handle_request(asked[p][pos[p]])>> /\ sock[p] = "http" /\ ~reading[p]
    BY <2>1 DEF Served
  <2>3. writing'[p] = <<>>
    BY <2>1, <2>2
  <2> QED BY <2>1, <2>2, <2>3 DEF Served
<1>6. CASE Shaken(p)
  <2>1. /\ sock[p] = "handshake" /\ reading'[p] /\ sock'[p] = "ws"
        /\ UNCHANGED <<writing, pos, answers, asked>>
    BY <1>0, <1>6 DEF Shaken, evars
  <2> QED BY <2>1 DEF Served
<1>7. CASE ShakenFails(p)
  <2>1. /\ sock[p] = "handshake" /\ sock'[p] = "closed"
        /\ UNCHANGED <<reading, writing, pos, answers, asked>>
    BY <1>0, <1>7 DEF ShakenFails, hvars, evars
  <2> QED BY <2>1 DEF Served
<1>8. CASE WsHandle(p)
  BY <1>8 DEF WsHandle, hvars, evars, Served
<1>9. CASE WsHandleFails(p)
  <2>1. /\ sock[p] = "ws" /\ sock'[p] = "closed" /\ ~reading'[p]
        /\ UNCHANGED <<writing, pos, answers, asked>>
    BY <1>0, <1>9 DEF WsHandleFails, evars
  <2> QED BY <2>1 DEF Served
<1> QED BY <1>1, <1>2, <1>3, <1>4, <1>5, <1>6, <1>7, <1>8, <1>9 DEF Handler

\* Nor does another peer, or p by connecting, asking, talking or leaving, disturb them.
LEMMA ServedByPeers ==
    ASSUME TypeInv, NEW p \in Peers, Served(p), NEW q \in Peers,
           Peer(q) \/ (q # p /\ Handler(q))
    PROVE  Served(p)'
<1>0. /\ reading \in [Peers -> BOOLEAN] /\ pos \in [Peers -> 0..MaxRequests]
      /\ sock \in [Peers -> {"none", "queued", "http", "handshake", "ws", "closed"}]
      /\ writing \in [Peers -> Seq(Response)] /\ answers \in [Peers -> Seq(Response)]
      /\ asked \in [Peers -> Seq(Request)]
  BY DEF TypeInv, TypeOK, Response
<1> USE PeerTypes
<1>1. ASSUME sock'[p] = sock[p], reading'[p] = reading[p], writing'[p] = writing[p],
             pos'[p] = pos[p], answers'[p] = answers[p], asked'[p] = asked[p]
      PROVE  Served(p)'
  BY <1>1 DEF Served
<1>2. CASE q # p /\ Handler(q)
  <2>1. UNCHANGED asked
    BY <1>2 DEF Handler, Accept, Handle, HandleFails, OnWrite, OnWriteFails, Shaken,
       ShakenFails, WsHandle, WsHandleFails, evars
  <2>2. /\ sock'[p] = sock[p] /\ reading'[p] = reading[p] /\ writing'[p] = writing[p]
        /\ pos'[p] = pos[p] /\ answers'[p] = answers[p]
    <3>1. CASE Accept(q) \/ HandleFails(q) \/ Shaken(q) \/ WsHandleFails(q)
      BY <1>0, <1>2, <3>1 DEF Accept, HttpSession, do_read, HandleFails, Shaken, WsHandleFails
    <3>2. CASE Handle(q)
      BY <1>0, <1>2, <3>2 DEF Handle
    <3>3. CASE OnWrite(q) \/ OnWriteFails(q)
      BY <1>0, <1>2, <3>3 DEF OnWrite, OnWriteFails
    <3>4. CASE ShakenFails(q) \/ WsHandle(q)
      BY <1>0, <1>2, <3>4 DEF ShakenFails, WsHandle, hvars
    <3> QED BY <1>2, <3>1, <3>2, <3>3, <3>4 DEF Handler
  <2> QED BY <1>1, <2>1, <2>2
<1>3. CASE Connect(q)
  <2>1. UNCHANGED <<reading, writing, pos, answers, asked>>
    BY <1>3 DEF Connect, hvars, evars
  <2>2. CASE q = p
    <3>1. sock[p] = "none" /\ sock'[p] = "queued"
      BY <1>0, <1>3, <2>2 DEF Connect
    <3> QED BY <2>1, <3>1 DEF Served
  <2>3. CASE q # p
    <3>1. sock'[p] = sock[p]
      BY <1>0, <1>3, <2>3 DEF Connect
    <3> QED BY <1>1, <2>1, <3>1
  <2> QED BY <2>2, <2>3
<1>4. CASE Ask(q)
  <2>1. UNCHANGED <<sock, reading, writing, pos, answers>>
    BY <1>4 DEF Ask, hvars
  <2>2. CASE q = p
    <3>1. PICK r \in Asks[p] : asked'[p] = Append(asked[p], r)
      BY <1>0, <1>4, <2>2 DEF Ask
    <3>2. r \in Request
      BY DEF Request
    <3>3. \A i \in 1..Len(asked[p]) : asked'[p][i] = asked[p][i]
      BY <3>1, <3>2, AppendSeq
    <3>4. \A i \in 1..pos[p] : asked'[p][i] = asked[p][i]
      <4>1. pos[p] \in Nat /\ Len(asked[p]) \in Nat /\ pos[p] <= Len(asked[p])
        OBVIOUS
      <4>2. \A i \in 1..pos[p] : i \in 1..Len(asked[p])
        BY <4>1
      <4> QED BY <3>3, <4>2
    <3>5. sock[p] = "http" /\ ~reading[p] => asked'[p][pos[p]] = asked[p][pos[p]]
      BY <3>4 DEF Served
    <3>6. \A i \in 1..Len(answers[p]) : asked'[p][i] = asked[p][i]
      BY <3>4 DEF Served
    <3> QED BY <2>1, <3>4, <3>5, <3>6 DEF Served
  <2>3. CASE q # p
    <3>1. asked'[p] = asked[p]
      BY <1>0, <1>4, <2>3 DEF Ask
    <3> QED BY <1>1, <2>1, <3>1
  <2> QED BY <2>2, <2>3
<1>5. CASE SendText(q) \/ Leave(q)
  BY <1>1, <1>5 DEF SendText, Leave, hvars
<1> QED BY <1>2, <1>3, <1>4, <1>5 DEF Peer

\* Nor does main, or the acceptor, but at the end, when what was answered stays so.
LEMMA ServedByMain ==
    ASSUME TypeInv, NEW p \in Peers, Served(p),
           \/ Die \/ Start \/ Stop \/ Return \/ Exit \/ AcceptFails
           \/ (\E q \in Peers : Block(q)) \/ UNCHANGED vars
    PROVE  Served(p)'
<1>1. CASE Exit
  <2>1. /\ sock'[p] = IF sock[p] = "none" THEN "none" ELSE "closed"
        /\ ~reading'[p] /\ writing'[p] = <<>> /\ UNCHANGED <<pos, answers, asked>>
    BY <1>1 DEF Exit, evars
  <2> QED BY <2>1, PeerTypes DEF Served
<1>2. CASE ~Exit
  <2>1. UNCHANGED <<sock, reading, writing, pos, answers, asked>>
    BY <1>2 DEF Die, Start, Stop, Return, AcceptFails, Block, vars, hvars, evars
  <2> QED BY <2>1 DEF Served
<1> QED BY <1>1, <1>2

\* An HttpSession answers each request in its place, one operation at a time, and
\* nothing behind a request that asked to close, whatever is sent ahead of the answers
\* and wherever it fails.
THEOREM RequestsAnswered == Spec => []Answers
<1>1. Init => RequestsServed
  <2> SUFFICES ASSUME Init, NEW p \in Peers PROVE Served(p)
    BY DEF RequestsServed
  <2>1. /\ answers[p] = <<>> /\ writing[p] = <<>> /\ pos[p] = 0
        /\ sock[p] = "none" /\ ~reading[p]
    BY DEF Init
  <2> QED BY <2>1 DEF Served
<1>2. ASSUME TypeInv, RequestsServed, [Next]_vars PROVE RequestsServed'
  <2> SUFFICES ASSUME NEW p \in Peers PROVE Served(p)'
    BY DEF RequestsServed
  <2>1. Served(p)
    BY <1>2 DEF RequestsServed
  <2>2. CASE Handler(p)
    BY <1>2, <2>1, <2>2, ServedByHandlers
  <2>3. ASSUME NEW q \in Peers, Peer(q) \/ (q # p /\ Handler(q)) PROVE Served(p)'
    BY <1>2, <2>1, <2>3, ServedByPeers
  <2>4. CASE \/ Die \/ Start \/ Stop \/ Return \/ Exit \/ AcceptFails
            \/ (\E q \in Peers : Block(q)) \/ UNCHANGED vars
    BY <1>2, <2>1, <2>4, ServedByMain
  <2> QED BY <1>2, <2>2, <2>3, <2>4 DEF Next
<1>3. TypeInv /\ RequestsServed => Answers
  <2> SUFFICES ASSUME TypeInv, RequestsServed PROVE Answers
    OBVIOUS
  <2>1. SUFFICES ASSUME NEW p \in Peers
                 PROVE LET all == answers[p] \o writing[p] IN
                       /\ Len(all) <= pos[p]
                       /\ \A i \in DOMAIN all :
                             /\ asked[p][i].kind = "plain"
                             /\ all[i].status = IF asked[p][i].target = "*" THEN "not_found"
                                                ELSE "bad_request"
                             /\ i < pos[p] => asked[p][i].keep_alive
                       /\ Len(writing[p]) + (IF reading[p] THEN 1 ELSE 0) =
                             IF sock[p] \in {"http", "ws"} THEN 1 ELSE 0
    BY Zenon DEF Answers
  <2> DEFINE all == answers[p] \o writing[p]
  <2>2. Served(p)
    BY DEF RequestsServed
  <2>3. \A r : handle_request(r).status = IF r.target = "*" THEN "not_found" ELSE "bad_request"
    BY DEF handle_request
  <2>0. /\ answers[p] \in Seq(Response) /\ writing[p] \in Seq(Response) /\ pos[p] \in Nat
        /\ Len(answers[p]) \in Nat
    BY PeerTypes
  <2>6. /\ all \in Seq(Response) /\ Len(all) = Len(answers[p]) + Len(writing[p])
        /\ \A i \in 1..Len(answers[p]) : all[i] = answers[p][i]
        /\ \A i \in 1..Len(writing[p]) : all[Len(answers[p]) + i] = writing[p][i]
        /\ writing[p] = <<>> => all = answers[p]
    BY <2>0, ConcatSeq, Zenon
  <2>4. CASE sock[p] = "http" /\ ~reading[p]
    <3> DEFINE res == handle_request(asked[p][pos[p]])
    <3>1. writing[p] = <<res>> /\ Len(answers[p]) + 1 = pos[p] /\ asked[p][pos[p]].kind = "plain"
      BY <2>2, <2>4 DEF Served
    <3>2. /\ all \in Seq(Response) /\ Len(all) = Len(answers[p]) + Len(writing[p])
          /\ \A i \in 1..Len(answers[p]) : all[i] = answers[p][i]
          /\ \A i \in 1..Len(writing[p]) : all[Len(answers[p]) + i] = writing[p][i]
      BY <2>6
    <3> HIDE DEF res
    <3>3. Len(all) = pos[p] /\ all[pos[p]] = res /\ Len(writing[p]) = 1
      BY <2>0, <3>1, <3>2
    <3>4. \A i \in DOMAIN all : i \in 1..Len(answers[p]) \/ i = pos[p]
      BY <2>0, <3>1, <3>2, <3>3
    <3>5. res.status = IF asked[p][pos[p]].target = "*" THEN "not_found" ELSE "bad_request"
      BY <2>3 DEF res
    <3> HIDE DEF all
    <3>6. \A i \in DOMAIN all :
             /\ asked[p][i].kind = "plain"
             /\ all[i].status = IF asked[p][i].target = "*" THEN "not_found" ELSE "bad_request"
             /\ i < pos[p] => asked[p][i].keep_alive
      <4> TAKE i \in DOMAIN all
      <4>1. CASE i \in 1..Len(answers[p])
        <5>1. /\ asked[p][i].kind = "plain" /\ answers[p][i] = handle_request(asked[p][i])
              /\ i < pos[p] => asked[p][i].keep_alive
          BY <2>2, <4>1 DEF Served
        <5>2. all[i] = handle_request(asked[p][i])
          BY <3>2, <4>1, <5>1
        <5> QED BY <2>3, <5>1, <5>2
      <4>2. CASE i = pos[p]
        BY <3>1, <3>3, <3>5, <4>2
      <4> QED BY <3>4, <4>1, <4>2
    <3>7. Len(all) <= pos[p]
      BY <2>0, <3>3
    <3>8. Len(writing[p]) + (IF reading[p] THEN 1 ELSE 0) =
             IF sock[p] \in {"http", "ws"} THEN 1 ELSE 0
      BY <2>4, <3>3
    <3> QED BY <3>6, <3>7, <3>8 DEF all
  <2>5. CASE ~(sock[p] = "http" /\ ~reading[p])
    <3>1. writing[p] = <<>>
      BY <2>2, <2>5 DEF Served
    <3>2. all = answers[p]
      BY <2>6, <3>1
    <3>3. DOMAIN all = 1..Len(answers[p])
      BY <2>0, <3>2
    <3> HIDE DEF all
    <3>4. Len(writing[p]) + (IF reading[p] THEN 1 ELSE 0) =
             IF sock[p] \in {"http", "ws"} THEN 1 ELSE 0
      BY <2>2, <2>5, <3>1 DEF Served
    <3>5. \A i \in DOMAIN all :
             /\ asked[p][i].kind = "plain" /\ all[i] = handle_request(asked[p][i])
             /\ i < pos[p] => asked[p][i].keep_alive
      BY <2>2, <3>2, <3>3 DEF Served
    <3>6. \A i \in DOMAIN all :
             all[i].status = IF asked[p][i].target = "*" THEN "not_found" ELSE "bad_request"
      <4> TAKE i \in DOMAIN all
      <4>1. all[i] = handle_request(asked[p][i])
        BY <3>5
      <4> QED BY <2>3, <4>1
    <3>7. Len(all) <= pos[p]
      BY <2>2, <3>2 DEF Served
    <3> QED BY <3>4, <3>5, <3>6, <3>7 DEF all
  <2> QED BY <2>4, <2>5
<1> QED BY <1>1, <1>2, <1>3, TypeInit, TypeStep, PTL DEF Spec
=============================================================================
