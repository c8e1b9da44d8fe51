------------------------------ MODULE CppFront ------------------------------
(***************************************************************************)
(* What leads to the chat of wschat-cpp: main starts the Listener and the  *)
(* worker threads, the Listener makes an HttpSession of every connection,  *)
(* which answers plain requests and hands a websocket over to a WsConn;    *)
(* WsConn::handle decodes what arrives and relays or refuses it.  Who is   *)
(* sent what is relayed is CppServer's part.                               *)
(*                                                                         *)
(* A completion handler touches one connection, or the acceptor, and no    *)
(* two handlers of a connection run at once: a handler is one action, of   *)
(* whichever worker.  One that asks the Server for its mutex may never     *)
(* return, as CppServer shows: it keeps its worker.  An HttpSession or a   *)
(* WsConn lives as long as one of its operations is outstanding and closes *)
(* its socket when it goes.                                                *)
(* External: the peers, who may send anything and need not read; TCP,      *)
(* Asio's io_context and acceptor, Beast's HTTP and websocket streams.     *)
(***************************************************************************)
EXTENDS CppMessage, Sequences, FiniteSets

CONSTANTS Peers,        \* those who connect
          Talkers,      \* those of them who send anything over a websocket
          Args,         \* how the program may be called
          PortWidth,    \* the bits of unsigned short
          Asks,         \* Asks[p]: what peer p may ask over HTTP
          Texts,        \* what it may send over the websocket
          MaxRequests,  \* bounds on how many of each
          MaxTexts

Statuses == {"bad_request", "not_found"}

ASSUME FrontAssumption ==
    /\ Talkers \subseteq Peers
    /\ PortWidth \in Nat /\ 2^PortWidth \in Nat \ {0}
    /\ MaxRequests \in Nat /\ MaxTexts \in Nat
    /\ \A a \in Args : a.port \in Nat /\ a.workers \in Int
    /\ \A p \in Peers : \A r \in Asks[p] :
          r.kind \in {"plain", "upgrade", "no_key", "malformed"} /\ r.keep_alive \in BOOLEAN

\* A value as nlohmann::json parses it: a number beyond 64 bits is a float.  One whose
\* whole part int64_t cannot hold is left out: its conversion is undefined.
IsValue(v) ==
    /\ v[1] = "string" => v = <<"string", v[2]>>
    /\ v[1] = "unsigned" => v[2] \in 0 .. 2^Width - 1 /\ v = <<"unsigned", v[2]>>
    /\ v[1] = "integer" => v[2] \in -(2^(Width - 1)) .. 0 /\ v = <<"integer", v[2]>>
    /\ v[1] = "float" => v[2] \in -(2^Width) - 1 .. 2^Width - 1 /\ v = <<"float", v[2]>>

ASSUME TextAssumption ==
    \A t \in Texts : t[1] = "object" => \A key \in DOMAIN t[2] : IsValue(t[2][key])

VARIABLES args,       \* the command line
          main,       \* where main is
          workers,    \* threads inside io_context::run
          stuck,      \* connections a handler of which never returns
          acceptor,   \* how far Listener's constructor came
          port,       \* the port of the endpoint
          accepting,  \* an async_accept is outstanding
          refused,    \* an error of one was reported
          sock,       \* who has the socket of a peer
          reading,    \* an async_read of its owner is outstanding
          writing,    \* responses whose async_write is
          asked,      \* requests sent by the peer,
          pos,        \* of which so many were read,
          answers,    \* and the responses to them
          texts,      \* texts sent by the peer
          handled,    \* and what WsConn::handle made of them
          gone        \* the peer has shut its side, or its network broke

pvars == <<args, main, workers, stuck, acceptor, port>>
lvars == <<accepting, refused>>
hvars == <<reading, writing, pos, answers>>
evars == <<asked, texts, gone>>
vars  == <<pvars, lvars, sock, hvars, handled, evars>>

Init ==
    /\ args \in Args /\ main = "start" /\ workers = 0 /\ stuck = {}
    /\ acceptor = "none" /\ port = 0 /\ accepting = FALSE /\ refused = FALSE
    /\ sock = [p \in Peers |-> "none"]
    /\ reading = [p \in Peers |-> FALSE]
    /\ writing = [p \in Peers |-> <<>>]
    /\ asked = [p \in Peers |-> <<>>] /\ pos = [p \in Peers |-> 0]
    /\ answers = [p \in Peers |-> <<>>]
    /\ texts = [p \in Peers |-> <<>>] /\ handled = [p \in Peers |-> <<>>]
    /\ gone = [p \in Peers |-> "no"]

-----------------------------------------------------------------------------
(* main *)

\* No address, no colon, no number after it; or make_address throws.
Die ==
    /\ main = "start" /\ args.addr # "valid"
    /\ main' = "died"
    /\ UNCHANGED <<args, workers, stuck, acceptor, port, lvars, sock, hvars, handled, evars>>

\* The constructor stops at the first call that fails; nobody looks at the result.
Listener == acceptor' \in {"closed", "open", "bound", "listening"}

\* Listener::run: whatever the acceptor has become, it is set to work.
run == accepting' = TRUE

\* Seeded fault: the port is not narrowed.
StartWide ==
    /\ main = "start" /\ args.addr = "valid"
    /\ port' = args.port
    /\ Listener
    /\ run
    /\ workers' = IF args.workers > 1 THEN args.workers ELSE 1
    /\ main' = "running"
    /\ UNCHANGED <<args, stuck, refused, sock, hvars, handled, evars>>

\* The Listener is made and run; then the threads start.
Start ==
    /\ main = "start" /\ args.addr = "valid"
    /\ port' = args.port % 2^PortWidth
    /\ Listener
    /\ run
    /\ workers' = IF args.workers > 1 THEN args.workers ELSE 1
    /\ main' = "running"
    /\ UNCHANGED <<args, stuck, refused, sock, hvars, handled, evars>>

\* A worker is not in a handler that never returns.
Idle == Cardinality(stuck) < workers

\* SIGINT or SIGTERM: a worker calls ioc.stop.
Stop ==
    /\ main = "running" /\ Idle
    /\ main' = "stopping"
    /\ UNCHANGED <<args, workers, stuck, acceptor, port, lvars, sock, hvars, handled, evars>>

\* A thread returns from run, but not out of a handler that never ends.
Return ==
    /\ main = "stopping" /\ workers > 0 /\ Idle
    /\ workers' = workers - 1
    /\ UNCHANGED <<args, main, stuck, acceptor, port, lvars, sock, hvars, handled, evars>>

\* All are joined; with the io_context go the handlers, and with them what they own.
Exit ==
    /\ main = "stopping" /\ workers = 0
    /\ main' = "exited" /\ acceptor' = "closed" /\ accepting' = FALSE
    /\ sock' = [p \in Peers |-> IF sock[p] = "none" THEN "none" ELSE "closed"]
    /\ reading' = [p \in Peers |-> FALSE] /\ writing' = [p \in Peers |-> <<>>]
    /\ UNCHANGED <<args, workers, stuck, port, refused, pos, answers, handled, evars>>

\* A worker can take a handler of p.
Free(p) == main = "running" /\ Idle /\ p \notin stuck

\* With another worker beside it, a handler of a WsConn may wait for the Server's mutex
\* for ever, in a broadcast, a registration or a destructor: CppServer has the steps.
Block(p) ==
    /\ Free(p) /\ workers > 1 /\ sock[p] \in {"handshake", "ws"}
    /\ stuck' = stuck \cup {p}
    /\ UNCHANGED <<args, main, workers, acceptor, port, lvars, sock, hvars, handled, evars>>

-----------------------------------------------------------------------------
(* Listener *)

\* HttpSession::do_read
do_read(p) == reading' = [reading EXCEPT ![p] = TRUE]

\* A new HttpSession for the socket is run.
HttpSession(p) == sock' = [sock EXCEPT ![p] = "http"] /\ do_read(p)

\* Seeded fault: the acceptor is not set to work again.
AcceptOnce(p) ==
    /\ Free(p) /\ accepting /\ acceptor = "listening" /\ sock[p] = "queued"
    /\ HttpSession(p)
    /\ accepting' = FALSE
    /\ UNCHANGED <<pvars, refused, writing, pos, answers, handled, evars>>

\* Listener::accept: the session starts to read, and the next connection may come.
Accept(p) ==
    /\ Free(p) /\ accepting /\ acceptor = "listening" /\ sock[p] = "queued"
    /\ HttpSession(p)
    /\ UNCHANGED <<pvars, lvars, writing, pos, answers, handled, evars>>

\* An error, for want of a listening acceptor or of file descriptors, say: it is
\* reported, and nothing is accepted any more.
AcceptFails ==
    /\ main = "running" /\ Idle /\ accepting
    /\ accepting' = FALSE /\ refused' = TRUE
    /\ UNCHANGED <<pvars, sock, hvars, handled, evars>>

-----------------------------------------------------------------------------
(* HttpSession *)

\* Whether the peer's target begins with a slash decides; the path does not.
handle_request(r) ==
    [status |-> IF r.target = "*" THEN "not_found" ELSE "bad_request", keep_alive |-> r.keep_alive]

\* Seeded fault: no return after the websocket was handed over.
HandleNoReturn(p) ==
    LET r == asked[p][pos[p] + 1] IN
    /\ Free(p) /\ sock[p] = "http" /\ reading[p] /\ pos[p] < Len(asked[p])
    /\ pos' = [pos EXCEPT ![p] = @ + 1]
    /\ reading' = [reading EXCEPT ![p] = FALSE]
    /\ sock' = [sock EXCEPT ![p] =
                   CASE r.kind = "malformed" -> "closed"
                     [] r.kind \in {"upgrade", "no_key"} -> "handshake"
                     [] OTHER -> @]
    /\ writing' = [writing EXCEPT ![p] =
                      IF r.kind # "malformed" THEN Append(@, handle_request(r)) ELSE @]
    /\ UNCHANGED <<pvars, lvars, answers, handled, evars>>

\* HttpSession::handle: what does not parse ends the session, an upgrade gives the
\* socket to a WsConn and starts its handshake, and anything else is answered.  Of what
\* the peer sent behind the upgrade, buffer_ keeps what it holds, and it goes with it.
Handle(p) ==
    LET r == asked[p][pos[p] + 1] IN
    /\ Free(p) /\ sock[p] = "http" /\ reading[p] /\ pos[p] < Len(asked[p])
    /\ pos' = [pos EXCEPT ![p] = @ + 1]
    /\ reading' = [reading EXCEPT ![p] = FALSE]
    /\ sock' = [sock EXCEPT ![p] =
                   CASE r.kind = "malformed" -> "closed"
                     [] r.kind \in {"upgrade", "no_key"} -> "handshake"
                     [] OTHER -> @]
    /\ writing' = [writing EXCEPT ![p] =
                      IF r.kind = "plain" THEN Append(@, handle_request(r)) ELSE @]
    /\ UNCHANGED <<pvars, lvars, answers, handled, evars>>

\* end_of_stream, behind all that was sent, or an error: the session goes.
HandleFails(p) ==
    /\ Free(p) /\ sock[p] = "http" /\ reading[p]
    /\ gone[p] = "broken" \/ (gone[p] = "shut" /\ pos[p] = Len(asked[p]))
    /\ reading' = [reading EXCEPT ![p] = FALSE]
    /\ sock' = [sock EXCEPT ![p] = "closed"]
    /\ UNCHANGED <<pvars, lvars, writing, pos, answers, handled, evars>>

\* HttpSession::on_write: the next request, or the end.  It comes when the peer has
\* taken the answer.
OnWrite(p) ==
    LET res == Head(writing[p]) IN
    /\ Free(p) /\ writing[p] # <<>>
    /\ writing' = [writing EXCEPT ![p] = Tail(@)]
    /\ answers' = [answers EXCEPT ![p] = Append(@, res)]
    /\ reading' = [reading EXCEPT ![p] = res.keep_alive]
    /\ sock' = [sock EXCEPT ![p] = IF res.keep_alive THEN @ ELSE "closed"]
    /\ UNCHANGED <<pvars, lvars, pos, handled, evars>>

OnWriteFails(p) ==
    /\ Free(p) /\ writing[p] # <<>> /\ gone[p] = "broken"
    /\ writing' = [writing EXCEPT ![p] = Tail(@)]
    /\ sock' = [sock EXCEPT ![p] = "closed"]
    /\ UNCHANGED <<pvars, lvars, reading, pos, answers, handled, evars>>

-----------------------------------------------------------------------------
(* WsConn *)

\* WsConn::accept, when the peer has taken Beast's answer to the handshake.
Shaken(p) ==
    /\ Free(p) /\ sock[p] = "handshake"
    /\ asked[p][pos[p]].kind = "upgrade" /\ gone[p] # "broken"
    /\ sock' = [sock EXCEPT ![p] = "ws"]
    /\ reading' = [reading EXCEPT ![p] = TRUE]
    /\ UNCHANGED <<pvars, lvars, writing, pos, answers, handled, evars>>

ShakenFails(p) ==
    /\ Free(p) /\ sock[p] = "handshake"
    /\ asked[p][pos[p]].kind = "no_key" \/ gone[p] = "broken"
    /\ sock' = [sock EXCEPT ![p] = "closed"]
    /\ UNCHANGED <<pvars, lvars, hvars, handled, evars>>

\* broadcast_msg of what was understood, or an error to the peer alone.
Outcomes(text) ==
    IF Accepts(text)
    THEN {[op |-> "broadcast", text |-> serialize(msg)] : msg \in Message(text)}
    ELSE {[op |-> "send", text |-> serialize(SystemMessage("Error", "bad message"))]}

\* WsConn::handle, which reads on in either case.
WsHandle(p) ==
    /\ Free(p) /\ sock[p] = "ws" /\ Len(handled[p]) < Len(texts[p])
    /\ \E o \in Outcomes(texts[p][Len(handled[p]) + 1]) :
          handled' = [handled EXCEPT ![p] = Append(@, o)]
    /\ UNCHANGED <<pvars, lvars, sock, hvars, evars>>

\* What was sent behind the upgrade and is not lost is no websocket frame.
WsHandleFails(p) ==
    /\ Free(p) /\ sock[p] = "ws"
    /\ \/ gone[p] = "broken"
       \/ gone[p] = "shut" /\ Len(handled[p]) = Len(texts[p])
       \/ pos[p] < Len(asked[p])
    /\ reading' = [reading EXCEPT ![p] = FALSE]
    /\ sock' = [sock EXCEPT ![p] = "closed"]
    /\ UNCHANGED <<pvars, lvars, writing, pos, answers, handled, evars>>

-----------------------------------------------------------------------------
(* The peers *)

\* The system queues a connection whether or not anybody accepts it.
Connect(p) ==
    /\ acceptor = "listening" /\ port = args.port /\ sock[p] = "none"
    /\ sock' = [sock EXCEPT ![p] = "queued"]
    /\ UNCHANGED <<pvars, lvars, hvars, handled, evars>>

\* Requests may be sent ahead of the answers, also behind an upgrade.
Ask(p) ==
    /\ sock[p] \in {"queued", "http"} /\ gone[p] = "no" /\ Len(asked[p]) < MaxRequests
    /\ \E r \in Asks[p] : asked' = [asked EXCEPT ![p] = Append(@, r)]
    /\ UNCHANGED <<pvars, lvars, sock, hvars, handled, texts, gone>>

\* Texts may be sent ahead of the answer to the handshake.
SendText(p) ==
    /\ p \in Talkers /\ sock[p] \in {"handshake", "ws"}
    /\ gone[p] = "no" /\ Len(texts[p]) < MaxTexts
    /\ \E t \in Texts : texts' = [texts EXCEPT ![p] = Append(@, t)]
    /\ UNCHANGED <<pvars, lvars, sock, hvars, handled, asked, gone>>

Leave(p) ==
    /\ sock[p] \notin {"none", "closed"} /\ gone[p] = "no"
    /\ \E how \in {"shut", "broken"} : gone' = [gone EXCEPT ![p] = how]
    /\ UNCHANGED <<pvars, lvars, sock, hvars, handled, asked, texts>>

-----------------------------------------------------------------------------
Handler(p) ==
    \/ Accept(p) \/ Handle(p) \/ HandleFails(p) \/ OnWrite(p) \/ OnWriteFails(p)
    \/ Shaken(p) \/ ShakenFails(p) \/ WsHandle(p) \/ WsHandleFails(p)

Peer(p) == Connect(p) \/ Ask(p) \/ SendText(p) \/ Leave(p)

Next ==
    \/ Die \/ Start \/ Stop \/ Return \/ Exit \/ AcceptFails
    \/ \E p \in Peers : Handler(p) \/ Block(p) \/ Peer(p)

Spec == Init /\ [][Next]_vars

\* The handlers that wait for nothing from their peer: a response, that to a handshake
\* included, is written when the peer reads it, for no stream has a timeout.
Ready(p) ==
    \/ Accept(p) \/ Handle(p) \/ HandleFails(p) \/ OnWriteFails(p) \/ WsHandle(p)
    \/ gone[p] = "broken" /\ ShakenFails(p)
    \/ gone[p] # "no" /\ WsHandleFails(p)

\* The workers take handlers that are ready.  No peer owes anything, no call need fail,
\* and no handler that has begun to wait for the mutex need get it.
FairSpec == Spec /\ \A p \in Peers : WF_vars(Ready(p))

-----------------------------------------------------------------------------
(* Properties *)

\* Every variable stays in its type.
TypeOK ==
    /\ args \in Args /\ main \in {"start", "died", "running", "stopping", "exited"}
    /\ workers \in Nat /\ stuck \subseteq Peers /\ port \in 0 .. 2^PortWidth - 1
    /\ accepting \in BOOLEAN /\ refused \in BOOLEAN
    /\ acceptor \in {"none", "closed", "open", "bound", "listening"}
    /\ sock \in [Peers -> {"none", "queued", "http", "handshake", "ws", "closed"}]
    /\ reading \in [Peers -> BOOLEAN] /\ pos \in [Peers -> 0..MaxRequests]
    /\ writing \in [Peers -> Seq([status : Statuses, keep_alive : BOOLEAN])]
    /\ answers \in [Peers -> Seq([status : Statuses, keep_alive : BOOLEAN])]
    /\ \A p \in Peers : asked[p] \in Seq(Asks[p])
    /\ texts \in [Peers -> Seq(Texts)]
    /\ gone \in [Peers -> {"no", "shut", "broken"}]
    /\ \A p \in Peers : \A i \in DOMAIN handled[p] :
          handled[p][i].op \in {"broadcast", "send"} /\ Accepts(handled[p][i].text)

\* However requests are sent ahead of their answers, each has one answer in its own
\* place; nothing is answered behind a request that asked to close, nor by the
\* HttpSession once the WsConn has the socket, whatever was sent behind the upgrade; and
\* an HttpSession never has two operations outstanding, nor one beside its WsConn's.
Answers ==
    \A p \in Peers :
        LET all == answers[p] \o writing[p] IN
        /\ Len(all) <= pos[p]
        /\ \A i \in DOMAIN all :
              /\ asked[p][i].kind = "plain"
              /\ all[i].status = IF asked[p][i].target = "*" THEN "not_found" ELSE "bad_request"
              /\ i < pos[p] => asked[p][i].keep_alive
        /\ Len(writing[p]) + (IF reading[p] THEN 1 ELSE 0) =
              IF sock[p] \in {"http", "ws"} THEN 1 ELSE 0

\* A value its field may have, by the README's format of a message; a timestamp may be
\* any number.
Fits(v, key) ==
    CASE key \in {"sender", "contents"} -> IsString(v)
      [] key = "action"    -> IsString(v) /\ v[2] \in {"connect", "chat", "disconnect", "error"}
      [] key = "timestamp" -> IsNumber(v)

Fields == {"sender", "action", "contents", "timestamp"}

\* Every field that is there fits, and: every field is there.
Conforms(v) == v[1] = "object" /\ \A key \in Fields : Has(v, key) => Fits(v[2][key], key)
Complete(v) == Conforms(v) /\ \A key \in Fields : Has(v, key)

\* What WsConn::handle made of a text it was sent.
Relayed(sent, got) ==
    /\ Complete(got.text)
    /\ \A raw \in Int64 : serialize(from_json(got.text, raw)) = got.text
    /\ got.op = "send" =>
          ~Complete(sent) /\ got.text[2].action[2] = "error" /\ got.text[2].sender[2] = "system"
    /\ got.op = "broadcast" =>
          /\ Conforms(sent)
          /\ \A key \in {"sender", "action", "contents"} :
                Has(sent, key) => got.text[2][key] = sent[2][key]
          /\ ~Has(sent, "action") => got.text[2].action[2] = "chat"
          /\ ~Has(sent, "contents") => got.text[2].contents[2] = ""

\* Texts are dealt with in the order sent, each wholly or not at all: relayed to all as a
\* complete message, with the sender, the action and the contents it came with, or
\* refused to its sender alone.  A complete message is never refused, one with a field
\* that does not fit never relayed.  Nothing is said of the two things the README has
\* otherwise: the value of the timestamp, and whether the sender may be left out.
Relays ==
    \A p \in Peers : \A i \in DOMAIN handled[p] : Relayed(texts[p][i], handled[p][i])

\* Nothing is due to peer p: it is not waiting to be accepted, while that can happen,
\* all it sent was dealt with, and if it has left its socket is closed.
Settled(p) ==
    CASE sock[p] = "queued" -> refused
      [] sock[p] = "http" -> gone[p] = "no" /\ pos[p] = Len(asked[p]) /\ writing[p] = <<>>
      [] sock[p] = "ws" -> gone[p] = "no" /\ Len(handled[p]) = Len(texts[p])
      [] OTHER -> sock[p] # "handshake"

\* p reads what it is sent.
TakesAnswers(p) == []<>(writing[p] = <<>> /\ sock[p] # "handshake")

\* As long as the program runs and no handler is stuck, a peer that reads is served,
\* whatever the others do and whether or not they read: it is accepted, unless an accept
\* has failed, whatever it asks is answered or handed over, whatever it says is handled,
\* and when it leaves it is let go of.
Settles ==
    \A p \in Peers :
        TakesAnswers(p) => (sock[p] # "none" ~> Settled(p) \/ main # "running" \/ stuck # {})
=============================================================================
