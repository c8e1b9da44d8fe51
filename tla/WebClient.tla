----------------------------- MODULE WebClient ------------------------------
(***************************************************************************)
(* The page of server/static/js/index.js.  One object, app, holds the      *)
(* socket, the user's UUID and the messages shown; every WebSocket it ever *)
(* made keeps calling the same handlers, whether or not it is still the    *)
(* app's.  The browser runs one event at a time: an event is one action.   *)
(*                                                                         *)
(* A socket is also the name of the room and of the UUID its server gave   *)
(* out.  External: the browser's WebSocket, which drops messages once it   *)
(* is closing and reports a connection that failed as an error and then a  *)
(* close; and the servers, which open every connection with its own        *)
(* "connect" and may say anything after it.                                *)
(***************************************************************************)
EXTENDS Integers, SequencesExt

CONSTANTS Sockets,   \* the WebSockets made, in any order
          None,      \* null
          Actions,   \* the actions servers send
          Stamps,    \* the timestamps they send; signed
          MaxGot     \* bound on the messages of all sockets

\* A timestamp that was left out: undefined, and no smaller or larger than any other.
Undefined == -1

ASSUME WebAssumption == None \notin Sockets /\ Stamps \subseteq Int /\ MaxGot \in Nat

VARIABLES app,     \* ws, isOpen, uuid and messages
          ready,   \* readyState of every socket
          got,     \* messages delivered by it
          joined   \* sockets that opened while they were the app's

vars == <<app, ready, got, joined>>

Init ==
    /\ app = [ws |-> None, isOpen |-> FALSE, uuid |-> None, messages |-> <<>>]
    /\ ready = [s \in Sockets |-> "none"]
    /\ got = [s \in Sockets |-> 0]
    /\ joined = {}

-----------------------------------------------------------------------------
(* Methods of the app: what they leave of it, and of the sockets *)

isConnected(a) == a.isOpen /\ a.ws # None

\* Seeded fault: the messages stay.
reset_shows(a) ==
    [ws |-> None, isOpen |-> a.isOpen /\ ~isConnected(a), uuid |-> None, messages |-> a.messages]

reset(a) ==
    [ws |-> None, isOpen |-> a.isOpen /\ ~isConnected(a), uuid |-> None, messages |-> <<>>]

\* Seeded fault: the socket is forgotten, not closed.
closed_by_reset_none(r, a) == r

\* ws.close() in reset: a socket that is not open yet fails instead.
closed_by_reset(r, a) ==
    IF isConnected(a)
    THEN [r EXCEPT ![a.ws] = IF @ = "connecting" THEN "failing" ELSE "closing"]
    ELSE r

\* The sign of a timestamp is lost on the expression that looks for its digits.
parseMessage(m) ==
    [m EXCEPT !.timestamp = IF m.timestamp = Undefined THEN @ ELSE IF @ < 0 THEN -@ ELSE @]

\* Seeded fault: the comparison is turned round.
insert_reversed(messages, m) ==
    InsertAt(messages, 1 + SelectLastInSeq(messages,
        LAMBDA e : e.timestamp # Undefined /\ e.timestamp > m.timestamp), m)

\* Behind the last message with a smaller timestamp.
insert(messages, m) ==
    InsertAt(messages, 1 + SelectLastInSeq(messages,
        LAMBDA e : e.timestamp # Undefined /\ e.timestamp < m.timestamp), m)

-----------------------------------------------------------------------------
(* The user *)

\* changeServer with no such server.
Leave ==
    /\ app' = reset(app)
    /\ ready' = closed_by_reset(ready, app)
    /\ UNCHANGED <<got, joined>>

\* changeServer and connectToWs: the app is reset only if it is connected, so a socket
\* that is still connecting is replaced and lives on.
Connect(s) ==
    LET a == IF isConnected(app) THEN reset(app) ELSE app IN
    /\ ready[s] = "none"
    /\ app' = [a EXCEPT !.ws = s]
    /\ ready' = [closed_by_reset(ready, app) EXCEPT ![s] = "connecting"]
    /\ UNCHANGED <<got, joined>>

\* new WebSocket throws: what was there remains.
ConnectThrows ==
    /\ isConnected(app)
    /\ app' = reset(app)
    /\ ready' = closed_by_reset(ready, app)
    /\ UNCHANGED <<got, joined>>

-----------------------------------------------------------------------------
(* Events of a socket s *)

openHandler(s) ==
    /\ ready[s] = "connecting"
    /\ ready' = [ready EXCEPT ![s] = "open"]
    /\ app' = [app EXCEPT !.isOpen = TRUE]
    /\ joined' = IF app.ws = s THEN joined \cup {s} ELSE joined
    /\ UNCHANGED got

\* What servers may send: the first message is the "connect" of this user.
Sent(s) ==
    {m \in [via : {s}, action : Actions, contents : {s, "other"}, timestamp : Stamps] :
        /\ got[s] = 0 => m.action = "connect" /\ m.contents = s
        /\ m.contents = s => m.action \in {"connect", "disconnect"}}

\* The messages delivered so far.
Delivered == FoldFunction(+, 0, got)

\* An action that is not known, or what does not parse, resets the app like an error
\* and is not shown.
messageHandler(s) ==
    /\ ready[s] = "open" /\ Delivered < MaxGot
    /\ got' = [got EXCEPT ![s] = @ + 1]
    /\ \E raw \in Sent(s) :
        LET m      == parseMessage(raw)
            known  == m.action \in {"connect", "chat", "disconnect", "error"}
            resets == \/ ~known \/ m.action = "error"
                      \/ m.action = "disconnect" /\ m.contents = app.uuid
            a == CASE resets -> reset(app)
                   [] m.action = "connect" /\ app.uuid = None -> [app EXCEPT !.uuid = m.contents]
                   [] OTHER -> app
        IN
        /\ app' = IF known THEN [a EXCEPT !.messages = insert(@, m)] ELSE a
        /\ ready' = IF resets THEN closed_by_reset(ready, app) ELSE ready
    /\ UNCHANGED joined

\* The connection fails: errorHandler; the close event that follows finds no socket.
errorHandler(s) ==
    /\ ready[s] \in {"connecting", "failing", "open", "closing"}
    /\ app' = reset(app)
    /\ ready' = [closed_by_reset(ready, app) EXCEPT ![s] = "closed"]
    /\ UNCHANGED <<got, joined>>

\* The connection is closed by the server, or as the app asked: the app may have another
\* socket by now, which the handler does not look at.
closeHandler(s) ==
    /\ ready[s] \in {"open", "closing"}
    /\ app' = IF isConnected(app) THEN reset(app) ELSE app
    /\ ready' = [closed_by_reset(ready, app) EXCEPT ![s] = "closed"]
    /\ UNCHANGED <<got, joined>>

-----------------------------------------------------------------------------
Next ==
    \/ Leave \/ ConnectThrows
    \/ \E s \in Sockets : \/ Connect(s) \/ openHandler(s) \/ messageHandler(s)
                          \/ errorHandler(s) \/ closeHandler(s)

Spec == Init /\ [][Next]_vars

-----------------------------------------------------------------------------
(* Properties *)

\* However late the events of old sockets come: the app never holds on to a socket that
\* is closing or closed, and a room that was joined is never left with its socket open,
\* with the user still in it.
Held ==
    /\ app.ws # None => ready[app.ws] \in {"connecting", "open"}
    /\ \A s \in joined \ {app.ws} : ready[s] # "open"

\* Once a room that was joined is left, nothing of it is shown but its last word, the
\* error or the disconnect that reset the app; and as long as no socket was replaced
\* before it opened, the user speaks as who the present server takes them for.
OneRoom ==
    /\ \A i \in DOMAIN app.messages :
          LET m == app.messages[i] IN
          m.via \in joined \ {app.ws} => m.action \in {"error", "disconnect"}
    /\ (\A s \in Sockets \ joined : got[s] = 0) => app.uuid \in {None, app.ws}

\* Messages are shown in the order of their timestamps, in whatever order they come.
Sorted ==
    LET ms == app.messages IN
    (\A i \in DOMAIN ms : ms[i].timestamp # Undefined) =>
        \A i, j \in DOMAIN ms : i < j => ms[i].timestamp <= ms[j].timestamp
=============================================================================
