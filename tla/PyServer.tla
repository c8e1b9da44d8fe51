------------------------------ MODULE PyServer ------------------------------
(***************************************************************************)
(* The FastAPI server of wschat-py: one coroutine per websocket on a       *)
(* single event loop, sharing the list `clients`.  A broadcast awaits a    *)
(* send to each client in turn while it iterates over the live list, so    *)
(* the other coroutines may append to the list, or remove from it, between *)
(* two of its sends.                                                       *)
(*                                                                         *)
(* External: asyncio, starlette and uvicorn.  An await may or may not let  *)
(* the others run, so every send is a step of its own; a send on a socket  *)
(* that is closed raises, as does one whose argument is not text; when a   *)
(* handler ends, by returning or by an exception, its socket is closed.    *)
(***************************************************************************)
EXTENDS ChatMessage, SequencesExt

CONSTANTS Conns,     \* the websocket connections, named by the UUID of each
          Talkers,   \* those whose user sends chats
          Leavers,   \* those whose user goes away, or sends a value that is no message
          Garblers,  \* those whose user sends something that is not JSON
          MaxChats   \* bound on the chats one user sends

ASSUME PyAssumption ==
    /\ Talkers \subseteq Conns /\ Leavers \subseteq Conns /\ Garblers \subseteq Conns
    /\ MaxChats \in Nat

VARIABLES pc,       \* where the handler of each connection stands
          idx,      \* how far the list iterator of its broadcast has come
          clients,  \* Clients._clients
          wire,     \* wire[c]: the frames sent to c
          said,     \* chats received from the user of c
          gone      \* the peer has closed

vars == <<pc, idx, clients, wire, said, gone>>

Ordinals == 1..MaxChats

Connected(c)    == NewSystemMessage("connect", c)
Disconnected(c) == NewSystemMessage("disconnect", c)
Chat(c, n)      == NewChatMessage("chat", c, n)

Init ==
    /\ pc = [c \in Conns |-> "start"]
    /\ idx = [c \in Conns |-> 0]
    /\ clients = <<>>
    /\ wire = [c \in Conns |-> <<>>]
    /\ said = [c \in Conns |-> 0]
    /\ gone = [c \in Conns |-> FALSE]

Goto(c, from, to) == pc[c] = from /\ pc' = [pc EXCEPT ![c] = to]

\* A send to d raises.
Closed(d) == gone[d] \/ pc[d] \in {"done", "raised"}

\* ws.send_text: what reaches the wire of d.
SendText(d, m) == wire' = IF Closed(d) THEN wire ELSE [wire EXCEPT ![d] = Append(@, m)]

-----------------------------------------------------------------------------
(* broadcast_msg_str *)

\* Seeded fault: a chat goes out under the number of the next one.
CurrentNext(c) == CASE pc[c] = "connect"    -> Connected(c)
                    [] pc[c] = "chat"       -> Chat(c, said[c] + 1)
                    [] pc[c] = "disconnect" -> Disconnected(c)

\* What the handler of c is broadcasting, told by where it stands.
Current(c) == CASE pc[c] = "connect"    -> Connected(c)
                [] pc[c] = "chat"       -> Chat(c, said[c])
                [] pc[c] = "disconnect" -> Disconnected(c)

Broadcasting(c) == pc[c] \in {"connect", "chat", "disconnect"}

\* Seeded fault: the first client of the list is skipped.
BeginLate(c) == idx' = [idx EXCEPT ![c] = 1]

\* A new iterator over the list.
Begin(c) == idx' = [idx EXCEPT ![c] = 0]

\* One round of the loop: the list is read afresh, and a send that raises is ignored.
SendNext(c) ==
    /\ Broadcasting(c)
    /\ idx[c] < Len(clients)
    /\ idx' = [idx EXCEPT ![c] = @ + 1]
    /\ SendText(clients[idx[c] + 1], Current(c))
    /\ UNCHANGED <<pc, clients, said, gone>>

\* The iterator is exhausted.
Exhausted(c) == idx[c] >= Len(clients)

-----------------------------------------------------------------------------
(* handler *)

Accept(c) ==
    /\ Goto(c, "start", "connect")
    /\ Begin(c)
    /\ UNCHANGED <<clients, wire, said, gone>>

\* Seeded fault: the newcomer is registered before their own copy is sent.
SendOwnAfterAdd(c) ==
    /\ Goto(c, "connect", "add") /\ Exhausted(c)
    /\ clients' = Append(clients, c)
    /\ UNCHANGED <<idx, wire, said, gone>>

\* The newcomer's own copy follows the broadcast.  On a closed socket the send raises
\* out of the handler: nothing catches it, and nobody is told.
SendOwn(c) ==
    /\ pc[c] = "connect" /\ Exhausted(c)
    /\ pc' = [pc EXCEPT ![c] = IF Closed(c) THEN "raised" ELSE "add"]
    /\ SendText(c, Connected(c))
    /\ UNCHANGED <<idx, clients, said, gone>>

\* Seeded fault: newcomers go to the front of the list.
AddFront(c) ==
    /\ Goto(c, "add", "loop")
    /\ clients' = <<c>> \o clients
    /\ UNCHANGED <<idx, wire, said, gone>>

Add(c) ==
    /\ Goto(c, "add", "loop")
    /\ clients' = Append(clients, c)
    /\ UNCHANGED <<idx, wire, said, gone>>

\* A message that parses; it may have been sent before the peer closed.
ReceiveChat(c) ==
    /\ c \in Talkers /\ said[c] < MaxChats
    /\ Goto(c, "loop", "chat")
    /\ said' = [said EXCEPT ![c] = @ + 1]
    /\ Begin(c)
    /\ UNCHANGED <<clients, wire, gone>>

ChatSent(c) ==
    /\ Exhausted(c)
    /\ Goto(c, "chat", "loop")
    /\ UNCHANGED <<idx, clients, wire, said, gone>>

\* JSONDecodeError: its handler passes a Message where text is wanted, so that send
\* raises, out of the loop and out of the handler.
ReceiveGarbage(c) ==
    /\ c \in Garblers
    /\ Goto(c, "loop", "raised")
    /\ UNCHANGED <<idx, clients, wire, said, gone>>

\* WebSocketDisconnect, or any other exception of from_json: the loop ends and the
\* disconnect is broadcast.
ReceiveEnd(c) ==
    /\ gone[c] \/ c \in Leavers
    /\ Goto(c, "loop", "disconnect")
    /\ Begin(c)
    /\ UNCHANGED <<clients, wire, said, gone>>

\* Seeded fault: the last of the list is taken out, whoever that is.
UnregisterLast(c) ==
    /\ Exhausted(c)
    /\ Goto(c, "disconnect", "done")
    /\ clients' = Front(clients)
    /\ UNCHANGED <<idx, wire, said, gone>>

\* clients.remove, as soon as the broadcast has ended.
Unregister(c) ==
    /\ Exhausted(c)
    /\ Goto(c, "disconnect", "done")
    /\ clients' = RemoveFirst(clients, c)
    /\ UNCHANGED <<idx, wire, said, gone>>

PeerCloses(c) ==
    /\ c \in Leavers /\ ~gone[c] /\ pc[c] \notin {"start", "done", "raised"}
    /\ gone' = [gone EXCEPT ![c] = TRUE]
    /\ UNCHANGED <<pc, idx, clients, wire, said>>

-----------------------------------------------------------------------------
HandlerStep(c) == SendNext(c) \/ SendOwn(c) \/ Add(c) \/ ChatSent(c) \/ Unregister(c)

UserStep(c) ==
    Accept(c) \/ ReceiveChat(c) \/ ReceiveGarbage(c) \/ ReceiveEnd(c) \/ PeerCloses(c)

Next == \E c \in Conns : HandlerStep(c) \/ UserStep(c)

Spec == Init /\ [][Next]_vars

\* The event loop runs every coroutine that is ready, and a receive on a socket that
\* was closed ends; users owe nothing.
Fairness ==
    \A c \in Conns : WF_vars(HandlerStep(c)) /\ WF_vars(gone[c] /\ ReceiveEnd(c))

FairSpec == Spec /\ Fairness

-----------------------------------------------------------------------------
(* Properties *)

\* Every variable stays in its type.  An iterator may have been left behind the end
\* of the list by a removal.
TypeOK ==
    /\ pc \in [Conns -> {"start", "connect", "add", "loop", "chat", "disconnect", "done",
                         "raised"}]
    /\ idx \in [Conns -> Nat]
    /\ clients \in Seq(Conns)
    /\ wire \in [Conns -> Seq(Message({"connect", "chat", "disconnect"}, Conns, Ordinals))]
    /\ said \in [Conns -> 0..MaxChats]
    /\ gone \in [Conns -> BOOLEAN]

\* The first frame a user gets is their own "connect", whoever is in the middle of a
\* broadcast when they are added to the list.
OwnConnectFirst == \A c \in Conns : wire[c] # <<>> => wire[c][1] = Connected(c)

\* Appending to the list and removing from it under a running iterator never makes it
\* serve a client twice, and what a user hears of another stays in the order of that
\* other's session.
SessionOrder ==
    \A c, d \in Conns :
        /\ NoRepeats(wire[d])
        /\ \A m \in {Connected(c)} \cup {Chat(c, k) : k \in Ordinals} :
              NotAfter(wire[d], m, Disconnected(c))
        /\ \A k \in Ordinals :
            /\ NotAfter(wire[d], Connected(c), Chat(c, k))
            /\ k > 1 => NotAfter(wire[d], Chat(c, k - 1), Chat(c, k))

\* As long as nobody has been taken off the list, a broadcast that has reached its end
\* has been sent to everybody on it, those who were added meanwhile included.
Delivered ==
    (\A e \in Conns : pc[e] # "done") =>
        \A c \in Conns : Broadcasting(c) /\ Exhausted(c) =>
            \A d \in Range(clients) : Closed(d) \/ Heard(wire[d], Current(c))

\* The list holds exactly the clients whose handlers are in their loop or on the way out
\* of it, each of them once; a handler that text which is not JSON ended by an exception
\* leaves its client there, and nothing else does.
NoGhosts ==
    /\ NoRepeats(clients)
    /\ \A c \in Conns : pc[c] \in {"loop", "chat", "disconnect"} => c \in Range(clients)
    /\ \A c \in Range(clients) :
          pc[c] \in {"loop", "chat", "disconnect"} \/ (pc[c] = "raised" /\ c \in Garblers)

\* A user who goes away ends up off the list, for good: the iteration over a list that
\* others change comes to an end.  Only a handler that text which is not JSON has ended
\* leaves its client there.
DeparturesComplete ==
    \A c \in Leavers :
        gone[c] ~> \/ [](c \notin Range(clients))
                   \/ c \in Garblers /\ pc[c] = "raised"

-----------------------------------------------------------------------------
(* What the README says and the code does not do *)

\* README: everything that goes on in the server can be seen by all, including all
\* messages sent.
SeenByAll ==
    \A c \in Conns : pc[c] = "chat" /\ Exhausted(c) =>
        \A d \in Range(clients) : Closed(d) \/ Heard(wire[d], Chat(c, said[c]))
=============================================================================
