----------------------------- MODULE RustServer -----------------------------
(***************************************************************************)
(* The actix server of wschat-rust: one Server actor owning the registry   *)
(* `clients`, and one Conn actor per websocket.  Actors run one handler at *)
(* a time and talk only through mailboxes (do_send), so an action here is  *)
(* one handler, and the interleaving of the mailboxes is what is explored. *)
(* External: actix, whose mailboxes are unbounded FIFO queues for do_send, *)
(* and which drops what is sent to an actor that has stopped.              *)
(***************************************************************************)
EXTENDS ChatMessage

CONSTANTS Conns,     \* the websocket connections, named by the UUID of each
          Talkers,   \* those whose users send messages; the others listen
          MaxChats,  \* bound on the chats one user sends
          MaxBad     \* bound on the malformed messages one user sends

ASSUME BoundsAssumption == Talkers \subseteq Conns /\ MaxChats \in Nat /\ MaxBad \in Nat

VARIABLES conn,     \* life cycle of the Conn actor
          mbox,     \* the mailbox of the Server actor
          clients,  \* the keys of Server.clients
          sent,     \* sent[c]: the SerMsgs do_send put in the mailbox of Conn c
          pos,      \* how many of sent[c] Conn c has handled
          wire,     \* wire[c]: the text frames Conn c has written to its websocket
          said,     \* chats received from the user of c
          bad       \* malformed messages received from the user of c

vars == <<conn, mbox, clients, sent, pos, wire, said, bad>>

Texts == 1..MaxChats

\* Action::as_str, the serialised form of an action.
as_str == [Connect |-> "connect", Chat |-> "chat", Disconnect |-> "discconnect",
           Error |-> "error"]

WireActions == {as_str.Connect, as_str.Chat, as_str.Disconnect, as_str.Error}

\* A SerMsg, a message as serde_json::to_string writes it.
SysMsg(action, c) == NewSystemMessage(action, c)
ChatMsg(c, n)     == NewChatMessage(as_str.Chat, c, n)

\* What the mailbox of the Server holds: Connect, Message or Disconnect.
ServerMsg == [type : {"Connect", "Message", "Disconnect"}, uuid : Conns, n : {0} \cup Texts]

Init ==
    /\ conn = [c \in Conns |-> "new"]
    /\ mbox = <<>>
    /\ clients = {}
    /\ sent = [c \in Conns |-> <<>>]
    /\ pos = [c \in Conns |-> 0]
    /\ wire = [c \in Conns |-> <<>>]
    /\ said = [c \in Conns |-> 0]
    /\ bad = [c \in Conns |-> 0]

DoSend(type, c, n) == mbox' = Append(mbox, [type |-> type, uuid |-> c, n |-> n])

-----------------------------------------------------------------------------
(* The Conn actor *)

\* Conn::started, run before the actor handles anything.
Started(c) ==
    /\ conn[c] = "new"
    /\ conn' = [conn EXCEPT ![c] = "running"]
    /\ DoSend("Connect", c, 0)
    /\ UNCHANGED <<clients, sent, pos, wire, said, bad>>

\* A text frame that parses: the chat is stamped with the connection's own UUID.
HandleText(c) ==
    /\ conn[c] = "running"
    /\ c \in Talkers /\ said[c] < MaxChats
    /\ said' = [said EXCEPT ![c] = @ + 1]
    /\ DoSend("Message", c, said[c] + 1)
    /\ UNCHANGED <<conn, clients, sent, pos, wire, bad>>

\* A text frame that does not parse is answered on the spot; the connection goes on.
HandleBadText(c) ==
    /\ conn[c] = "running"
    /\ c \in Talkers /\ bad[c] < MaxBad
    /\ bad' = [bad EXCEPT ![c] = @ + 1]
    /\ wire' = [wire EXCEPT ![c] = Append(@, SysMsg(as_str.Error, c))]
    /\ UNCHANGED <<conn, mbox, clients, sent, pos, said>>

\* Seeded faults: stopping returns Running::Continue; it tells the Server only of a
\* connection that is registered already.
HandleStopContinue(c) ==
    /\ conn[c] = "running"
    /\ DoSend("Disconnect", c, 0)
    /\ UNCHANGED <<conn, clients, sent, pos, wire, said, bad>>

HandleStopRegistered(c) ==
    /\ conn[c] = "running"
    /\ conn' = [conn EXCEPT ![c] = "stopped"]
    /\ IF c \in clients THEN DoSend("Disconnect", c, 0) ELSE UNCHANGED mbox
    /\ UNCHANGED <<clients, sent, pos, wire, said, bad>>

\* A close or continuation frame, a protocol error or the end of the stream: the
\* context stops and Conn::stopping tells the Server.
HandleStop(c) ==
    /\ conn[c] = "running"
    /\ conn' = [conn EXCEPT ![c] = "stopped"]
    /\ DoSend("Disconnect", c, 0)
    /\ UNCHANGED <<clients, sent, pos, wire, said, bad>>

\* Seeded faults: a message is skipped; a user's own chats are not relayed.
HandleSerMsgSkip(c) ==
    /\ conn[c] = "running"
    /\ pos[c] < Len(sent[c])
    /\ pos' = [pos EXCEPT ![c] = @ + 2]
    /\ wire' = [wire EXCEPT ![c] = Append(@, sent[c][pos[c] + 1])]
    /\ UNCHANGED <<conn, mbox, clients, sent, said, bad>>

HandleSerMsgMute(c) ==
    LET m == sent[c][pos[c] + 1] IN
    /\ conn[c] = "running"
    /\ pos[c] < Len(sent[c])
    /\ pos' = [pos EXCEPT ![c] = @ + 1]
    /\ wire' = IF m.action = as_str.Chat /\ m.user = c THEN wire
               ELSE [wire EXCEPT ![c] = Append(@, m)]
    /\ UNCHANGED <<conn, mbox, clients, sent, said, bad>>

\* Handler<SerMsg> for Conn: the next message of the mailbox goes to the websocket.
HandleSerMsg(c) ==
    /\ conn[c] = "running"
    /\ pos[c] < Len(sent[c])
    /\ pos' = [pos EXCEPT ![c] = @ + 1]
    /\ wire' = [wire EXCEPT ![c] = Append(@, sent[c][pos[c] + 1])]
    /\ UNCHANGED <<conn, mbox, clients, sent, said, bad>>

-----------------------------------------------------------------------------
(* The Server actor *)

\* The Server's next message is of this type and from c.
Receives(type, c) ==
    /\ mbox # <<>>
    /\ Head(mbox).type = type
    /\ Head(mbox).uuid = c
    /\ mbox' = Tail(mbox)

\* Server::broadcast_msg_text to the recipients in S, of which the stopped ones drop it.
BroadcastText(S, m) ==
    sent' = [c \in Conns |-> IF c \in S /\ conn[c] # "stopped" THEN Append(sent[c], m)
                                                              ELSE sent[c]]

\* Seeded faults: everybody but the newcomer is left out; the newcomer is registered
\* before the broadcast and gets two copies.
ConnectRecipientsNewcomer(c) == {c}

HandleConnectTwice(c) ==
    LET m == SysMsg(as_str.Connect, c) IN
    /\ Receives("Connect", c)
    /\ sent' = [d \in Conns |-> IF d \in clients THEN Append(sent[d], m)
                                ELSE IF d = c THEN Append(Append(sent[d], m), m) ELSE sent[d]]
    /\ clients' = clients \cup {c}
    /\ UNCHANGED <<conn, pos, wire, said, bad>>

\* Handler<Connect>: the others first, then the newcomer, then the registry.
ConnectRecipients(c) == clients \cup {c}

HandleConnect(c) ==
    /\ Receives("Connect", c)
    /\ BroadcastText(ConnectRecipients(c), SysMsg(as_str.Connect, c))
    /\ clients' = clients \cup {c}
    /\ UNCHANGED <<conn, pos, wire, said, bad>>

\* Handler<Message>.
HandleMessage(c) ==
    /\ Receives("Message", c)
    /\ BroadcastText(clients, ChatMsg(c, Head(mbox).n))
    /\ UNCHANGED <<conn, clients, pos, wire, said, bad>>

\* Seeded faults: nobody is told; the registry keeps the user.
HandleDisconnectSilent(c) ==
    /\ Receives("Disconnect", c)
    /\ clients' = clients \ {c}
    /\ UNCHANGED <<conn, sent, pos, wire, said, bad>>

HandleDisconnectKeep(c) ==
    /\ Receives("Disconnect", c)
    /\ BroadcastText(clients, SysMsg(as_str.Disconnect, c))
    /\ UNCHANGED <<conn, clients, pos, wire, said, bad>>

\* Handler<Disconnect>.
HandleDisconnect(c) ==
    /\ Receives("Disconnect", c)
    /\ BroadcastText(clients, SysMsg(as_str.Disconnect, c))
    /\ clients' = clients \ {c}
    /\ UNCHANGED <<conn, pos, wire, said, bad>>

-----------------------------------------------------------------------------
ServerStep(c) == HandleConnect(c) \/ HandleMessage(c) \/ HandleDisconnect(c)

UserStep(c) == Started(c) \/ HandleText(c) \/ HandleBadText(c) \/ HandleStop(c)

Next == \E c \in Conns : UserStep(c) \/ HandleSerMsg(c) \/ ServerStep(c)

\* The actix runtime keeps polling an actor whose mailbox is not empty; users owe
\* nothing.
Fairness ==
    /\ WF_vars(\E c \in Conns : ServerStep(c))
    /\ \A c \in Conns : WF_vars(HandleSerMsg(c))

Spec == Init /\ [][Next]_vars

FairSpec == Spec /\ Fairness

-----------------------------------------------------------------------------
(* Properties *)

\* Every variable stays in its type; a Conn relays only what it was sent.
TypeOK ==
    /\ conn \in [Conns -> {"new", "running", "stopped"}]
    /\ mbox \in Seq(ServerMsg)
    /\ clients \subseteq Conns
    /\ sent \in [Conns -> Seq(Message(WireActions, Conns, Texts))]
    /\ pos \in [Conns -> Nat]
    /\ \A c \in Conns : pos[c] <= Len(sent[c])
    /\ wire \in [Conns -> Seq(Message(WireActions, Conns, Texts))]
    /\ said \in [Conns -> 0..MaxChats]
    /\ bad \in [Conns -> 0..MaxBad]

\* The Server's mailbox holds something, or a message of this type, from c.
Pending(c) == \E i \in DOMAIN mbox : mbox[i].uuid = c

Mailed(type, c) == \E i \in DOMAIN mbox : mbox[i].type = type /\ mbox[i].uuid = c

\* What waits in the Server's mailbox from one connection is in the order of a session:
\* nothing before its Connect, nothing after its Disconnect.
MailOrder ==
    \A i, j \in DOMAIN mbox :
        i < j /\ mbox[i].uuid = mbox[j].uuid =>
            mbox[j].type # "Connect" /\ mbox[i].type # "Disconnect"

\* What waits there fits the state of the Conn that sent it and of the registry: a
\* Connect has not been handled before, and by the time a chat or a Disconnect is
\* handled its user is registered.
MailSender ==
    \A i \in DOMAIN mbox :
        LET c == mbox[i].uuid IN
        /\ conn[c] # "new"
        /\ mbox[i].type = "Disconnect" => conn[c] = "stopped"
        /\ mbox[i].type = "Connect" => c \notin clients
        /\ mbox[i].type # "Connect" =>
              \/ c \in clients
              \/ \E j \in DOMAIN mbox : j < i /\ mbox[j].type = "Connect" /\ mbox[j].uuid = c

\* The Server's mailbox holds, of every connection, a piece of one session: Connect,
\* chats, Disconnect, however the Conns' sends interleave.
MailboxSessions == MailOrder /\ MailSender

\* The room this server implements: a user is in it while the registry holds them.
Room == INSTANCE ChatRoom WITH
            Users <- Conns, ActionStr <- as_str, members <- clients, inbox <- sent,
            up <- {c \in Conns : conn[c] # "stopped"},
            left <- {c \in Conns : conn[c] = "stopped" /\ c \notin clients /\ ~Pending(c)}

\* The Server actor's handlers, whatever the order in which the Conns' messages
\* reach its mailbox, move like the atomic room of the README.
RoomSpec == Room!Spec

\* What the README promises of the room holds of what the Server sends: two registered
\* users have been sent the same messages in the same order since the later one
\* connected, the first of them to each their own "connect", and one of the two was
\* told that the other connected.
RoomPromises == Room!Agreement /\ Room!OwnConnectFirst /\ Room!Visibility

\* What a user is sent about another is that other's session, in order: no message
\* twice, no chat after the "disconnect", the chats in the order they were sent.
SessionOrder ==
    \A c, d \in Conns :
        /\ NoRepeats(sent[c])
        /\ \A k \in Texts :
            /\ NotAfter(sent[c], SysMsg(as_str.Connect, d), ChatMsg(d, k))
            /\ NotAfter(sent[c], ChatMsg(d, k), SysMsg(as_str.Disconnect, d))
            /\ k > 1 => NotAfter(sent[c], ChatMsg(d, k - 1), ChatMsg(d, k))

\* Nobody who is gone stays registered unnoticed: a stopped connection that is, or
\* is still to be, in the registry has its Disconnect on the way to the Server, also
\* when the connection died while its Connect was queued.
NoGhosts ==
    \A c \in Conns :
        conn[c] = "stopped" /\ (c \in clients \/ Mailed("Connect", c)) => Mailed("Disconnect", c)

\* A chat comes back to the user who sent it, unless they leave first.
EchoArrives ==
    \A c \in Conns, k \in Texts :
        (said[c] >= k) ~> (Heard(wire[c], ChatMsg(c, k)) \/ conn[c] = "stopped")

\* A user who left is removed from the registry for good, even when they left
\* before the Server had handled their Connect.
DeparturesComplete ==
    \A c \in Conns : (conn[c] = "stopped") ~> [](c \notin clients)
=============================================================================
