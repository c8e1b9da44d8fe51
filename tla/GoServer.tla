------------------------------ MODULE GoServer ------------------------------
(***************************************************************************)
(* The goroutines of wschat-go.  Every websocket has a handler, and once   *)
(* registered a writer draining a bounded Channel; every chat and every    *)
(* disconnect is broadcast by a goroutine of its own, a connect by the     *)
(* handler itself.  A broadcast walks the sync.Map `clients` and sends on  *)
(* each Channel under that Channel's read lock; Close takes the write lock *)
(* before it closes the Go channel.                                        *)
(*                                                                         *)
(* External: the sync.Map of Go 1.19, whose Range takes the keys there are *)
(* when it starts and skips those deleted since; a waiting RWMutex.Lock    *)
(* holds back new readers; a websocket write blocks while the socket       *)
(* buffer is full, and fails at once on a socket that is closed.           *)
(*                                                                         *)
(* Steps that no other goroutine can tell apart are one action: RLock with *)
(* the test of `closed` it guards, the Swap of Close with the arrival of   *)
(* its Lock, the close of the Go channel with the Delete after it, and a   *)
(* writer's receive with its write (so Cap counts the message in hand).    *)
(***************************************************************************)
EXTENDS ChatMessage, Integers

CONSTANTS Conns,     \* the websocket connections, named by the UUID of each
          Readers,   \* those whose peer reads what it is sent
          Fallible,  \* those whose peer may vanish without a close
          Talkers,   \* those whose user sends chats
          Leavers,   \* those whose user closes, or sends something malformed
          MaxChats,  \* bound on the chats one user sends
          Cap,       \* what a Channel and its writer hold (50 and 1 in the code)
          SockCap,   \* frames a socket holds before a write blocks
          Blanks     \* whether a chat may come without contents: a subset of BOOLEAN

ASSUME GoAssumption ==
    /\ Readers \subseteq Conns /\ Fallible \subseteq Conns
    /\ Talkers \subseteq Conns /\ Leavers \subseteq Conns
    /\ MaxChats \in Nat /\ Cap \in Nat /\ SockCap \in Nat
    /\ Blanks \subseteq BOOLEAN

Ordinals == 1..MaxChats

Connected(c)    == NewSystemMessage("connect", c)
Disconnected(c) == NewSystemMessage("disconnect", c)
ErrorTo(c)      == NewSystemMessage("error", c)
Chat(c, n)      == NewChatMessage("chat", c, n)

\* A broadcast in progress is named by what it announces: a chat by its ordinal.
Jobs == [action : {"connect", "disconnect"}, user : Conns, n : {0}]
            \cup [action : {"chat"}, user : Conns, n : Ordinals]

VARIABLES hpc,      \* where the handler of each connection stands
          wpc,      \* and its writer: none, run or done
          jpc,      \* where each broadcast stands
          todo,     \* keys its Range has still to visit
          at,       \* the key it is visiting, as a set
          clients,  \* the keys of the sync.Map
          buf,      \* Channel.c, what is buffered
          closed,   \* Channel.closed
          shut,     \* close(Channel.c) was done
          text,     \* msg.Contents of the chats received so far; 0 stands for the UUID
          wire,     \* wire[c]: the frames written to the socket
          read,     \* how many of them the peer has read
          gone      \* the peer has vanished: writes fail, reads end

hvars == <<hpc, text>>
jvars == <<jpc, todo, at>>
cvars == <<buf, closed, shut>>
svars == <<wire, read, gone>>
vars  == <<hvars, wpc, jvars, clients, cvars, svars>>

Init ==
    /\ hpc = [c \in Conns |-> "start"]
    /\ wpc = [c \in Conns |-> "none"]
    /\ jpc = [j \in Jobs |-> "idle"]
    /\ todo = [j \in Jobs |-> {}]
    /\ at = [j \in Jobs |-> {}]
    /\ clients = {}
    /\ buf = [c \in Conns |-> <<>>]
    /\ closed = [c \in Conns |-> FALSE]
    /\ shut = [c \in Conns |-> FALSE]
    /\ text = [c \in Conns |-> <<>>]
    /\ wire = [c \in Conns |-> <<>>]
    /\ read = [c \in Conns |-> 0]
    /\ gone = [c \in Conns |-> FALSE]

-----------------------------------------------------------------------------
(* The socket *)

Dead(c) == gone[c] \/ hpc[c] = "done"

\* Seeded fault: a write to a dead socket waits for room as well.
CanWriteAlive(c) == Len(wire[c]) - read[c] < SockCap

CanWrite(c) == Dead(c) \/ Len(wire[c]) - read[c] < SockCap

\* ws.Write: blocks on a full socket, does nothing on a dead one.
Write(c, m) ==
    /\ CanWrite(c)
    /\ wire' = IF Dead(c) THEN wire ELSE [wire EXCEPT ![c] = Append(@, m)]
    /\ UNCHANGED <<read, gone>>

PeerReads(c) ==
    /\ c \in Readers /\ ~gone[c]
    /\ read[c] < Len(wire[c])
    /\ read' = [read EXCEPT ![c] = @ + 1]
    /\ UNCHANGED <<hvars, wpc, jvars, clients, cvars, wire, gone>>

PeerVanishes(c) ==
    /\ c \in Fallible /\ ~gone[c] /\ hpc[c] \notin {"start", "done"}
    /\ gone' = [gone EXCEPT ![c] = TRUE]
    /\ UNCHANGED <<hvars, wpc, jvars, clients, cvars, wire, read>>

-----------------------------------------------------------------------------
(* handler *)

Goto(c, from, to) == hpc[c] = from /\ hpc' = [hpc EXCEPT ![c] = to]

\* go broadcastMsg(...): a goroutine that is about to broadcast j.
Spawn(j) == jpc' = [jpc EXCEPT ![j] = "ready"] /\ UNCHANGED <<todo, at>>

\* Seeded fault: a user is not sent their own messages.
EnterRangeOthers(j) ==
    /\ jpc' = [jpc EXCEPT ![j] = "range"]
    /\ todo' = [todo EXCEPT ![j] = clients \ {j.user}]
    /\ UNCHANGED at

\* clients.Range is entered.
EnterRange(j) ==
    /\ jpc' = [jpc EXCEPT ![j] = "range"]
    /\ todo' = [todo EXCEPT ![j] = clients]
    /\ UNCHANGED at

Accept(c) ==
    /\ Goto(c, "start", "connect")
    /\ EnterRange(Connected(c))
    /\ UNCHANGED <<text, wpc, clients, cvars, svars>>

\* Seeded faults: the newcomer is not sent their own copy; the broadcast of the connect
\* is a goroutine like the others.
WriteConnectOmitted(c) ==
    /\ jpc[Connected(c)] = "done"
    /\ Goto(c, "connect", "store")
    /\ UNCHANGED <<text, wpc, jvars, clients, cvars, svars>>

WriteConnectAsync(c) ==
    /\ Goto(c, "connect", "store")
    /\ Write(c, Connected(c))
    /\ UNCHANGED <<text, wpc, jvars, clients, cvars>>

\* The broadcast of the connect is synchronous: the newcomer's own copy comes after.
WriteConnect(c) ==
    /\ jpc[Connected(c)] = "done"
    /\ Goto(c, "connect", "store")
    /\ Write(c, Connected(c))
    /\ UNCHANGED <<text, wpc, jvars, clients, cvars>>

\* clients.Store, then the writer is started.
Store(c) ==
    /\ Goto(c, "store", "loop")
    /\ clients' = clients \cup {c}
    /\ wpc' = [wpc EXCEPT ![c] = "run"]
    /\ UNCHANGED <<text, jvars, cvars, svars>>

\* A chat is received into the same msg as the one before (and as the connect): a
\* message without contents leaves msg.Contents as it was.
Contents(c, blank) ==
    LET k == Len(text[c]) + 1 IN
    IF ~blank THEN k ELSE IF k = 1 THEN 0 ELSE text[c][k - 1]

ReceiveChat(c) ==
    /\ c \in Talkers /\ ~gone[c]
    /\ Len(text[c]) < MaxChats
    /\ Goto(c, "loop", "loop")
    /\ \E blank \in Blanks : text' = [text EXCEPT ![c] = Append(@, Contents(c, blank))]
    /\ Spawn(Chat(c, Len(text[c]) + 1))
    /\ UNCHANGED <<wpc, clients, cvars, svars>>

\* A JSON value of the wrong type: an error frame, then the handler returns.
ReceiveBadType(c) ==
    /\ c \in Leavers /\ ~gone[c]
    /\ Goto(c, "loop", "error")
    /\ UNCHANGED <<text, wpc, jvars, clients, cvars, svars>>

SendError(c) ==
    /\ Goto(c, "error", "defer")
    /\ Write(c, ErrorTo(c))
    /\ UNCHANGED <<text, wpc, jvars, clients, cvars>>

\* EOF, a network error or any other malformed message: the handler returns.
ReceiveEnd(c) ==
    /\ c \in Leavers \/ gone[c]
    /\ Goto(c, "loop", "defer")
    /\ UNCHANGED <<text, wpc, jvars, clients, cvars, svars>>

\* The deferred function: go broadcastMsg(disconnect); channel.Close(); clients.Delete.
Defer(c) ==
    /\ Goto(c, "defer", "swap")
    /\ Spawn(Disconnected(c))
    /\ UNCHANGED <<text, wpc, clients, cvars, svars>>

\* channel.Close: from here on a Send finds `closed` set, or waits behind the Lock.
CloseSwap(c) ==
    /\ Goto(c, "swap", "close")
    /\ closed' = [closed EXCEPT ![c] = TRUE]
    /\ UNCHANGED <<text, wpc, jvars, clients, buf, shut, svars>>

\* The broadcasts inside Channel.Send of c, which hold its read lock.
RLocked(c) == {j \in Jobs : jpc[j] = "send" /\ c \in at[j]}

\* Seeded fault: Close takes no lock.
LockGrantedAlways(c) == TRUE

\* The Lock is granted once the readers have left.
LockGranted(c) == RLocked(c) = {}

\* close(channel.c), then clients.Delete.
CloseDelete(c) ==
    /\ LockGranted(c)
    /\ Goto(c, "close", "wsclose")
    /\ shut' = [shut EXCEPT ![c] = TRUE]
    /\ clients' = clients \ {c}
    /\ UNCHANGED <<text, wpc, jvars, buf, closed, svars>>

\* The first deferred call runs last; ws.Close writes a close frame.
WsClose(c) ==
    /\ CanWrite(c)
    /\ Goto(c, "wsclose", "done")
    /\ UNCHANGED <<text, wpc, jvars, clients, cvars, svars>>

-----------------------------------------------------------------------------
(* The writer: for msg := range channel.c { ws.Write(msg) } *)

WriterWrite(c) ==
    /\ wpc[c] = "run" /\ buf[c] # <<>>
    /\ Write(c, Head(buf[c]))
    /\ buf' = [buf EXCEPT ![c] = Tail(@)]
    /\ UNCHANGED <<hvars, wpc, jvars, clients, closed, shut>>

WriterEnd(c) ==
    /\ wpc[c] = "run" /\ buf[c] = <<>> /\ shut[c]
    /\ wpc' = [wpc EXCEPT ![c] = "done"]
    /\ UNCHANGED <<hvars, jvars, clients, cvars, svars>>

-----------------------------------------------------------------------------
(* broadcastMsgBytes: clients.Range(Send) *)

JGoto(j, from, to) == jpc[j] = from /\ jpc' = [jpc EXCEPT ![j] = to]

BeginRange(j) ==
    /\ jpc[j] = "ready"
    /\ EnterRange(j)
    /\ UNCHANGED <<hvars, wpc, clients, cvars, svars>>

\* The next key of the Range, whose Channel.Send is called.
Visit(j, d) ==
    /\ d \in todo[j] \cap clients
    /\ JGoto(j, "range", "rlock")
    /\ todo' = [todo EXCEPT ![j] = @ \ {d}]
    /\ at' = [at EXCEPT ![j] = {d}]
    /\ UNCHANGED <<hvars, wpc, clients, cvars, svars>>

\* Channel.Send: RLock, which waits behind a Lock that waits, and the test of closed.
SendRLock(j, d) ==
    /\ d \in at[j] /\ hpc[d] # "close" /\ ~closed[d]
    /\ JGoto(j, "rlock", "send")
    /\ UNCHANGED <<hvars, wpc, todo, at, clients, cvars, svars>>

SendSkip(j, d) ==
    /\ d \in at[j] /\ hpc[d] # "close" /\ closed[d]
    /\ JGoto(j, "rlock", "range")
    /\ at' = [at EXCEPT ![j] = {}]
    /\ UNCHANGED <<hvars, wpc, todo, clients, cvars, svars>>

\* What goes on the wire for a broadcast.
Payload(j) == IF j.action = "chat" THEN Chat(j.user, text[j.user][j.n]) ELSE j

\* Seeded fault: the Channel has no bound.
SendChanUnbounded(j, d) ==
    /\ d \in at[j]
    /\ JGoto(j, "send", "range")
    /\ buf' = [buf EXCEPT ![d] = Append(@, Payload(j))]
    /\ at' = [at EXCEPT ![j] = {}]
    /\ UNCHANGED <<hvars, wpc, todo, clients, closed, shut, svars>>

\* c.c <- val, once there is room, and RUnlock.
SendChan(j, d) ==
    /\ d \in at[j] /\ Len(buf[d]) < Cap
    /\ JGoto(j, "send", "range")
    /\ buf' = [buf EXCEPT ![d] = Append(@, Payload(j))]
    /\ at' = [at EXCEPT ![j] = {}]
    /\ UNCHANGED <<hvars, wpc, todo, clients, closed, shut, svars>>

EndRange(j) ==
    /\ todo[j] \cap clients = {}
    /\ JGoto(j, "range", "done")
    /\ todo' = [todo EXCEPT ![j] = {}]
    /\ UNCHANGED <<hvars, wpc, at, clients, cvars, svars>>

-----------------------------------------------------------------------------
HandlerStep(c) ==
    \/ WriteConnect(c) \/ Store(c) \/ SendError(c) \/ Defer(c) \/ CloseSwap(c)
    \/ CloseDelete(c) \/ WsClose(c)

UserStep(c) ==
    \/ Accept(c) \/ ReceiveChat(c) \/ ReceiveBadType(c) \/ ReceiveEnd(c) \/ PeerVanishes(c)

WriterStep(c) == WriterWrite(c) \/ WriterEnd(c)

JobStep(j) ==
    \/ BeginRange(j) \/ EndRange(j)
    \/ \E d \in Conns : Visit(j, d) \/ SendRLock(j, d) \/ SendSkip(j, d) \/ SendChan(j, d)

Next ==
    \/ \E c \in Conns : HandlerStep(c) \/ UserStep(c) \/ WriterStep(c) \/ PeerReads(c)
    \/ \E j \in Jobs : JobStep(j)

Spec == Init /\ [][Next]_vars

\* What happens without a user deciding so: the goroutines run, a peer in Readers
\* reads, a handler whose peer vanished sees its read fail.
Unprompted ==
    \/ \E c \in Conns : HandlerStep(c) \/ WriterStep(c) \/ PeerReads(c) \/ (gone[c] /\ ReceiveEnd(c))
    \/ \E j \in Jobs : JobStep(j)

\* The Go scheduler does not idle while a goroutine can run.  Users owe nothing.
Fairness == WF_vars(Unprompted)

FairSpec == Spec /\ Fairness

-----------------------------------------------------------------------------
(* Properties *)

Frame == Message({"connect", "chat", "disconnect", "error"}, Conns, Ordinals)

\* Every variable stays in its type, and no Channel outgrows its capacity.
TypeOK ==
    /\ hpc \in [Conns -> {"start", "connect", "store", "loop", "error", "defer", "swap",
                          "close", "wsclose", "done"}]
    /\ wpc \in [Conns -> {"none", "run", "done"}]
    /\ jpc \in [Jobs -> {"idle", "ready", "range", "rlock", "send", "done"}]
    /\ todo \in [Jobs -> SUBSET Conns]
    /\ at \in [Jobs -> SUBSET Conns]
    /\ clients \subseteq Conns
    /\ buf \in [Conns -> Seq(Frame)] /\ \A c \in Conns : Len(buf[c]) <= Cap
    /\ closed \in [Conns -> BOOLEAN] /\ shut \in [Conns -> BOOLEAN]
    /\ text \in [Conns -> Seq({0} \cup Ordinals)]
    /\ wire \in [Conns -> Seq(Frame)]
    /\ read \in [Conns -> Nat] /\ gone \in [Conns -> BOOLEAN]

\* No broadcast is about to send, or blocked sending, on a Go channel that has been
\* closed: that panics, and in a goroutine of its own takes the whole server down.
NoSendOnClosed == \A j \in Jobs : jpc[j] = "send" => \A d \in at[j] : ~shut[d]

\* The first frame a user gets is their own "connect", whoever is broadcasting while
\* they register.
OwnConnectFirst == \A c \in Conns : wire[c] # <<>> => wire[c][1] = Connected(c)

\* Two chats of a user were received that go out as the same message m, because one of
\* them came without contents.
Resent(m) ==
    /\ m.action = "chat"
    /\ \E k, l \in DOMAIN text[m.user] :
          k # l /\ text[m.user][k] = m.n /\ text[m.user][l] = m.n

\* A user hears of another's chats and departure only after that other's "connect",
\* if they hear it at all, and of nothing twice that was not said twice.
SessionOpens ==
    \A d, c \in Conns :
        /\ \A i, j \in DOMAIN wire[d] : wire[d][i] = wire[d][j] => i = j \/ Resent(wire[d][i])
        /\ \A m \in {Disconnected(c)} \cup {Chat(c, k) : k \in {0} \cup Ordinals} :
              NotAfter(wire[d], Connected(c), m)

\* A chat comes back to the user who sent it, unless they leave first.
EchoArrives ==
    \A c \in Talkers, k \in Ordinals :
        (Len(text[c]) >= k) ~> (Heard(wire[c], Chat(c, k)) \/ hpc[c] # "loop")

\* Every broadcast ends, every handler that started to register or to leave gets to
\* the end of it, and the writer of a handler that returned ends too: nothing waits
\* for ever on a Channel, a lock or a socket, and no goroutine leaks.
Quiesces ==
    <>[](/\ \A j \in Jobs : jpc[j] \in {"idle", "done"}
         /\ \A c \in Conns : /\ hpc[c] \in {"start", "loop", "done"}
                             /\ hpc[c] = "done" => wpc[c] = "done"
                             /\ c \in clients <=> hpc[c] = "loop")

-----------------------------------------------------------------------------
(* What the README says and the code does not do *)

\* README: the first message sent to a connecting client is a "connect" message.
NewcomerWelcomed ==
    \A c \in Conns : (hpc[c] = "connect") ~> (wire[c] # <<>> \/ gone[c])
=============================================================================
