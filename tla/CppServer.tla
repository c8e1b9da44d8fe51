----------------------------- MODULE CppServer ------------------------------
(***************************************************************************)
(* The Boost.Beast server of wschat-cpp: worker threads run the completion *)
(* handlers of WsConn objects, each connection's on its own strand, and    *)
(* share the Server, whose set of raw WsConn pointers is guarded by a      *)
(* shared_mutex.  A WsConn lives as long as some handler, queued or        *)
(* running, holds a shared_ptr to it; its destructor, run by whichever     *)
(* thread lets go of the last one, announces the disconnect and erases the *)
(* pointer.                                                                *)
(*                                                                         *)
(* A thread is a stack of frames.  A frame "connect", "chat" or "dtor"     *)
(* broadcasts its message m, taking the shared lock, then walking the      *)
(* pointers in todo; a frame "drop" is a shared_ptr about to be released.  *)
(* What a handler does between two locks or releases is one action.        *)
(* External: Asio's io_context and strands, Beast's asynchronous reads and *)
(* writes, shared_ptr, and a shared_mutex that lets readers in whenever no *)
(* writer holds it.                                                        *)
(***************************************************************************)
EXTENDS ChatMessage, Integers, FiniteSets

CONSTANTS Conns,     \* the connections, each with its UUID
          Threads,   \* the worker threads
          Talkers,   \* connections whose user sends messages
          Leavers,   \* connections whose peer goes away
          Actions,   \* what a user's message may carry as its action
          MaxChats,  \* bound on the messages one user sends
          MaxBad     \* bound on the malformed ones

ASSUME CppAssumption ==
    /\ Talkers \subseteq Conns /\ Leavers \subseteq Conns
    /\ Actions \subseteq {"connect", "chat", "disconnect", "error"}
    /\ MaxChats \in Nat /\ MaxBad \in Nat

VARIABLES stack,    \* stack[t]: the frames of thread t, innermost first
          conn,     \* life cycle of the WsConn
          clients,  \* Server::clients_
          reading,  \* an async_read is outstanding
          writing,  \* how many async_writes are
          posted,   \* messages posted to the strand for on_send
          queue,    \* WsConn::queue_
          wire,     \* frames that were written
          broken,   \* the peer is gone: reads fail, writes may
          said, bad \* messages received from the user

cvars == <<reading, writing, posted, queue, wire>>
uvars == <<broken, said, bad>>
vars  == <<stack, conn, clients, cvars, uvars>>

Ordinals == 1..MaxChats

Connected(c)    == NewSystemMessage("connect", c)
Disconnected(c) == NewSystemMessage("disconnect", c)
ErrorTo(c)      == NewSystemMessage("error", c)
Chat(c, k)      == NewChatMessage("chat", c, k)

Init ==
    /\ stack = [t \in Threads |-> <<>>]
    /\ conn = [c \in Conns |-> "none"]
    /\ clients = {}
    /\ reading = [c \in Conns |-> FALSE]
    /\ writing = [c \in Conns |-> 0]
    /\ posted = [c \in Conns |-> <<>>]
    /\ queue = [c \in Conns |-> <<>>]
    /\ wire = [c \in Conns |-> <<>>]
    /\ broken = [c \in Conns |-> FALSE]
    /\ said = [c \in Conns |-> 0]
    /\ bad = [c \in Conns |-> 0]

-----------------------------------------------------------------------------
(* Threads, references and the lock *)

Idle(t) == stack[t] = <<>>
Top(t)  == Head(stack[t])
Push(t, f)    == stack' = [stack EXCEPT ![t] = <<f>> \o @]
Replace(t, f) == stack' = [stack EXCEPT ![t] = <<f>> \o Tail(@)]
Pop(t)        == stack' = [stack EXCEPT ![t] = Tail(@)]

\* A frame about to broadcast m, in a handler or the destructor of c.
Broadcast(op, c, m) == [op |-> op, c |-> c, m |-> m, pc |-> "lock", todo |-> {}]

\* A frame that destroys a shared_ptr to c.
Drop(c) == [op |-> "drop", c |-> c, m |-> Disconnected(c), pc |-> "drop", todo |-> {}]

\* Where the frames are: a thread and a depth.
Frames == UNION {{t} \X DOMAIN stack[t] : t \in Threads}
At(f)  == stack[f[1]][f[2]]

\* A handler of c is running, so no other may.
OnStrand(c) == \E f \in Frames : At(f).c = c /\ At(f).op \in {"connect", "chat"}

SharedLocked == \E f \in Frames : At(f).pc = "loop"

\* Somebody other than the frame on top of thread t keeps c alive.
Referenced(c, t) ==
    \/ conn[c] = "handshake" \/ reading[c] \/ writing[c] > 0 \/ posted[c] # <<>>
    \/ \E f \in Frames \ {<<t, 1>>} : At(f).c = c /\ At(f).op # "dtor"

\* The shared_ptr goes; the last one takes the WsConn with it: ~WsConn calls disconnect.
Release(t) ==
    LET c == Top(t).c IN
    /\ ~Idle(t) /\ Top(t).op = "drop"
    /\ IF Referenced(c, t)
       THEN Pop(t) /\ UNCHANGED conn
       ELSE /\ Replace(t, Broadcast("dtor", c, Disconnected(c)))
            /\ conn' = [conn EXCEPT ![c] = "dying"]
    /\ UNCHANGED <<clients, cvars, uvars>>

\* send: posted to the strand of c.
Post(c, m) == posted' = [posted EXCEPT ![c] = Append(@, m)]

-----------------------------------------------------------------------------
(* broadcast_msg_text, and what its callers do after it *)

\* Seeded fault: a user is not sent their own messages.
LockSharedOthers(t) ==
    /\ ~Idle(t) /\ Top(t).pc = "lock"
    /\ Replace(t, [Top(t) EXCEPT !.pc = "loop", !.todo = clients \ {Top(t).c}])
    /\ UNCHANGED <<conn, clients, cvars, uvars>>

\* No exclusive section is ever in progress between two actions.
LockShared(t) ==
    /\ ~Idle(t) /\ Top(t).pc = "lock"
    /\ Replace(t, [Top(t) EXCEPT !.pc = "loop", !.todo = clients])
    /\ UNCHANGED <<conn, clients, cvars, uvars>>

\* One round of the loop: weak.lock() fails on a WsConn that is being destroyed.
Visit(t) ==
    /\ ~Idle(t) /\ Top(t).pc = "loop"
    /\ \E d \in Top(t).todo :
        LET rest == [Top(t) EXCEPT !.todo = @ \ {d}] IN
        IF conn[d] = "dying"
        THEN Replace(t, rest) /\ UNCHANGED posted
        ELSE /\ stack' = [stack EXCEPT ![t] = <<Drop(d), rest>> \o Tail(@)]
             /\ Post(d, Top(t).m)
    /\ UNCHANGED <<conn, clients, reading, writing, queue, wire, uvars>>

Unlock(t) ==
    /\ ~Idle(t) /\ Top(t).pc = "loop" /\ Top(t).todo = {}
    /\ Replace(t, [Top(t) EXCEPT !.pc = "finish"])
    /\ UNCHANGED <<conn, clients, cvars, uvars>>

\* Server::connect inserts; WsConn::accept then starts reading.
Insert(t) ==
    LET c == Top(t).c IN
    /\ ~Idle(t) /\ Top(t).op = "connect" /\ Top(t).pc = "finish"
    /\ ~SharedLocked
    /\ clients' = clients \cup {c}
    /\ reading' = [reading EXCEPT ![c] = TRUE]
    /\ Replace(t, Drop(c))
    /\ UNCHANGED <<conn, writing, posted, queue, wire, uvars>>

\* WsConn::handle reads on.
ReadOn(t) ==
    LET c == Top(t).c IN
    /\ ~Idle(t) /\ Top(t).op = "chat" /\ Top(t).pc = "finish"
    /\ reading' = [reading EXCEPT ![c] = TRUE]
    /\ Replace(t, Drop(c))
    /\ UNCHANGED <<conn, clients, writing, posted, queue, wire, uvars>>

\* Seeded fault: the pointer is erased without the lock.
EraseUnlocked(t) ==
    LET c == Top(t).c IN
    /\ ~Idle(t) /\ Top(t).op = "dtor" /\ Top(t).pc = "finish"
    /\ clients' = clients \ {c}
    /\ conn' = [conn EXCEPT ![c] = "freed"]
    /\ Pop(t)
    /\ UNCHANGED <<cvars, uvars>>

\* Server::disconnect erases; the destructor ends and the memory is free.
Erase(t) ==
    LET c == Top(t).c IN
    /\ ~Idle(t) /\ Top(t).op = "dtor" /\ Top(t).pc = "finish"
    /\ ~SharedLocked
    /\ clients' = clients \ {c}
    /\ conn' = [conn EXCEPT ![c] = "freed"]
    /\ Pop(t)
    /\ UNCHANGED <<cvars, uvars>>

-----------------------------------------------------------------------------
(* The handlers of a WsConn, each started by an idle thread *)

\* HttpSession::handle: make_shared<WsConn>(...)->run(...).
Upgrade(t, c) ==
    /\ Idle(t) /\ conn[c] = "none"
    /\ conn' = [conn EXCEPT ![c] = "handshake"]
    /\ UNCHANGED <<stack, clients, cvars, uvars>>

\* Seeded faults: the newcomer is not sent their own "connect"; they are registered
\* before the broadcast, which then reaches them too.
AcceptNoOwn(t, c) ==
    /\ Idle(t) /\ conn[c] = "handshake"
    /\ conn' = [conn EXCEPT ![c] = "open"]
    /\ Push(t, Broadcast("connect", c, Connected(c)))
    /\ UNCHANGED <<clients, cvars, uvars>>

AcceptInsertFirst(t, c) ==
    /\ Idle(t) /\ conn[c] = "handshake" /\ ~SharedLocked
    /\ conn' = [conn EXCEPT ![c] = "open"]
    /\ clients' = clients \cup {c}
    /\ Post(c, Connected(c))
    /\ Push(t, Broadcast("connect", c, Connected(c)))
    /\ UNCHANGED <<reading, writing, queue, wire, uvars>>

\* WsConn::accept: the newcomer's own "connect" is posted before the broadcast.
Accept(t, c) ==
    /\ Idle(t) /\ conn[c] = "handshake"
    /\ conn' = [conn EXCEPT ![c] = "open"]
    /\ Post(c, Connected(c))
    /\ Push(t, Broadcast("connect", c, Connected(c)))
    /\ UNCHANGED <<clients, reading, writing, queue, wire, uvars>>

AcceptFails(t, c) ==
    /\ Idle(t) /\ conn[c] = "handshake" /\ c \in Leavers
    /\ conn' = [conn EXCEPT ![c] = "open"]
    /\ Push(t, Drop(c))
    /\ UNCHANGED <<clients, cvars, uvars>>

\* WsConn::handle runs on the strand, with the outstanding read.
ReadCompletes(t, c) == Idle(t) /\ reading[c] /\ ~OnStrand(c)

\* A message that parses is broadcast as it is.
Handle(t, c) ==
    /\ ReadCompletes(t, c) /\ ~broken[c]
    /\ c \in Talkers /\ said[c] < MaxChats
    /\ said' = [said EXCEPT ![c] = @ + 1]
    /\ reading' = [reading EXCEPT ![c] = FALSE]
    /\ \E a \in Actions : Push(t, Broadcast("chat", c, NewChatMessage(a, c, said[c] + 1)))
    /\ UNCHANGED <<conn, clients, writing, posted, queue, wire, broken, bad>>

\* One that does not is answered, and the connection reads on.
HandleBad(t, c) ==
    /\ ReadCompletes(t, c) /\ ~broken[c]
    /\ c \in Talkers /\ bad[c] < MaxBad
    /\ bad' = [bad EXCEPT ![c] = @ + 1]
    /\ Post(c, ErrorTo(c))
    /\ UNCHANGED <<stack, conn, clients, reading, writing, queue, wire, broken, said>>

\* Seeded faults: after an error the connection reads on; a failed read takes the
\* write for finished.
HandleFailsReadOn(t, c) ==
    /\ ReadCompletes(t, c) /\ broken[c]
    /\ Push(t, Drop(c))
    /\ UNCHANGED <<conn, clients, cvars, uvars>>

HandleFailsWrite(t, c) ==
    /\ ReadCompletes(t, c) /\ broken[c]
    /\ reading' = [reading EXCEPT ![c] = FALSE]
    /\ writing' = [writing EXCEPT ![c] = @ - 1]
    /\ Push(t, Drop(c))
    /\ UNCHANGED <<conn, clients, posted, queue, wire, uvars>>

\* A failed read: the handler returns and its shared_ptr goes.
HandleFails(t, c) ==
    /\ ReadCompletes(t, c) /\ broken[c]
    /\ reading' = [reading EXCEPT ![c] = FALSE]
    /\ Push(t, Drop(c))
    /\ UNCHANGED <<conn, clients, writing, posted, queue, wire, uvars>>

\* Seeded fault: an off-by-one in the test of on_send.
MustStartWriteLate(q) == Len(q) <= 2

\* The test of on_send: is a write already under way?
MustStartWrite(q) == Len(q) <= 1

OnSend(t, c) ==
    /\ Idle(t) /\ posted[c] # <<>> /\ ~OnStrand(c)
    /\ posted' = [posted EXCEPT ![c] = Tail(@)]
    /\ queue' = [queue EXCEPT ![c] = Append(@, Head(posted[c]))]
    /\ writing' = [writing EXCEPT ![c] = IF MustStartWrite(queue'[c]) THEN @ + 1 ELSE @]
    /\ Push(t, Drop(c))
    /\ UNCHANGED <<conn, clients, reading, wire, uvars>>

\* on_write pops what was written and starts on the next.
OnWrite(t, c) ==
    /\ Idle(t) /\ writing[c] > 0 /\ ~OnStrand(c)
    /\ wire' = [wire EXCEPT ![c] = Append(@, Head(queue[c]))]
    /\ queue' = [queue EXCEPT ![c] = Tail(@)]
    /\ writing' = [writing EXCEPT ![c] = IF queue'[c] # <<>> THEN @ ELSE @ - 1]
    /\ Push(t, Drop(c))
    /\ UNCHANGED <<conn, clients, reading, posted, uvars>>

\* A failed write returns at once: nothing is popped, so nothing is written again.
OnWriteFails(t, c) ==
    /\ Idle(t) /\ writing[c] > 0 /\ ~OnStrand(c) /\ broken[c]
    /\ writing' = [writing EXCEPT ![c] = @ - 1]
    /\ Push(t, Drop(c))
    /\ UNCHANGED <<conn, clients, reading, posted, queue, wire, uvars>>

\* The peer closes, or its network goes.
PeerGone(c) ==
    /\ c \in Leavers /\ conn[c] = "open" /\ ~broken[c]
    /\ broken' = [broken EXCEPT ![c] = TRUE]
    /\ UNCHANGED <<stack, conn, clients, cvars, said, bad>>

-----------------------------------------------------------------------------
Inside(t) ==
    \/ LockShared(t) \/ Visit(t) \/ Unlock(t) \/ Insert(t) \/ ReadOn(t) \/ Erase(t)
    \/ Release(t)

Completion(t) ==
    \E c \in Conns : Accept(t, c) \/ HandleFails(t, c) \/ OnSend(t, c) \/ OnWrite(t, c)
                     \/ OnWriteFails(t, c)

UserStep(t) ==
    \E c \in Conns : Upgrade(t, c) \/ AcceptFails(t, c) \/ Handle(t, c) \/ HandleBad(t, c)

Next ==
    \/ \E t \in Threads : Inside(t) \/ Completion(t) \/ UserStep(t)
    \/ \E c \in Conns : PeerGone(c)

Spec == Init /\ [][Next]_vars

\* io_context::run keeps its threads on the handlers that are ready.  Users owe
\* nothing.
FairSpec == Spec /\ WF_vars(\E t \in Threads : Inside(t) \/ Completion(t))

-----------------------------------------------------------------------------
(* Properties *)

Frame == Message({"connect", "chat", "disconnect", "error"}, Conns, Ordinals)

\* Every variable stays in its type.
TypeOK ==
    /\ stack \in [Threads -> Seq([op : {"connect", "chat", "dtor", "drop"}, c : Conns,
                                  m : Frame, pc : {"lock", "loop", "finish", "drop"},
                                  todo : SUBSET Conns])]
    /\ conn \in [Conns -> {"none", "handshake", "open", "dying", "freed"}]
    /\ clients \subseteq Conns
    /\ reading \in [Conns -> BOOLEAN] /\ writing \in [Conns -> Nat]
    /\ posted \in [Conns -> Seq(Frame)] /\ queue \in [Conns -> Seq(Frame)]
    /\ wire \in [Conns -> Seq(Frame)]
    /\ broken \in [Conns -> BOOLEAN]
    /\ said \in [Conns -> 0..MaxChats] /\ bad \in [Conns -> 0..MaxBad]

\* No raw pointer outlives its WsConn: neither the registry nor a broadcast in the
\* middle of its loop holds one to memory that was freed.
NoDangling ==
    /\ \A c \in clients : conn[c] # "freed"
    /\ \A f \in Frames : \A c \in At(f).todo : conn[c] # "freed"

\* Everything accepted for a user: written, in the queue, or posted to the strand.
Stream(c) == wire[c] \o queue[c] \o posted[c]

\* The first message of a user is their own "connect", whichever threads broadcast
\* while they register.
OwnConnectFirst == \A c \in Conns : Stream(c) # <<>> => Stream(c)[1] = Connected(c)

\* What a user receives about another is that other's session in order, whatever the
\* threads do: connect, the chats as sent, disconnect, and nothing twice.
SessionOrder ==
    \A c, d \in Conns :
        /\ \A m \in {Connected(d), Disconnected(d)} \cup {Chat(d, k) : k \in Ordinals} :
              \A i, j \in DOMAIN Stream(c) : Stream(c)[i] = m /\ Stream(c)[j] = m => i = j
        /\ NotAfter(Stream(c), Connected(d), Disconnected(d))
        /\ \A k \in Ordinals :
            /\ NotAfter(Stream(c), Connected(d), Chat(d, k))
            /\ NotAfter(Stream(c), Chat(d, k), Disconnected(d))
            /\ k > 1 => NotAfter(Stream(c), Chat(d, k - 1), Chat(d, k))

\* Beast allows one async_write at a time on a stream: on_send and on_write between
\* them never start a second one.
OneWrite == \A c \in Conns : writing[c] <= 1

Quiet == \A t \in Threads : Idle(t)

\* Where s has a message that is not one of the server's own errors, and how many such
\* messages follow that place.
SharedAt(s) == {i \in DOMAIN s : s[i] # ErrorTo(s[i].user)}
Since(s, i) == Cardinality({j \in SharedAt(s) : j > i})

\* Those messages, counted from the last, are the same in s and r as far as both go.
Aligned(s, r) ==
    \A i \in SharedAt(s), j \in SharedAt(r) : Since(s, i) = Since(r, j) => s[i] = r[j]

\* Two registered users have been sent the same messages in the same order since the
\* later one joined, the server's own errors aside.
Agreement == Quiet => \A c, d \in clients : Aligned(Stream(c), Stream(d))

\* A connection whose peer is gone is destroyed and erased, and every broadcast ends.
Reclaimed ==
    \A c \in Conns : (broken[c] \/ conn[c] = "dying") ~> (conn[c] = "freed" /\ c \notin clients)

-----------------------------------------------------------------------------
(* What the README says and the code does not do *)

\* README: the first message sent to a connecting client is a "connect" message.
NewcomerWelcomed ==
    \A c \in Conns : (conn[c] = "open") ~> (wire[c] # <<>> \/ broken[c] \/ conn[c] = "dying")
=============================================================================
