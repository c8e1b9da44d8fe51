# Verification of wcaht

wcaht is one chat protocol (`src/README.md`) implemented by several WebSocket
servers, in Rust, Go, C++ and Python, with a load tester, a directory of servers and a
web client around them. This directory holds TLA+ models of the servers, of the load
tester and of the web client, the TLC configurations that check them on small
instances, and TLAPS proofs, for every size, of the safety properties that the runs check.

To repeat the checks: `tlc -config <cfg> <module>` for the runs listed below, and
`tlapm <module>` for the eight `*Proofs` modules.

## 1. The system

All servers do the same job: accept a websocket, give it a UUID, announce
the newcomer ("connect"), relay what users say ("chat", the sender included),
and announce who left ("disconnect"). They share no code. The hard part is the
same everywhere, the registry of connected users, which connects, broadcasts and
departures use at the same time, and every server protects it differently.

| Part | State | Operations | Concurrency | What makes it correct |
|---|---|---|---|---|
| Protocol (`src/README.md`) | who is in the room, what each was sent | join, say, leave | one atomic object | one order of messages for all; one's own connect first; no two users unaware of each other |
| Rust server (`wschat-rust`) | `Server.clients`, actor mailboxes, `Conn` life cycle | `started`, `handle` of text / close, `stopping`, `Handler<Connect>`, `<Message>`, `<Disconnect>`, `<SerMsg>` | actors, unbounded FIFO mailboxes | implements the room although the mailboxes interleave; a connection that dies while its Connect is queued is still removed |
| Go server (`wschat-go`) | `clients` (sync.Map), per client `Channel` (bounded, RWMutex, `closed`), sockets | `handler`, writer goroutine, `broadcastMsg`, `Channel.Send`, `Channel.Close` | a goroutine per connection, per writer, per broadcast | no send on a closed channel (a panic ends the process); nothing waits for ever on a channel, lock or socket |
| C++ server (`wschat-cpp`) | `Server::clients_` (raw pointers, shared_mutex), `WsConn::queue_`, strands, reference counts | `accept`, `handle`, `send`/`on_send`/`on_write`, `connect`, `disconnect`, `broadcast_msg_text`, `~WsConn` | worker threads running completion handlers | no pointer outlives its object, one write at a time, ordered streams, dead connections reclaimed |
| Python server (`wschat-py`) | `Clients._clients`, a live list | `handler`, `broadcast_msg_str` | coroutines, interleaved at every `await` | the list changes under running iterators; nobody served twice, the list is exact |
| Load tester (`client`) | `startedChan`, `startChan`, `doneChan`, `testChan`, `TestResults` | `runClient`, `runClientTest`, `runRecvTest`, `runTest`, `main` | main, a worker and a receiver per connection | ends if the handshakes do, and in test mode whatever the server does then; unlocked `TestResults` is handed over, never shared; the report is right |
| C++ server, the way in (`main.cpp`, `listener.cpp`, `http_session.cpp`) | the acceptor, an `HttpSession` per connection, the worker threads | `main`, `Listener::accept`, `HttpSession::handle`, `on_write`, the upgrade, the stop signal | completion handlers, one at a time per connection | every request answered once and in its place, the socket handed over whole, nobody who reads left waiting while the workers can work |
| Message codecs (`message.hpp` and the libraries of the others) | none | JSON of four languages | none | what is relayed is well formed, with the sender, action and contents that were sent |
| Server directory (`server/main.go`) | the list of servers, a modification time | reload, HTTP handlers | handlers under a mutex | a changed file is noticed |
| Web client (`server/static`) | the socket, `isOpen`, the UUID, the messages | `changeServer`, `connectToWs`, the handlers of a socket's events, `reset` | browser events, also of sockets the app has given up | the app never holds a dead socket or leaves an open one behind, and shows one room at a time |
| Runner, Node server, Elixir server | none | start processes; unfinished stubs | none | none modelled |

The servers do not talk to each other. The load tester and the web client talk to a
server over a websocket. The parts interact inside each process by: mailboxes
(Rust), channels and locks (Go, load tester), strands, locks and reference counts
(C++), and a list shared across awaits (Python).

The behaviours that are hard to test are listed with their lines under `hazards` in
`PROJECT.json`: registration racing broadcasts, a connection dying at each stage of
its registration, a full channel, a lock taken inside a destructor, iteration over a
list that changes, bounded channels that nobody drains, a result shared without a
lock, a socket passed from one object to another, events of a socket that was given up.

## 2. The modules

| Module | Models | Used by |
|---|---|---|
| `ChatMessage` | a message (action, user, number of the chat) and what is said of a stream of messages | all server modules |
| `ChatRoom` | the promise of `src/README.md`: an atomic room | `RustServer` (refinement), `ChatRoomProofs` |
| `RustServer` | `wschat-rust/src/main.rs`, `message.rs` | `MCRust`, `RustServerProofs` |
| `GoServer` | `wschat-go/main.go`, `common/message.go` | `MCGo`, `GoServerProofs` |
| `CppServer` | `wschat-cpp/include/server.cpp`, `websocket.cpp`, the upgrade in `http_session.cpp`, the threads of `main.cpp` | `MCCpp`, `CppServerProofs` |
| `PyServer` | `wschat-py/main.py`, `message.py` | `MCPy`, `PyServerProofs` |
| `LoadClient` | `client/main.go`: `main`, `runClient`, `runClientTest`, `runRecvTest`, `TestResults` | `MCLoad`, `LoadClientProofs` |
| `CppMessage` | `wschat-cpp/message.hpp`: `Message`, `Action` and their JSON, as operators | `CppFront` |
| `CppFront` | `wschat-cpp/main.cpp`, `listener.cpp`, `http_session.cpp`, and of `websocket.cpp` the handshake and what `handle` makes of a text | `MCFront`, `CppFrontProofs` |
| `WebClient` | `server/static/js/index.js` | `MCWeb`, `WebClientProofs` |
| `MC*` | nothing: instances for TLC | the runs |
| `ChatRoomProofs`, `RustServerProofs`, `GoServerProofs`, `CppServerProofs`, `CppFrontProofs`, `PyServerProofs`, `LoadClientProofs`, `WebClientProofs` | nothing: theorems about the module of the same name | tlapm |

`PROJECT.json` maps every definition that models code to its lines. Definitions
commented *Seeded fault* are wrong versions of the definition after them, one for
every property, which the property must catch when it takes that definition's place;
nothing in a specification refers to them.

### What a state and a step stand for

* **RustServer.** An action is one handler of one actor, which actix runs without
  interruption. `mbox` is the mailbox of the `Server` actor; the mailbox of a `Conn` is
  kept as everything ever sent to it (`sent`) and how much of that it has handled
  (`pos`), so that properties can speak of what was sent. `conn` is the life cycle of
  the `Conn`; a message sent to a stopped one is dropped. Ping, pong, nop and binary frames
  change no state and have no action. The wire names are those of `Action::as_str`,
  `"discconnect"` included.
* **GoServer.** A step is one operation another goroutine can observe: a lock, a
  channel operation, a socket write, a step of `Range`. `hpc`, `wpc` and `jpc` are the places
  of handlers, writers and broadcasts; a broadcast is named by what it announces.
  The deferred calls run in Go's order: the disconnect is spawned, `Close` swaps
  `closed`, waits for the lock, closes, the key is deleted, and `ws.Close` comes last.
  `text` keeps `msg.Contents` as `Receive` leaves it, a chat without contents included.
* **CppServer.** A thread is a stack of frames, because a `shared_ptr` that goes out of
  scope may run `~WsConn` in the middle of whatever the thread was doing, locks held.
  Reference counts are not numbers: `Referenced` says who still holds the object.
  What a handler does between two locks or releases is one action.
* **PyServer.** Every send is an await and so a step of its own; the list iterator is
  an index into the live list, as in CPython.
* **LoadClient.** The channels are sets of workers with their capacities. How the
  program was called (`flags`) is chosen in `Init` among `Modes`.
  The server under test may do anything the protocol or a failure allows. All frames are
  decoded into one message, where fields that a frame leaves out stay, so what a frame makes
  of it is open (`Decoded`): any frame may count as an echo. `ended` is a history of why the
  reading of a connection ended, for `CompleteReports` to compare with what is reported.
* **CppFront.** A completion handler is one action: it touches one connection or the
  acceptor, and a strand keeps the handlers of a connection apart. A handler of a `WsConn`
  that asks for the Server's mutex may never return: `Block` puts its connection into
  `stuck`, and a worker is lost to it (`Idle`); the steps to it are those of `CppServer`. With
  one worker `Block` is left out: no other thread can let go of a reference while a
  broadcast has one. `sock` says who has
  the socket of a peer: nobody yet, the backlog, an `HttpSession`, a `WsConn` in its
  handshake, a `WsConn`, or nobody any more. `reading` and `writing` are the outstanding
  operations, by which the object stays alive. `asked` and `texts` are what the peer has
  sent, `pos` and the length of `handled` how far the server has read. `Listener` ends with
  the acceptor in any of the states in which the constructor may stop. Who is sent
  what `WsConn::handle` relays is the part of `CppServer`, whose `Accept` takes over
  where `Shaken` is here.
* **CppMessage.** A text is the JSON value it denotes, with the type nlohmann gives it (a
  number is unsigned, signed or a fraction), or garbage. `Message` is a set: for a text
  without a timestamp there is a result for every value that the uninitialised member may
  have.
* **WebClient.** The browser runs one event at a time, so an event is one action. `app`
  is the Vue object, `ready` the state of every `WebSocket` that was ever made: all of
  them call the same handlers of the same `app`. A socket is also the name of
  the room behind it and of the UUID given out there. `joined` remembers which sockets opened
  while they were the app's own.

### What is taken from outside the repository

These are modelled from how the code uses them, and the proofs rest on them too:
actix mailboxes are FIFO and unbounded for `do_send`; the sync.Map of Go 1.19 has a `Range` over the
keys present when it starts, which skips those deleted since; a waiting
`RWMutex.Lock` holds back new readers; a write to a full socket blocks and one to a
closed socket fails; Asio runs at most one handler of a strand at a time; a
`shared_mutex` admits readers whenever no writer holds it; a starlette send on a
closed socket raises, and a handler's end closes its socket; in test mode every read and send
of the load tester after the handshake ends by its deadline; TCP queues connections as long as the port
listens; a stopped `io_context` runs no further handlers and lets go of them when it is
destroyed; Beast's `is_upgrade` and handshake; nlohmann's conversions of numbers,
modulo 2^64 or towards zero; a browser's `WebSocket` delivers no message once it is
closing, and reports a failure as an error followed by a close.

### What is abstracted

Timestamps are left out of the server modules, and the wording of errors everywhere;
`CppMessage` and `WebClient` have timestamps. A Go `Close` swaps `closed` and comes to `Lock` in
one step: in between it holds nothing, and a `Send` that sees `closed` set does nothing. A socket of
the page goes from open to closed at its close event: the page never asks for the `CLOSING` that
may come before, in which `close` does nothing, so `Held` speaks of what the page has been told. The text of a chat is its number. In `CppServer` a user's message carries the UUID of that user as sender, as
the web client sends it. Bounds: `MaxChats` and `MaxBad` (messages per user), `Cap` (50 in the
code, plus the message in the writer's hand), `SockCap`, `StartedCap` (5 in the code),
`TestCap` (100), `MsgsPerConn`; in `CppFront` `Width` (64 bits of a timestamp), `PortWidth`
(16), `MaxRequests` and `MaxTexts` per peer, of which only `Talkers` send any; in
`WebClient` `MaxGot`, the messages of all sockets together.

## 3. The runs

| Run | Checks | Shows |
|---|---|---|
| `rust_room` | `TypeOK`, `RoomSpec`, `RoomPromises`, `MailboxSessions`, `NoGhosts`, `SessionOrder`, `EchoArrives`, `DeparturesComplete` | the Rust server is the atomic room; its mailbox holds pieces of orderly sessions however the Conns interleave; chats come back and departures complete |
| `go_goroutines` | `TypeOK`, `NoSendOnClosed`, `OwnConnectFirst`, `SessionOpens`, `Quiesces`, `EchoArrives` | at every interleaving of locks, channels and a vanishing peer: no panic, one's own connect first, nothing stuck, no goroutine leaked |
| `go_stalled` | `NewcomerWelcomed` fails | one peer that does not read keeps newcomers from being answered |
| `cpp_two_workers` | `TypeOK`, `NoDangling`, `OwnConnectFirst`, `SessionOrder`, `OneWrite` | raw pointers are safe, streams ordered, one write at a time |
| `cpp_one_worker` | `Agreement`, `Reclaimed` | with the default single thread, streams agree and the dead are reclaimed |
| `cpp_self_deadlock` | `NewcomerWelcomed` fails | a destructor run inside the shared lock waits for the exclusive one on its own thread |
| `py_churn` | `TypeOK`, `OwnConnectFirst`, `SessionOrder`, `Delivered`, `NoGhosts`, `DeparturesComplete` | changing the list under iterators never serves anybody twice, and leaves nobody out until somebody is taken off it |
| `py_skipped` | `SeenByAll` fails | taking somebody off makes a running iterator skip the next client |
| `load_modes` | `TypeOK`, `Owned`, `StartTogether`, `CompleteReports`, `Terminates` | in every mode but one the tester ends if every handshake does and, without `-test`, the server reads; it hands `TestResults` over safely, and files what ended a connection where it belongs |
| `load_stuck` | `EndsInTime` fails | in the mode that is left it hangs once there are more workers than `startedChan` has places |
| `cpp_front` | `TypeOK`, `Answers`, `Relays`, `Settles` | requests sent ahead of their answers are each answered once, in their place, and never across the hand-over to the websocket; a text is relayed, but for its timestamp, as it was sent, or refused to its sender alone; as long as no handler is stuck a peer that reads is served or let go of |
| `web_client` | `Held`, `OneRoom`, `Sorted` | late events of old sockets cost the user the new connection, but never leave a dead socket in the app or an open one behind it; one room is shown at a time, in the order of timestamps |

**Why the bounds are enough.** The servers treat connections alike, and what can go wrong
takes two of them (one acting while the other is half registered or half gone), or,
for the Python list and for agreement in C++, three (one that broadcasts, one that leaves, one that is
skipped or differs). Channels and sockets of one place are full after one message, which is when the
blocking cases happen, and workers outnumber the places of `startedChan`. Two chats of one
user are needed to see them swapped (`rust_room`, `py_churn`); in Go two chats of a user
may be swapped, since each has a goroutine of its own, so one chat is enough there. Nearly
all safety properties are proved for every size besides (section 5). In `cpp_front` two
requests are what pipelining takes (one
answered while the next is there, or lost behind an upgrade), a second peer shows that
accepting goes on, two workers that one may be stuck while the other works, two bits hold a
timestamp that wraps and every value an uninitialised one may have, and the five texts are
one that is complete, one with as little as the code takes, two it refuses for a field, and
one that does not parse; the codec itself is proved for every text. In `py_churn` one client
only garbles and another garbles and may leave, since the order of the two decides whether
it stays on the list. In `load_modes` two workers share channels of one place, and two
messages each are what it takes to fall short by some and not by all. In `web_client` three
sockets are needed for one that is being closed, one that is being replaced and one that is
the app's; four messages are two connects, something to show and something that resets.
The sockets are interchangeable, so symmetry is used there; the run has no liveness.
`CHECK_DEADLOCK` is off because every system may come to rest when its users
stop; that nothing is left waiting at that point is what `Quiesces`, `Reclaimed`,
`DeparturesComplete`, `Terminates` and `Settles` say.

**Fairness.** Users and peers owe nothing: connecting, talking, leaving and crashing
are never fair, except that a peer in `Readers` reads. What is fair is what a
scheduler guarantees: an actor with mail is polled (Rust); the Go runtime does not
idle while some goroutine can run (weak fairness of the whole, weaker than of each
goroutine, and enough because each behaviour is finite); a thread of the `io_context`
takes a handler that is ready (`Ready` in `CppFront`: not one that waits for its peer to read, since
the timeouts of the streams are commented out, nor one that waits for the mutex; `Settles`
says of a peer what happens if it reads and no handler is stuck); the event loop resumes a ready coroutine; a read whose
peer is gone ends. In test mode the load tester sets deadlines for every read and send after the
handshake, so a receiver that keeps getting other people's messages still stops. A handshake
has no deadline in either mode, nor has anything a worker does without `-test`; so neither is
fair, and `Terminates` is said of servers that end every handshake (`ServerAnswers`) and,
without `-test`, take what they are sent (`ServerReads`). Both conditions are needed: without
either of them TLC finds a run that does not end.

## 4. Where the code and the documents part ways

Four runs exhibit a disagreement; `findings` in `PROJECT.json` quotes the lines.

* Go: a newcomer's connect is broadcast by its own handler before it is answered, and
  `Send` blocks on the full Channel of a peer that does not read (`go_stalled`).
* C++: `broadcast_msg_text` may let go of the last reference to a `WsConn` under the
  shared lock; the destructor then waits for the same lock (`cpp_self_deadlock`).
* Python: a removal behind a running iterator skips a client (`py_skipped`).
* Load tester: a worker whose address is refused signals `startedChan` although nobody
  receives without `-same-start` (`load_stuck`).

Others are plain to see in the code, are modelled as the code has them, and have no run
of their own:

* Rust: the answer to a malformed message is written by the Conn itself and can come
  before the user's own connect (`main.rs:116`); the connection goes on after it
  (`main.rs:120`; `websocket.cpp:41` does the same in C++), where `src/README.md:21` wants it closed; a
  departure goes out as `"discconnect"` (`message.rs:55`).
* Go: a newcomer is stored after its connect was broadcast; of two simultaneous
  newcomers neither is told of the other (`main.go:90`; `src/README.md:11`: "Everything that
  goes on in the server can be seen by all"). With several threads the C++ server has
  the same window between `broadcast_msg_text` and `insert`.
* Go: every message is decoded into the same variable, so a chat without contents
  repeats those before it, the first one its user's UUID (`main.go:114`).
* C++: a failed handshake announces a departure of somebody who never connected
  (`websocket.cpp:77`); a user's message keeps its action, "error" included
  (`websocket.cpp:34`).
* C++: a text without a sender is refused (`message.hpp:262`), where `src/README.md:29` lets
  clients leave it out; the timestamp is the client's, and an uninitialised value when there is
  none (`message.hpp:80`), where `src/README.md:25` has it populated by the server; it is kept as
  int64_t, where `src/README.md:26` has a uint64, so that the upper half of those wraps. `Relays` says
  nothing of the timestamp's value or of a missing sender.
* C++: what a client sends behind its upgrade request, before the answer, goes with
  `HttpSession::buffer_` as far as that had read it (`http_session.cpp:66`); what had not been
  read is taken for a websocket frame.
* C++: the timeouts are commented out (`http_session.cpp:44`), so a response to a peer that does
  not read stays outstanding for ever; a worker stuck in a handler (`cpp_self_deadlock`) is
  never joined, and a stopped program does not end (`main.cpp:55`).
* C++: every target that begins with a slash is answered 400 (`http_session.cpp:13`),
  where the comment above it promises 404 for all but the base path.
* C++: one failed accept ends accepting (`listener.cpp:42`; `refused` in `Settled`); a
  port that cannot be bound is reported and "Listening on" printed all the same
  (`main.cpp:46`); a port beyond 16 bits becomes another one (`main.cpp:28`).
* Web client: the close event of a socket that was left resets the app although it
  has another socket by then (`index.js:122`, where the comment takes the socket to be the
  app's); a socket that is replaced while it is connecting is not closed, opens later, and
  its messages and its UUID go into the app (`index.js:44`, the exceptions in `OneRoom` and
  `Held`); the message that reset the app is shown afterwards (`index.js:98`, likewise);
  `"discconnect"` of the Rust server is unknown to it, so that everybody in the room is
  disconnected when one user leaves (`index.js:94`); the minus sign of a timestamp is
  dropped (`index.js:3`).
* Server directory: a file changed twice within one second, or found malformed and
  corrected within it, is not read again (`server/main.go:85`).
* Python: text that is not JSON ends the handler by an exception, its socket stays on the
  list and nobody is told (`main.py:69`, the exception in `NoGhosts` and `DeparturesComplete`: a
  user who garbles and then leaves stays on the list for ever). A user who is gone before
  their own connect is sent, after the others were told of them, never gets onto the list,
  and no departure is announced (`main.py:60`).
* Load tester: all frames are decoded into one message (`main.go:222`), so one that leaves out
  fields, or does not parse, after an echo is counted as another echo (`main.go:239`); the
  flag `-test-timeout` promises a "Max duration to connect" (`main.go:53`), but the dialer's timeout is
  for TCP alone and the handshake may last for ever (`main.go:141`), and `runClient` has no
  deadline at all (`main.go:100`, `:119`); with `-mpc 0` a connection that was sent no UUID passes
  (`main.go:165`); an error frame without contents leaves no trace in the results but is
  filed right, by elimination (`main.go:254`, `:350`); the longest failed receive is stored as the longest failed
  send (`main.go:342`); refused connections count as passed in the averages
  (`main.go:410`); the most messages a failed sender sent is overwritten
  (`main.go:372`).

## 5. What is proved

Every safety property the passing runs check is a theorem of its module. They hold for any
sets of users, connections, workers and threads and any bounds, but for `Agreement` of the
C++ server, which is about one thread and proved for one. What is
assumed of the constants is named in the module that declares them, and TLC evaluates it on
every run: the roles are subsets of the connections and the bounds are numbers
(`BoundsAssumption`, `GoAssumption`, `CppAssumption`, `PyAssumption`), the modes of the
tester are modes and `-mpc` is a number, 0 included (`ClientAssumption`), the page has a value for no
socket (`WebAssumption`), requests and arguments have their fields
(`FrontAssumption`) and the values in a text are such as nlohmann parses (`TextAssumption`,
which leaves out fractions whose whole part does not fit int64_t: converting one is undefined in C++).
`WidthAssumption` and `FrontAssumption` also state what is to be known of powers of two, of which the
provers know nothing: 2^(w-1) is a positive number and 2^w is twice that.

**The room** (`ChatRoomProofs`).

* `RoomSafe`: `Agreement`, `OwnConnectFirst` and `Visibility`. The inductive invariant adds
  that somebody who has not joined has an empty inbox (`Unheard`), without which a join
  could not make own-connect first, and that a member who can be reached has been sent
  something (`Welcomed`). Visibility follows: of two streams that agree the shorter one
  begins with its owner's connect, which is therefore in the longer one too.

**The Rust server** (`RustServerProofs`).

* `TypeCorrect`, `MailboxSafe`, `GhostsLeave`: types, the sessions in the mailbox, and that
  a stopped connection on the list has its Disconnect on the way. `MailboxSessions` is not
  inductive alone: it needs that a running connection is registered or has its Connect
  queued, and that a registered one has started (`Registered`).
* `ImplementsRoom`: `Spec => RoomSpec`. A `Handler<Connect>` is a Join, a
  `Handler<Message>` a Say, a `Handler<Disconnect>` a Leave, a stop a Hangup, everything else a
  stutter; the guards of the room hold because of the mailbox invariant. `RoomGuarantees`
  carries the room's three guarantees over.
* `SessionsInOrder`: the mailbox and what was sent out are one queue cut in two. What c was
  sent about d is behind all that d still has in the mailbox (`Spoken`), where the chats of d
  wait in the order they were said (`MailChats`), so that what comes next is in its place.

**The Go server** (`GoServerProofs`).

* `TypeCorrect`: types, the capacity of every Channel, and that only received chats are
  broadcast (needed for the type of what is broadcast).
* `NoPanic`: no send on a closed channel. The argument is the lock: a Channel is shut only
  after `closed` was set (`ClosedFirst`) and with no reader inside, a broadcast is
  inside at most one Channel (`OneAtATime`), and no reader enters once `closed` is set or
  the writer waits.
* `Welcome`: one's own connect first. A connection is in the map, in a Range or has a writer
  only after it was stored (`Unregistered`), and before its own connect was written
  nothing was (`Untold`).
* `SessionsOpen`: a connect before all else of its user, nothing twice that was not said
  twice. Every frame in a Channel or on a socket was put there by the handler or by a
  broadcast that has passed (`Sourced`), a broadcast does not come back to a key (`Onward`),
  and how far the handler is says which broadcasts have begun (`Announced`); so whoever
  sends a frame now is not whoever sent an equal one, and while a connect is being
  broadcast nothing else of that user is. Trying to prove it showed that the property
  left no room for the chats without contents, which repeat the one before; it names
  them now (`Resent`).

**The C++ server** (`CppServerProofs`, `CppFrontProofs`).

* `TypeCorrect`, `WritesInTurn`: one write at a time; an outstanding write is that of the head of the
  queue (`WritesHead`), which is what `on_send` and `on_write` decide from.
* `PointersValid`: no raw pointer dangles. Pointers are held by `clients_` and by the frames
  of a broadcast's loop, and by those only while it has the shared lock; a `WsConn` is
  freed after its destructor took the exclusive one and erased it, when no loop is
  running; nothing is outstanding for a dying `WsConn` (`Outstanding`), and only its destructor
  holds on to it (`Sound`).
* `OwnConnectPosted`: the first of what a user is sent is their own connect, wherever on
  the way from the strand to the wire it has got to (`OwnFirst`), and whoever is on the list, in a
  broadcast's loop or about to be inserted has been sent it (`Welcomed`).
* `SessionsInOrder`: each user's session in order and nothing twice, whatever the threads do.
  A message that moves from the strand to the queue to the wire stays where it is in the
  user's stream (`StreamPosts`, `StreamKept`), so only what is posted matters. A connection has one handler
  or destructor at a time (`OneFrame`), which broadcasts its newest message and has not
  posted it to those it has yet to come to (`Good`); nobody has been sent what has not
  begun (`Begun`). So what is posted is always the next of its session (`InOrder`).
* `OneWorkerAgrees`: `Agreement` for one thread. It counts the messages two users share from
  the last one back, without recursion, so that sending both the same message moves both
  by one (`AlignedAppend`). A stack holds broadcasts in their loop below and destructors or
  pointers to be released above (`Stacks`). As long as no destructor has come to broadcast
  within a broadcast (`Calm`), what each user has been posted, with the message under way
  for those the loop has yet to come to (`Expected`), agrees for everybody on the list and
  for a newcomer whose "connect" the others are being sent (`Room`). A thread that is no
  longer calm never is again (`StacksStep`): its destructor waits for the loop below it, so
  the thread is never `Quiet` and nothing is claimed. With two threads `Agreement` is false:
  the shared lock lets two broadcasts walk the list at once, in different orders.
* `CppFrontProofs!TypeCorrect`: types, the 16 bits of the port among them.
* `TextsRelayed`: for every width of the timestamp and every text, what is sent out is a
  complete message by the format of `src/README.md`, and is read again as the same one whatever its
  memory held; what is relayed has the sender, action and contents that were sent, and what
  is refused was not complete. The lemmas `LiteralRead`, `NumberFits`, `TextRead`, `AcceptsConforming`,
  `RelayFits` and `RefusalFits` are about the codec alone; the invariant is that the results are those of the first texts, in their order.
* `RequestsAnswered`: the invariant (`Served`) ties the answers to the requests read: while
  the session has the socket it either reads and owes nothing, or is writing the answer
  to the request it read last, and all before that asked to keep the connection.

**The Python server** (`PyServerProofs`).

* `TypeCorrect`, `ListExact`: the list is exact whatever changes it; needs what taking the
  first occurrence out of a list without repeats leaves (`RangeRemove`).
* `OwnConnectSent`: before the own connect nothing was sent, and whoever came further was
  sent it (`Untold`).
* `SessionsInOrder`: those a broadcast has not come to have not been sent its message
  (`Pending`), though the list moves under the iterator: a removal moves clients only
  towards those that were served, an append adds one that was not. Two handlers broadcast
  different messages, and nothing is sent that has not begun (`BegunOnly`).
* `BroadcastsReach`: as long as nobody was taken off the list, a broadcast has served
  everybody it has passed (`Reached`).

**The load tester** (`LoadClientProofs`).

* `TypeCorrect`, `ResultsOwned`, `StartsTogether`, `ReportsComplete`. A receiver
  runs beside a worker that sends or waits, and results are on their way to main only when
  both are done (`Handover`); `startChan` is closed after everybody was counted, and
  everybody counted has dialled (`Gathered`); what a report holds follows from where
  worker and receiver stand and from what ended the reading (`InProgress`). This holds of
  every `-mpc`; with 0 nothing is received and a connection passes by being made.

**The web client** (`WebClientProofs`).

* `SocketsHeld`: a socket that was joined has opened, and whenever the app's own is open
  `isOpen` is set (`SocketInv`).
* `MessagesSorted`, `OneRoomShown`: what the search for the place of a message finds, for every
  list and every timestamp (`Greatest`, `InsertPlace`, `InsertKeeps`), and that a
  message of a room that was left is one that reset the app (`LastWords`). The UUID is the
  one the present server said first (`Named`), while no socket spoke that was
  replaced before it opened (`Faithful`).

Only model-checked:

* Every liveness property (`EchoArrives`, `DeparturesComplete`, `Quiesces`, `Reclaimed`,
  `Terminates`, `Settles`): fairness is outside the prover.
* The four violations, which are counterexamples on small instances and need no proof.

## 6. Not modelled

* The report of the load tester: `runTest` tallies and prints, sequentially; what it
  is given is checked (`CompleteReports`), and what reading it showed is in section 4.
* The server directory: one handler under one mutex, whose only question has the
  answer in section 4.
* The codecs of the Rust, Go and Python servers field by field: they are the libraries'
  own, and the two places where the code has a say are modelled in `RustServer` (the names of
  the actions) and `GoServer` (decoding into a variable that keeps its value).
* Of the web client, `sendMsg`, `refreshServers` and scrolling, which change nothing that
  is modelled; of the C++ server, the parser in comments in `message.hpp` and the older
  version of it under `include/`.
* The runner, which only starts processes; the Node server and the Elixir project, which
  are stubs.

## 7. Plan

The models and the proofs of the safety properties are complete in the sense of sections 5
and 6. What would be worth adding next:

1. The report of the load tester, as functions of the results that `CompleteReports`
   describes, against definitions of the averages.
2. The server directory, with its file and its clock, once the question in section 4 has
   been settled.
3. Should `Server::disconnect` move out of the destructor's own thread: the same properties of
   `CppServer`, with `NewcomerWelcomed` of `cpp_self_deadlock` as one that holds.
