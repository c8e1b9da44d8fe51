----------------------------- MODULE LoadClient -----------------------------
(***************************************************************************)
(* The goroutines of the load tester (client/): main, a worker for every   *)
(* connection, and in test mode a receiver for every worker.  They meet on *)
(* startedChan and startChan (-same-start), on a doneChan for each pair of *)
(* worker and receiver, and on testChan, where the results go.             *)
(* External: the server under test, which may do anything: refuse a        *)
(* connection or never answer the handshake, echo a chat late, twice or    *)
(* never, send an error or something unexpected, close, or stop reading.   *)
(* In test mode every read and every send has a deadline; a handshake has  *)
(* none in either mode, nor has what a worker sends without -test.         *)
(***************************************************************************)
EXTENDS Naturals, FiniteSets

CONSTANTS Workers,     \* the connections
          MsgsPerConn, \* -mpc: messages every connection sends
          Modes,       \* how the tester may be called: -test, -same-start, and an -addr
                       \* that url.Parse accepts and webs.NewConfig does not
          StartedCap,  \* capacity of startedChan (5 in the code)
          TestCap      \* capacity of testChan (100 in the code)

ASSUME ClientAssumption ==
    /\ Modes \subseteq [test : BOOLEAN, sameStart : BOOLEAN, badAddr : BOOLEAN]
    /\ MsgsPerConn \in Nat
    /\ StartedCap \in Nat /\ TestCap \in Nat

VARIABLES flags,     \* how the tester was called
          main,      \* where main stands
          wpc,       \* where each worker stands
          rpc,       \* and its receiver; "done" when doneChan is closed
          signals,   \* workers whose value is in startedChan
          counted,   \* workers whose value main has taken from it
          startChan, \* closed or not
          testChan,  \* workers whose results are in testChan
          collected, \* and those runTest has taken from it
          tres,      \* the TestResults of each worker
          sent,      \* msgsSent, local to the worker
          recvd,     \* msgsRecvd, local to the receiver
          ended      \* history: what ended the reading of each connection

chans == <<signals, counted, startChan, testChan, collected>>
recvs == <<rpc, recvd, ended>>
vars  == <<flags, main, wpc, chans, tres, sent, recvs>>

\* What a worker reports: the fields that runTest reads, the errors as flags.
TestResults ==
    [connected : BOOLEAN, sent : 0..MsgsPerConn, recvd : 0..MsgsPerConn,
     sendErr : BOOLEAN, recvErr : BOOLEAN, stopRecvReason : BOOLEAN, serverErr : BOOLEAN]

\* newTestResults.
NewTestResults ==
    [connected |-> FALSE, sent |-> 0, recvd |-> 0, sendErr |-> FALSE, recvErr |-> FALSE,
     stopRecvReason |-> FALSE, serverErr |-> FALSE]

Init ==
    /\ flags \in Modes
    /\ main = IF flags.sameStart THEN "gather" ELSE "collect"
    /\ wpc = [w \in Workers |-> "dial"]
    /\ rpc = [w \in Workers |-> "none"]
    /\ signals = {} /\ counted = {}
    /\ startChan = "open"
    /\ testChan = {} /\ collected = {}
    /\ tres = [w \in Workers |-> NewTestResults]
    /\ sent = [w \in Workers |-> 0]
    /\ recvd = [w \in Workers |-> 0]
    /\ ended = [w \in Workers |-> "not yet"]

Goto(w, from, to) == wpc[w] = from /\ wpc' = [wpc EXCEPT ![w] = to]

-----------------------------------------------------------------------------
(* runClient and runClientTest *)

\* Where a worker goes to end: in test mode it still has to report.
Over == IF flags.test THEN "report" ELSE "done"

\* Where it goes once it may begin: in test mode it first reads its UUID.
Begun == IF flags.test THEN "uuid" ELSE "send"

\* tres.connected is set once the signal has been given, a difference nobody sees.
DialOK(w) ==
    /\ ~flags.badAddr
    /\ Goto(w, "dial", IF flags.sameStart THEN "signal" ELSE Begun)
    /\ tres' = [tres EXCEPT ![w].connected = TRUE]
    /\ UNCHANGED <<flags, main, chans, sent, recvs>>

DialFails(w) ==
    /\ ~(flags.badAddr /\ flags.test)
    /\ Goto(w, "dial", IF flags.sameStart THEN "signalErr" ELSE Over)
    /\ UNCHANGED <<flags, main, chans, tres, sent, recvs>>

\* webs.NewConfig fails: the signal is given whether or not anybody waits for it.
NewConfigFails(w) ==
    /\ flags.badAddr /\ flags.test
    /\ Goto(w, "dial", "signalErr")
    /\ UNCHANGED <<flags, main, chans, tres, sent, recvs>>

\* Seeded faults: the channel has no bound; a worker that failed gives no signal.
SignalUnbounded(w) ==
    /\ \/ Goto(w, "signal", "ready")
       \/ Goto(w, "signalErr", Over)
    /\ signals' = signals \cup {w}
    /\ UNCHANGED <<flags, main, counted, startChan, testChan, collected, tres, sent, recvs>>

SignalConnected(w) ==
    /\ \/ Goto(w, "signal", "ready") /\ signals' = signals \cup {w}
       \/ Goto(w, "signalErr", Over) /\ UNCHANGED signals
    /\ Cardinality(signals) < StartedCap
    /\ UNCHANGED <<flags, main, counted, startChan, testChan, collected, tres, sent, recvs>>

\* startedChan <- true, which waits while the channel is full.
Signal(w) ==
    /\ \/ Goto(w, "signal", "ready")
       \/ Goto(w, "signalErr", Over)
    /\ Cardinality(signals) < StartedCap
    /\ signals' = signals \cup {w}
    /\ UNCHANGED <<flags, main, counted, startChan, testChan, collected, tres, sent, recvs>>

\* Seeded fault: nobody waits for the start.
ReadyAtOnce(w) ==
    /\ Goto(w, "ready", Begun)
    /\ UNCHANGED <<flags, main, chans, tres, sent, recvs>>

\* <-startChan returns once main has closed it.
Ready(w) ==
    /\ startChan = "closed"
    /\ Goto(w, "ready", Begun)
    /\ UNCHANGED <<flags, main, chans, tres, sent, recvs>>

\* The first frame is a connect: the receiver is started.
GetUUID(w) ==
    /\ Goto(w, "uuid", "send")
    /\ rpc' = [rpc EXCEPT ![w] = "run"]
    /\ UNCHANGED <<flags, main, chans, tres, sent, recvd, ended>>

\* It is not, or does not come in time.
GetUUIDFails(w) ==
    /\ Goto(w, "uuid", "report")
    /\ \/ tres' = [tres EXCEPT ![w].recvErr = TRUE]
       \/ tres' = [tres EXCEPT ![w].stopRecvReason = TRUE]
    /\ ended' = [ended EXCEPT ![w] = "no uuid"]
    /\ UNCHANGED <<flags, main, chans, sent, rpc, recvd>>

\* Where a worker goes after its last send: in test mode it waits for its receiver.
Sent == IF flags.test THEN "wait" ELSE "done"

Send(w) ==
    /\ wpc[w] = "send" /\ sent[w] < MsgsPerConn
    /\ sent' = [sent EXCEPT ![w] = @ + 1]
    /\ UNCHANGED <<flags, main, wpc, chans, tres, recvs>>

SendEnds(w) ==
    /\ sent[w] = MsgsPerConn
    /\ Goto(w, "send", Sent)
    /\ UNCHANGED <<flags, main, chans, tres, sent, recvs>>

\* A send that fails ends the loop; err stays in the worker until it may touch tres.
SendFails(w) ==
    /\ sent[w] < MsgsPerConn
    /\ Goto(w, "send", Sent)
    /\ UNCHANGED <<flags, main, chans, tres, sent, recvs>>

\* What the worker knows goes into tres.
Finished(w) ==
    tres' = [tres EXCEPT ![w].sent = sent[w], ![w].sendErr = sent[w] # MsgsPerConn]

\* Seeded fault: the worker does not wait for doneChan.
FinishEarly(w) ==
    /\ Goto(w, "wait", "report")
    /\ Finished(w)
    /\ UNCHANGED <<flags, main, chans, sent, recvs>>

Finish(w) ==
    /\ rpc[w] = "done"
    /\ Goto(w, "wait", "report")
    /\ Finished(w)
    /\ UNCHANGED <<flags, main, chans, sent, recvs>>

\* The deferred testChan <- tres.
Report(w) ==
    /\ Cardinality(testChan) < TestCap
    /\ Goto(w, "report", "done")
    /\ testChan' = testChan \cup {w}
    /\ UNCHANGED <<flags, main, signals, counted, startChan, collected, tres, sent, recvs>>

-----------------------------------------------------------------------------
(* runRecvTest *)

\* The loop runs while it has not counted as many chats as were to be sent.
Receiving(w) == rpc[w] = "run" /\ recvd[w] # MsgsPerConn

\* The receiver stops, with these flags of tres set, and closes doneChan.
StopRecv(w, flag, why) ==
    /\ tres' = [tres EXCEPT ![w] = [flag EXCEPT !.recvd = recvd[w]]]
    /\ rpc' = [rpc EXCEPT ![w] = "done"]
    /\ ended' = [ended EXCEPT ![w] = why]
    /\ UNCHANGED <<flags, main, wpc, chans, sent, recvd>>

\* Each frame is decoded into the same msg: the fields it leaves out are those of the
\* frame before.  One that Unmarshal refuses, whole or in part, is noted, and the switch
\* goes on with what msg holds then.  So whatever the frame was, msg may now say anything.
Decoded(w) == {tres[w], [tres[w] EXCEPT !.recvErr = TRUE]}

\* msg is a chat of the worker's own.
RecvOwn(w) ==
    /\ Receiving(w)
    /\ \E r \in Decoded(w) : tres' = [tres EXCEPT ![w] = r]
    /\ recvd' = [recvd EXCEPT ![w] = @ + 1]
    /\ UNCHANGED <<flags, main, wpc, chans, sent, rpc, ended>>

\* Somebody else's chat, connect or disconnect, or nothing at all.
RecvOther(w) ==
    /\ Receiving(w)
    /\ \E r \in Decoded(w) : tres' = [tres EXCEPT ![w] = r]
    /\ UNCHANGED <<flags, main, wpc, chans, sent, recvs>>

\* Seeded fault: the reason for stopping is lost.
RecvDisconnectSilent(w) ==
    /\ Receiving(w)
    /\ StopRecv(w, tres[w], "disconnect")

\* The worker's own disconnect.
RecvDisconnect(w) ==
    /\ Receiving(w)
    /\ \E r \in Decoded(w) : StopRecv(w, [r EXCEPT !.stopRecvReason = TRUE], "disconnect")

\* An error, whose contents may be empty: serverErr is then as if there had been none.
RecvError(w) ==
    /\ Receiving(w)
    /\ \E r \in Decoded(w), said \in BOOLEAN :
          StopRecv(w, [r EXCEPT !.serverErr = said], "error")

\* The server closed, or the deadline passed.
RecvFails(w) ==
    /\ Receiving(w)
    /\ StopRecv(w, [tres[w] EXCEPT !.recvErr = TRUE], "failed")

RecvEnds(w) ==
    /\ rpc[w] = "run" /\ recvd[w] = MsgsPerConn
    /\ StopRecv(w, tres[w], "enough")

-----------------------------------------------------------------------------
(* main and runTest *)

\* <-startedChan, once for every connection.
TakeSignal(w) ==
    /\ main = "gather" /\ w \in signals
    /\ signals' = signals \ {w}
    /\ counted' = counted \cup {w}
    /\ UNCHANGED <<flags, main, wpc, startChan, testChan, collected, tres, sent, recvs>>

\* close(startChan), then the results are collected, or awaited.
Start ==
    /\ main = "gather" /\ counted = Workers
    /\ startChan' = "closed"
    /\ main' = "collect"
    /\ UNCHANGED <<flags, wpc, signals, counted, testChan, collected, tres, sent, recvs>>

\* tres := <-testChan.
Collect(w) ==
    /\ main = "collect" /\ w \in testChan
    /\ testChan' = testChan \ {w}
    /\ collected' = collected \cup {w}
    /\ UNCHANGED <<flags, main, wpc, signals, counted, startChan, tres, sent, recvs>>

\* All the results are in, or wg.Wait returns.
MainEnds ==
    /\ main = "collect"
    /\ IF flags.test THEN collected = Workers ELSE \A w \in Workers : wpc[w] = "done"
    /\ main' = "done"
    /\ UNCHANGED <<flags, wpc, chans, tres, sent, recvs>>

-----------------------------------------------------------------------------
WorkerStep(w) ==
    \/ DialOK(w) \/ DialFails(w) \/ NewConfigFails(w) \/ Signal(w) \/ Ready(w)
    \/ GetUUID(w) \/ GetUUIDFails(w) \/ Send(w) \/ SendEnds(w) \/ SendFails(w)
    \/ Finish(w) \/ Report(w)

\* What ends a receiver; the rest of what it receives is up to the server.
RecvStops(w) == RecvDisconnect(w) \/ RecvError(w) \/ RecvFails(w) \/ RecvEnds(w)

RecvStep(w) == RecvOwn(w) \/ RecvOther(w) \/ RecvStops(w)

MainStep == Start \/ MainEnds \/ \E w \in Workers : TakeSignal(w) \/ Collect(w)

Next == MainStep \/ \E w \in Workers : WorkerStep(w) \/ RecvStep(w)

Spec == Init /\ [][Next]_vars

\* What a worker does whatever the server does: it is refused by its own library, waits
\* for nobody but the other goroutines, or has a deadline on the socket.
BoundedStep(w) ==
    \/ NewConfigFails(w) \/ (flags.badAddr /\ DialFails(w))
    \/ Signal(w) \/ Ready(w) \/ GetUUID(w) \/ GetUUIDFails(w) \/ Finish(w) \/ Report(w)
    \/ flags.test /\ (Send(w) \/ SendEnds(w) \/ SendFails(w))

\* Goroutines that can run do, and by its deadline a receiver has stopped.  A dial, and
\* without -test a send and the close behind it, need never end.
Fairness ==
    /\ WF_vars(MainStep)
    /\ \A w \in Workers : WF_vars(BoundedStep(w)) /\ WF_vars(RecvStops(w))

FairSpec == Spec /\ Fairness

-----------------------------------------------------------------------------
(* Properties *)

\* Every variable stays in its type, and the channels in their capacities.
TypeOK ==
    /\ flags \in Modes
    /\ main \in {"gather", "collect", "done"}
    /\ wpc \in [Workers -> {"dial", "signal", "signalErr", "ready", "uuid", "send", "wait",
                            "report", "done"}]
    /\ rpc \in [Workers -> {"none", "run", "done"}]
    /\ signals \subseteq Workers /\ Cardinality(signals) <= StartedCap
    /\ testChan \subseteq Workers /\ Cardinality(testChan) <= TestCap
    /\ counted \subseteq Workers /\ collected \subseteq Workers
    /\ startChan \in {"open", "closed"}
    /\ tres \in [Workers -> TestResults]
    /\ sent \in [Workers -> 0..MsgsPerConn] /\ recvd \in [Workers -> 0..MsgsPerConn]
    /\ ended \in [Workers -> {"not yet", "no uuid", "enough", "disconnect", "error", "failed"}]

\* The comment of runClientTest: tres cannot be accessed until the receiver is done.
\* No worker writes to it, and none hands it to main, while its receiver may.
Owned == \A w \in Workers : rpc[w] = "run" => wpc[w] \in {"send", "wait"} /\ w \notin collected

\* The flag -same-start: no worker begins until each has connected, or failed to.
StartTogether ==
    flags.sameStart => \A w \in Workers : wpc[w] \in {"uuid", "send", "wait"} =>
        \A v \in Workers : wpc[v] \notin {"dial", "signal", "signalErr"}

\* Where runTest files a connection that did not receive all: by elimination.
FiledUnder(r) ==
    IF r.recvErr THEN "recvErrs" ELSE IF r.stopRecvReason THEN "stopRecvReasons" ELSE "serverErrs"

\* It passes when it has connected, sent all and received all.
Passed(r) == r.connected /\ r.sent = MsgsPerConn /\ r.recvd = MsgsPerConn

\* What a report says of a connection whose reading ended like this.
Complete(r, why) ==
    IF ~r.connected THEN r = NewTestResults ELSE
    /\ r.recvd # MsgsPerConn =>
          /\ FiledUnder(r) = "serverErrs" => why = "error"
          /\ FiledUnder(r) = "stopRecvReasons" => why \in {"disconnect", "no uuid"}
    /\ r.serverErr => why = "error"
    /\ r.sendErr => r.sent # MsgsPerConn
    /\ r.sent # MsgsPerConn /\ ~r.sendErr => why = "no uuid" /\ r.sent = 0 /\ r.recvd = 0
    /\ Passed(r) /\ MsgsPerConn > 0 => why = "enough"

\* Whatever the server does, runTest is right about what it collects: what it files under
\* server errors, by elimination, was ended by an error frame, even by one that said
\* nothing; what it files under unexpected messages, by one; sending that fell short has
\* its error, unless there was no UUID to send under; and what passes has counted all it
\* was to receive (with -mpc 0 even a connection without a UUID passes).
CompleteReports == \A w \in collected : Complete(tres[w], ended[w])

\* What the end of a run takes of the server: every handshake ends, and without -test,
\* where nothing has a deadline, so does the sending.
ServerAnswers == \A w \in Workers : <>(wpc[w] # "dial")
ServerReads == flags.test \/ \A w \in Workers : []<>(wpc[w] # "send")

\* Against such a server every run of the tester ends: no goroutine waits for ever on a
\* channel, whoever is refused, sent an error, closed on or left without an answer.
Terminates ==
    ServerAnswers /\ ServerReads =>
        <>(main = "done" /\ \A w \in Workers : wpc[w] = "done" /\ rpc[w] # "run")

-----------------------------------------------------------------------------
(* What the comments and the flags say and the code does not do *)

\* -test-timeout: max duration to connect and read/write for.
EndsInTime == <>(main = "done")
=============================================================================
