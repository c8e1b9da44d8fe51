-------------------------- MODULE LoadClientProofs --------------------------
(***************************************************************************)
(* The load tester hands its results over safely, starts its workers       *)
(* together and reports what makes sense, for any number of connections    *)
(* and messages, any channel capacities and however it is called.          *)
(***************************************************************************)
EXTENDS LoadClient, FiniteSetTheorems, TLAPS

\* The channels hold finitely many values, however many workers there are.
Finite == IsFiniteSet(signals) /\ IsFiniteSet(testChan)

TypeInv == TypeOK /\ Finite

\* Only test mode has receivers and UUIDs; a receiver runs beside a worker that sends or
\* waits and has no part in what comes before; results are on their way to main only when their worker is done.
Handover ==
    \A w \in Workers :
        /\ rpc[w] = "run" => wpc[w] \in {"send", "wait"} /\ flags.test
        /\ rpc[w] = "done" => wpc[w] \in {"send", "wait", "report", "done"}
        /\ wpc[w] = "uuid" => flags.test
        /\ w \in testChan \cup collected => wpc[w] = "done"

-----------------------------------------------------------------------------
(* Type correctness *)

\* A channel with room has, after a send, at most as many values as places.
LEMMA SendFits ==
    ASSUME NEW S, IsFiniteSet(S), NEW cap \in Nat, Cardinality(S) < cap, NEW x
    PROVE  IsFiniteSet(S \cup {x}) /\ Cardinality(S \cup {x}) <= cap
<1>1. /\ IsFiniteSet(S \cup {x})
      /\ Cardinality(S \cup {x}) = IF x \in S THEN Cardinality(S) ELSE Cardinality(S) + 1
  BY FS_AddElement, Zenon
<1>2. Cardinality(S) \in Nat
  BY FS_CardinalityType, Zenon
<1> QED BY <1>1, <1>2

\* A receive leaves no more values than there were.
LEMMA ReceiveFits ==
    ASSUME NEW S, IsFiniteSet(S), NEW cap \in Nat, Cardinality(S) <= cap, NEW x
    PROVE  IsFiniteSet(S \ {x}) /\ Cardinality(S \ {x}) <= cap
<1>1. /\ IsFiniteSet(S \ {x})
      /\ Cardinality(S \ {x}) = IF x \in S THEN Cardinality(S) - 1 ELSE Cardinality(S)
  BY FS_RemoveElement, Zenon
<1>2. Cardinality(S) \in Nat
  BY FS_CardinalityType, Zenon
<1> QED BY <1>1, <1>2

\* The tester starts well typed.
LEMMA TypeInit == Init => TypeInv
<1> SUFFICES ASSUME Init PROVE TypeInv
  OBVIOUS
<1>1. 0 \in 0..MsgsPerConn /\ NewTestResults \in TestResults
  BY ClientAssumption DEF NewTestResults, TestResults
<1>2. IsFiniteSet({}) /\ Cardinality({}) = 0
  BY FS_EmptySet
<1>3. 0 <= StartedCap /\ 0 <= TestCap
  BY ClientAssumption
<1>4. signals = {} /\ testChan = {}
  BY DEF Init
<1>5. Finite /\ Cardinality(signals) <= StartedCap /\ Cardinality(testChan) <= TestCap
  BY <1>2, <1>3, <1>4 DEF Finite
<1>6. /\ wpc \in [Workers -> {"dial", "signal", "signalErr", "ready", "uuid", "send", "wait",
                              "report", "done"}]
      /\ ended \in [Workers -> {"not yet", "no uuid", "enough", "disconnect", "error", "failed"}]
  BY DEF Init
<1> QED BY <1>1, <1>5, <1>6 DEF Init, TypeInv, TypeOK

\* A report with one of its fields filled in is a report.
LEMMA ReportFields ==
    ASSUME NEW r \in TestResults, NEW n \in 0..MsgsPerConn
    PROVE  /\ [r EXCEPT !.connected = TRUE] \in TestResults
           /\ [r EXCEPT !.recvErr = TRUE] \in TestResults
           /\ [r EXCEPT !.stopRecvReason = TRUE] \in TestResults
           /\ \A said \in BOOLEAN : [r EXCEPT !.serverErr = said] \in TestResults
           /\ [r EXCEPT !.recvd = n] \in TestResults
           /\ [r EXCEPT !.sent = n, !.sendErr = (n # MsgsPerConn)] \in TestResults
BY DEF TestResults

\* So is one with a frame noted that could not be decoded.
LEMMA DecodedType ==
    ASSUME NEW w \in Workers, tres[w] \in TestResults
    PROVE  Decoded(w) \subseteq TestResults
BY DEF Decoded, TestResults

\* A receiver that stops leaves a well-typed report.
LEMMA StopType ==
    ASSUME TypeInv, NEW w \in Workers, NEW r \in TestResults, NEW why,
           why \in {"enough", "disconnect", "error", "failed"}, StopRecv(w, r, why)
    PROVE  TypeInv'
<1>1. recvd[w] \in 0..MsgsPerConn
  BY DEF TypeInv, TypeOK
<1>2. [r EXCEPT !.recvd = recvd[w]] \in TestResults
  BY <1>1, ReportFields
<1> QED BY <1>2 DEF StopRecv, TypeInv, TypeOK, Finite, chans

\* No step takes the state out of its type, nor a channel beyond its capacity.
LEMMA TypeStep == TypeInv /\ [Next]_vars => TypeInv'
<1> SUFFICES ASSUME TypeInv, [Next]_vars PROVE TypeInv'
  OBVIOUS
<1> USE ClientAssumption DEF TypeInv, Goto, chans, recvs
<1>1. ASSUME NEW w \in Workers, DialOK(w) \/ DialFails(w) \/ NewConfigFails(w) PROVE TypeInv'
  <2>1. [tres[w] EXCEPT !.connected = TRUE] \in TestResults
    BY ReportFields DEF TypeOK
  <2>2. tres' \in [Workers -> TestResults]
    BY <1>1, <2>1 DEF DialOK, DialFails, NewConfigFails, TypeOK
  <2>3. wpc' \in [Workers -> {"dial", "signal", "signalErr", "ready", "uuid", "send", "wait",
                              "report", "done"}]
    BY <1>1 DEF DialOK, DialFails, NewConfigFails, Over, Begun, TypeOK
  <2> QED BY <1>1, <2>2, <2>3 DEF DialOK, DialFails, NewConfigFails, TypeOK, Finite
<1>2. ASSUME NEW w \in Workers, Signal(w) PROVE TypeInv'
  <2>1. IsFiniteSet(signals') /\ Cardinality(signals') <= StartedCap
    BY <1>2, SendFits DEF Signal, Finite
  <2> QED BY <1>2, <2>1 DEF Signal, Over, TypeOK, Finite
<1>3. ASSUME NEW w \in Workers, Ready(w) \/ GetUUID(w) \/ GetUUIDFails(w) PROVE TypeInv'
  <2>1. /\ [tres[w] EXCEPT !.recvErr = TRUE] \in TestResults
        /\ [tres[w] EXCEPT !.stopRecvReason = TRUE] \in TestResults
    BY ReportFields DEF TypeOK
  <2>2. tres' \in [Workers -> TestResults]
    BY <1>3, <2>1 DEF Ready, GetUUID, GetUUIDFails, TypeOK
  <2> QED BY <1>3, <2>2 DEF Ready, GetUUID, GetUUIDFails, Begun, TypeOK, Finite
<1>4. ASSUME NEW w \in Workers, Send(w) \/ SendEnds(w) \/ SendFails(w) PROVE TypeInv'
  <2>1. wpc' \in [Workers -> {"dial", "signal", "signalErr", "ready", "uuid", "send", "wait",
                              "report", "done"}]
    BY <1>4 DEF Send, SendEnds, SendFails, Sent, TypeOK
  <2>2. sent' \in [Workers -> 0..MsgsPerConn]
    <3>1. CASE Send(w)
      <4>1. sent[w] \in 0..MsgsPerConn /\ sent[w] < MsgsPerConn
        BY <3>1 DEF Send, TypeOK
      <4>2. sent[w] + 1 \in 0..MsgsPerConn
        BY <4>1
      <4> QED BY <3>1, <4>2 DEF Send, TypeOK
    <3>2. CASE SendEnds(w) \/ SendFails(w)
      BY <3>2 DEF SendEnds, SendFails, TypeOK
    <3> QED BY <1>4, <3>1, <3>2
  <2> QED BY <1>4, <2>1, <2>2 DEF Send, SendEnds, SendFails, TypeOK, Finite
<1>5. ASSUME NEW w \in Workers, Finish(w) PROVE TypeInv'
  <2>1. sent[w] \in 0..MsgsPerConn /\ tres[w] \in TestResults
    BY DEF TypeOK
  <2>2. [tres[w] EXCEPT !.sent = sent[w], !.sendErr = (sent[w] # MsgsPerConn)] \in TestResults
    BY <2>1, ReportFields
  <2>3. tres' = [tres EXCEPT ![w] =
                    [tres[w] EXCEPT !.sent = sent[w], !.sendErr = (sent[w] # MsgsPerConn)]]
    BY <1>5 DEF Finish, Finished, TypeOK
  <2> QED BY <1>5, <2>2, <2>3 DEF Finish, TypeOK, Finite
<1>6. ASSUME NEW w \in Workers, Report(w) PROVE TypeInv'
  <2>1. IsFiniteSet(testChan') /\ Cardinality(testChan') <= TestCap
    BY <1>6, SendFits DEF Report, Finite
  <2> QED BY <1>6, <2>1 DEF Report, TypeOK, Finite
<1>7. ASSUME NEW w \in Workers, RecvOwn(w) \/ RecvOther(w) PROVE TypeInv'
  <2>1. Decoded(w) \subseteq TestResults
    BY DecodedType DEF TypeOK
  <2>2. tres' \in [Workers -> TestResults]
    BY <1>7, <2>1 DEF RecvOwn, RecvOther, TypeOK
  <2>3. recvd' \in [Workers -> 0..MsgsPerConn]
    <3>1. recvd[w] \in 0..MsgsPerConn /\ recvd[w] # MsgsPerConn
      BY <1>7 DEF RecvOwn, RecvOther, Receiving, TypeOK
    <3>2. recvd[w] + 1 \in 0..MsgsPerConn
      BY <3>1
    <3> QED BY <1>7, <3>2 DEF RecvOwn, RecvOther, TypeOK
  <2> QED BY <1>7, <2>2, <2>3 DEF RecvOwn, RecvOther, TypeOK, Finite
<1>8. ASSUME NEW w \in Workers, RecvStops(w) PROVE TypeInv'
  <2>1. PICK r \in TestResults, why \in {"enough", "disconnect", "error", "failed"} :
            StopRecv(w, r, why)
    <3>0. tres[w] \in TestResults
      BY DEF TypeOK
    <3>1. Decoded(w) \subseteq TestResults
      BY <3>0, DecodedType
    <3>2. \A r \in TestResults :
             /\ [r EXCEPT !.stopRecvReason = TRUE] \in TestResults
             /\ \A said \in BOOLEAN : [r EXCEPT !.serverErr = said] \in TestResults
             /\ [r EXCEPT !.recvErr = TRUE] \in TestResults
      <4>1. 0 \in 0..MsgsPerConn
        BY ClientAssumption
      <4> QED BY <4>1, ReportFields
    <3>3. CASE RecvDisconnect(w)
      BY <3>1, <3>2, <3>3 DEF RecvDisconnect
    <3>4. CASE RecvError(w)
      BY <3>1, <3>2, <3>4 DEF RecvError
    <3>5. CASE RecvFails(w) \/ RecvEnds(w)
      BY <3>0, <3>2, <3>5 DEF RecvFails, RecvEnds
    <3> QED BY <1>8, <3>3, <3>4, <3>5 DEF RecvStops
  <2> QED BY <2>1, StopType
<1>9. ASSUME NEW w \in Workers, TakeSignal(w) PROVE TypeInv'
  <2>1. IsFiniteSet(signals') /\ Cardinality(signals') <= StartedCap
    BY <1>9, ReceiveFits DEF TakeSignal, TypeOK, Finite
  <2> QED BY <1>9, <2>1 DEF TakeSignal, TypeOK, Finite
<1>10. ASSUME NEW w \in Workers, Collect(w) PROVE TypeInv'
  <2>1. IsFiniteSet(testChan') /\ Cardinality(testChan') <= TestCap
    BY <1>10, ReceiveFits DEF Collect, TypeOK, Finite
  <2> QED BY <1>10, <2>1 DEF Collect, TypeOK, Finite
<1>11. CASE Start \/ MainEnds
  BY <1>11 DEF Start, MainEnds, TypeOK, Finite
<1>12. CASE UNCHANGED vars
  BY <1>12 DEF vars, TypeOK, Finite
<1> QED BY <1>1, <1>2, <1>3, <1>4, <1>5, <1>6, <1>7, <1>8, <1>9, <1>10, <1>11, <1>12
        DEF Next, MainStep, WorkerStep, RecvStep

\* Every reachable state of the tester is well typed, and no channel holds more than its
\* capacity.
THEOREM TypeCorrect == Spec => []TypeOK
<1>1. TypeInv => TypeOK
  BY DEF TypeInv
<1> QED BY TypeInit, TypeStep, <1>1, PTL DEF Spec

-----------------------------------------------------------------------------
(* Results are handed over *)

\* Nobody has a receiver or a result at the start.
LEMMA HandoverInit == Init => Handover
BY DEF Init, Handover

\* A worker reports once its receiver has stopped, and main collects what was reported.
LEMMA HandoverStep == TypeInv /\ Handover /\ [Next]_vars => Handover'
<1> SUFFICES ASSUME TypeInv, Handover, [Next]_vars PROVE Handover'
  OBVIOUS
<1> USE DEF TypeInv, TypeOK, Handover, Goto, chans, recvs
<1>1. ASSUME NEW w \in Workers, DialOK(w) \/ DialFails(w) \/ NewConfigFails(w) PROVE Handover'
  BY <1>1 DEF DialOK, DialFails, NewConfigFails, Over, Begun
<1>2. ASSUME NEW w \in Workers, Signal(w) \/ Ready(w) PROVE Handover'
  BY <1>2 DEF Signal, Ready, Over, Begun
<1>3. ASSUME NEW w \in Workers, GetUUID(w) \/ GetUUIDFails(w) PROVE Handover'
  BY <1>3 DEF GetUUID, GetUUIDFails
<1>4. ASSUME NEW w \in Workers, Send(w) \/ SendEnds(w) \/ SendFails(w) PROVE Handover'
  BY <1>4 DEF Send, SendEnds, SendFails, Sent
<1>5. ASSUME NEW w \in Workers, Finish(w) \/ Report(w) PROVE Handover'
  <2>1. CASE Finish(w)
    BY <1>5, <2>1 DEF Finish
  <2>2. CASE Report(w)
    BY <1>5, <2>2 DEF Report
  <2> QED BY <1>5, <2>1, <2>2
<1>6. ASSUME NEW w \in Workers, RecvStep(w) PROVE Handover'
  <2>1. /\ rpc[w] = "run" /\ UNCHANGED <<flags, wpc, testChan, collected>>
        /\ rpc' = rpc \/ rpc' = [rpc EXCEPT ![w] = "done"]
    BY <1>6 DEF RecvStep, RecvOwn, RecvOther, RecvStops, RecvDisconnect, RecvError,
                RecvFails, RecvEnds, StopRecv, Receiving
  <2> QED BY <2>1
<1>7. ASSUME NEW w \in Workers, TakeSignal(w) \/ Collect(w) PROVE Handover'
  BY <1>7 DEF TakeSignal, Collect
<1>8. CASE Start \/ MainEnds
  BY <1>8 DEF Start, MainEnds
<1>9. CASE UNCHANGED vars
  BY <1>9 DEF vars
<1> QED BY <1>1, <1>2, <1>3, <1>4, <1>5, <1>6, <1>7, <1>8, <1>9
        DEF Next, MainStep, WorkerStep

\* While its receiver may write to them, no worker writes to its TestResults and none
\* has handed them to main.
THEOREM ResultsOwned == Spec => []Owned
<1>1. Handover => Owned
  BY DEF Handover, Owned
<1> QED BY TypeInit, TypeStep, HandoverInit, HandoverStep, <1>1, PTL DEF Spec

-----------------------------------------------------------------------------
(* The workers start together *)

\* With -same-start nobody begins before startChan is closed, which takes a value from
\* everybody, and whose value is in startedChan or was taken has dialled.
Gathered ==
    /\ flags.sameStart =>
          /\ startChan = "closed" => counted = Workers
          /\ \A w \in Workers : wpc[w] \in {"uuid", "send", "wait"} => startChan = "closed"
    /\ \A w \in signals \cup counted : wpc[w] \notin {"dial", "signal", "signalErr"}

\* At the start nobody has signalled.
LEMMA GatheredInit == Init => Gathered
BY DEF Init, Gathered

\* Each worker signals after it has dialled, and main closes startChan after the last.
LEMMA GatheredStep == TypeInv /\ Gathered /\ [Next]_vars => Gathered'
<1> SUFFICES ASSUME TypeInv, Gathered, [Next]_vars PROVE Gathered'
  OBVIOUS
<1> USE DEF TypeInv, TypeOK, Gathered, Goto, chans, recvs
<1>1. ASSUME NEW w \in Workers, DialOK(w) \/ DialFails(w) \/ NewConfigFails(w) PROVE Gathered'
  BY <1>1 DEF DialOK, DialFails, NewConfigFails, Over, Begun
<1>2. ASSUME NEW w \in Workers, Signal(w) \/ Ready(w) PROVE Gathered'
  BY <1>2 DEF Signal, Ready, Over, Begun
<1>3. ASSUME NEW w \in Workers, GetUUID(w) \/ GetUUIDFails(w) PROVE Gathered'
  BY <1>3 DEF GetUUID, GetUUIDFails
<1>4. ASSUME NEW w \in Workers, Send(w) \/ SendEnds(w) \/ SendFails(w) PROVE Gathered'
  BY <1>4 DEF Send, SendEnds, SendFails, Sent
<1>5. ASSUME NEW w \in Workers, Finish(w) \/ Report(w) PROVE Gathered'
  BY <1>5 DEF Finish, Report
<1>6. ASSUME NEW w \in Workers, RecvStep(w) PROVE Gathered'
  BY <1>6 DEF RecvStep, RecvOwn, RecvOther, RecvStops, RecvDisconnect, RecvError,
              RecvFails, RecvEnds, StopRecv
<1>7. ASSUME NEW w \in Workers, TakeSignal(w) \/ Collect(w) PROVE Gathered'
  BY <1>7 DEF TakeSignal, Collect
<1>8. CASE Start \/ MainEnds
  BY <1>8 DEF Start, MainEnds
<1>9. CASE UNCHANGED vars
  BY <1>9 DEF vars
<1> QED BY <1>1, <1>2, <1>3, <1>4, <1>5, <1>6, <1>7, <1>8, <1>9
        DEF Next, MainStep, WorkerStep

\* With -same-start no worker begins until each has connected, or failed to.
THEOREM StartsTogether == Spec => []StartTogether
<1>1. TypeInv /\ Gathered => StartTogether
  BY DEF Gathered, StartTogether, TypeInv, TypeOK
<1> QED BY TypeInit, TypeStep, GatheredInit, GatheredStep, <1>1, PTL DEF Spec

-----------------------------------------------------------------------------
(* Reports make sense *)

\* What a receiver that has stopped leaves in a report the worker has not finished.
Received(r, why) ==
    /\ r.connected
    /\ r.recvd # MsgsPerConn =>
          /\ FiledUnder(r) = "serverErrs" => why = "error"
          /\ FiledUnder(r) = "stopRecvReasons" => why = "disconnect"
    /\ r.serverErr => why = "error"
    /\ r.recvd = MsgsPerConn => why = "enough"

\* How far a report has come, by where its worker and its receiver stand.
Progress(w) ==
    /\ wpc[w] \in {"dial", "signalErr"} => tres[w] = NewTestResults
    /\ wpc[w] \in {"signal", "ready", "uuid"} =>
          tres[w] = [NewTestResults EXCEPT !.connected = TRUE]
    /\ rpc[w] = "run" =>
          tres[w].connected /\ ~tres[w].stopRecvReason /\ ~tres[w].serverErr
    /\ rpc[w] = "done" /\ wpc[w] \in {"send", "wait"} => Received(tres[w], ended[w])
    /\ wpc[w] = "report" \/ w \in testChan \cup collected => Complete(tres[w], ended[w])

InProgress == \A w \in Workers : Progress(w)

\* A worker that could not connect, or got no UUID, leaves a complete report.
LEMMA CompleteEarly ==
    ASSUME NEW up, up = [NewTestResults EXCEPT !.connected = TRUE]
    PROVE  /\ up.connected /\ ~up.stopRecvReason /\ ~up.serverErr
           /\ \A why : Complete(NewTestResults, why)
           /\ Complete([up EXCEPT !.recvErr = TRUE], "no uuid")
           /\ Complete([up EXCEPT !.stopRecvReason = TRUE], "no uuid")
BY ClientAssumption DEF Complete, FiledUnder, Passed, NewTestResults

\* What the receiver left becomes complete when the worker adds what it sent.
LEMMA CompleteLate ==
    ASSUME NEW r \in TestResults, NEW why, Received(r, why), NEW n \in 0..MsgsPerConn
    PROVE  Complete([r EXCEPT !.sent = n, !.sendErr = (n # MsgsPerConn)], why)
BY DEF Received, Complete, FiledUnder, Passed, TestResults

\* No report has been begun at the start.
LEMMA ProgressInit == Init => InProgress
BY DEF Init, InProgress, Progress

\* Every step takes the reports one stage further or leaves them alone.
LEMMA ProgressStep == TypeInv /\ Handover /\ InProgress /\ [Next]_vars => InProgress'
<1> SUFFICES ASSUME TypeInv, Handover, InProgress, [Next]_vars, NEW v \in Workers
             PROVE  Progress(v)'
  BY DEF InProgress
<1> USE DEF Goto, chans, recvs
<1>0. /\ Progress(v)
      /\ wpc \in [Workers -> {"dial", "signal", "signalErr", "ready", "uuid", "send", "wait",
                              "report", "done"}]
      /\ rpc \in [Workers -> {"none", "run", "done"}]
      /\ tres \in [Workers -> TestResults]
      /\ ended \in [Workers -> {"not yet", "no uuid", "enough", "disconnect", "error", "failed"}]
      /\ rpc[v] = "run" => wpc[v] \in {"send", "wait"}
      /\ rpc[v] = "done" => wpc[v] \in {"send", "wait", "report", "done"}
      /\ v \in testChan \cup collected => wpc[v] = "done"
  BY DEF InProgress, TypeInv, TypeOK, Handover
<1> DEFINE up == [NewTestResults EXCEPT !.connected = TRUE]
<1>a. /\ up.connected /\ ~up.stopRecvReason /\ ~up.serverErr
      /\ \A why : Complete(NewTestResults, why)
      /\ Complete([up EXCEPT !.recvErr = TRUE], "no uuid")
      /\ Complete([up EXCEPT !.stopRecvReason = TRUE], "no uuid")
  BY CompleteEarly
<1>b. Progress(v) <=>
        /\ wpc[v] \in {"dial", "signalErr"} => tres[v] = NewTestResults
        /\ wpc[v] \in {"signal", "ready", "uuid"} => tres[v] = up
        /\ rpc[v] = "run" =>
              tres[v].connected /\ ~tres[v].stopRecvReason /\ ~tres[v].serverErr
        /\ rpc[v] = "done" /\ wpc[v] \in {"send", "wait"} => Received(tres[v], ended[v])
        /\ wpc[v] = "report" \/ v \in testChan \cup collected => Complete(tres[v], ended[v])
  BY DEF Progress
<1>c. Progress(v)' <=>
        /\ wpc'[v] \in {"dial", "signalErr"} => tres'[v] = NewTestResults
        /\ wpc'[v] \in {"signal", "ready", "uuid"} => tres'[v] = up
        /\ rpc'[v] = "run" =>
              tres'[v].connected /\ ~tres'[v].stopRecvReason /\ ~tres'[v].serverErr
        /\ rpc'[v] = "done" /\ wpc'[v] \in {"send", "wait"} => Received(tres'[v], ended'[v])
        /\ wpc'[v] = "report" \/ v \in testChan' \cup collected' => Complete(tres'[v], ended'[v])
  BY DEF Progress
<1> HIDE DEF up
<1>1. ASSUME NEW w \in Workers, DialOK(w) \/ DialFails(w) \/ NewConfigFails(w)
      PROVE  Progress(v)'
  <2>1. tres[w] = NewTestResults
    BY <1>1 DEF DialOK, DialFails, NewConfigFails, InProgress, Progress
  <2>2. tres' = tres \/ (tres' = [tres EXCEPT ![w] = up] /\ wpc'[w] # "report")
    BY <1>1, <2>1, <1>0 DEF DialOK, DialFails, NewConfigFails, Begun, up
  <2>3. CASE v = w
    BY <1>0, <1>1, <1>a, <1>b, <1>c, <2>1, <2>3
       DEF DialOK, DialFails, NewConfigFails, Over, Begun, up
  <2>4. CASE v # w
    BY <1>0, <1>1, <1>b, <1>c, <2>2, <2>4 DEF DialOK, DialFails, NewConfigFails
  <2> QED BY <2>3, <2>4
<1>2. ASSUME NEW w \in Workers, Signal(w) \/ Ready(w) PROVE Progress(v)'
  <2>1. CASE v = w
    <3>1. Complete(NewTestResults, ended'[v])
      BY <1>a
    <3>2. CASE wpc[w] = "signal" \/ wpc[w] = "ready"
      BY <1>0, <1>2, <1>b, <1>c, <2>1, <3>2 DEF Signal, Ready, Begun
    <3>3. CASE wpc[w] = "signalErr"
      BY <1>0, <1>2, <1>b, <1>c, <2>1, <3>1, <3>3 DEF Signal, Ready, Over
    <3> QED BY <1>2, <3>2, <3>3 DEF Signal, Ready
  <2>2. CASE v # w
    BY <1>0, <1>2, <1>b, <1>c, <2>2 DEF Signal, Ready
  <2> QED BY <2>1, <2>2
<1>3. ASSUME NEW w \in Workers, GetUUID(w) \/ GetUUIDFails(w) PROVE Progress(v)'
  <2>1. tres[w] = up
    BY <1>3 DEF GetUUID, GetUUIDFails, InProgress, Progress, up
  <2>2. \/ tres' = tres
        \/ tres' = [tres EXCEPT ![w] = [up EXCEPT !.recvErr = TRUE]]
        \/ tres' = [tres EXCEPT ![w] = [up EXCEPT !.stopRecvReason = TRUE]]
    BY <1>0, <1>3, <2>1 DEF GetUUID, GetUUIDFails
  <2>3. CASE GetUUID(w)
    BY <1>0, <1>a, <1>b, <1>c, <2>1, <2>3 DEF GetUUID
  <2>4. CASE GetUUIDFails(w) /\ v = w
    <3>1. Complete(tres'[v], ended'[v])
      BY <1>0, <1>a, <2>1, <2>4 DEF GetUUIDFails
    <3> QED BY <1>0, <1>c, <2>4, <3>1 DEF GetUUIDFails
  <2>5. CASE GetUUIDFails(w) /\ v # w
    BY <1>0, <1>b, <1>c, <2>2, <2>5 DEF GetUUIDFails
  <2> QED BY <1>3, <2>3, <2>4, <2>5
<1>4. ASSUME NEW w \in Workers, Send(w) \/ SendEnds(w) \/ SendFails(w) PROVE Progress(v)'
  BY <1>0, <1>4 DEF Send, SendEnds, SendFails, Sent, Progress
<1>5. ASSUME NEW w \in Workers, Finish(w) PROVE Progress(v)'
  <2>1. sent[w] \in 0..MsgsPerConn /\ Received(tres[w], ended[w])
    BY <1>5 DEF Finish, InProgress, Progress, TypeInv, TypeOK
  <2>2. Complete([tres[w] EXCEPT !.sent = sent[w], !.sendErr = (sent[w] # MsgsPerConn)],
                  ended[w])
    BY <1>0, <2>1, CompleteLate
  <2>3. tres' = [tres EXCEPT ![w] =
                    [tres[w] EXCEPT !.sent = sent[w], !.sendErr = (sent[w] # MsgsPerConn)]]
    BY <1>0, <1>5 DEF Finish, Finished
  <2> QED BY <1>0, <1>5, <2>2, <2>3 DEF Finish, Progress
<1>6. ASSUME NEW w \in Workers, Report(w) PROVE Progress(v)'
  BY <1>0, <1>6 DEF Report, Progress
<1>7. ASSUME NEW w \in Workers, RecvOwn(w) \/ RecvOther(w) PROVE Progress(v)'
  <2>1. PICK r \in Decoded(w) : tres' = [tres EXCEPT ![w] = r]
    BY <1>7 DEF RecvOwn, RecvOther
  <2>2. r.connected = tres[w].connected /\ r.stopRecvReason = tres[w].stopRecvReason
        /\ r.serverErr = tres[w].serverErr
    BY <1>0 DEF Decoded, TestResults
  <2> QED BY <1>0, <1>7, <2>1, <2>2 DEF RecvOwn, RecvOther, Receiving, Progress
<1>8. ASSUME NEW w \in Workers, RecvStops(w) PROVE Progress(v)'
  <2>1. /\ recvd[w] \in 0..MsgsPerConn /\ tres[w] \in TestResults /\ rpc[w] = "run"
        /\ tres[w].connected /\ ~tres[w].stopRecvReason /\ ~tres[w].serverErr
    BY <1>8 DEF RecvStops, RecvDisconnect, RecvError, RecvFails, RecvEnds, Receiving,
                InProgress, Progress, TypeInv, TypeOK
  <2>2. PICK r, why : StopRecv(w, r, why) /\ Received([r EXCEPT !.recvd = recvd[w]], why)
    <3>1. \A r \in Decoded(w) : /\ r \in TestResults /\ r.connected
                                /\ ~r.stopRecvReason /\ ~r.serverErr
      BY <2>1 DEF Decoded, TestResults
    <3>2. CASE RecvDisconnect(w)
      <4>1. PICK r \in Decoded(w) :
                StopRecv(w, [r EXCEPT !.stopRecvReason = TRUE], "disconnect")
        BY <3>2 DEF RecvDisconnect
      <4>2. Received([[r EXCEPT !.stopRecvReason = TRUE] EXCEPT !.recvd = recvd[w]], "disconnect")
        BY <2>1, <3>1, <3>2 DEF RecvDisconnect, Receiving, Received, FiledUnder, TestResults
      <4> QED BY <4>1, <4>2
    <3>3. CASE RecvError(w)
      <4>1. PICK r \in Decoded(w), said \in BOOLEAN :
                StopRecv(w, [r EXCEPT !.serverErr = said], "error")
        BY <3>3 DEF RecvError
      <4>2. Received([[r EXCEPT !.serverErr = said] EXCEPT !.recvd = recvd[w]], "error")
        BY <2>1, <3>1, <3>3 DEF RecvError, Receiving, Received, FiledUnder, TestResults
      <4> QED BY <4>1, <4>2
    <3>4. CASE RecvFails(w)
      <4>1. Received([[tres[w] EXCEPT !.recvErr = TRUE] EXCEPT !.recvd = recvd[w]], "failed")
        BY <2>1, <3>4 DEF RecvFails, Receiving, Received, FiledUnder, TestResults
      <4> QED BY <3>4, <4>1 DEF RecvFails
    <3>5. CASE RecvEnds(w)
      <4>1. Received([tres[w] EXCEPT !.recvd = recvd[w]], "enough")
        BY <2>1, <3>5 DEF RecvEnds, Received, FiledUnder, TestResults
      <4> QED BY <3>5, <4>1 DEF RecvEnds
    <3> QED BY <1>8, <3>2, <3>3, <3>4, <3>5 DEF RecvStops
  <2> QED BY <1>0, <2>1, <2>2 DEF StopRecv, Progress
<1>9. ASSUME NEW w \in Workers, TakeSignal(w) \/ Collect(w) PROVE Progress(v)'
  BY <1>0, <1>9 DEF TakeSignal, Collect, Progress
<1>10. CASE Start \/ MainEnds
  BY <1>0, <1>10 DEF Start, MainEnds, Progress
<1>11. CASE UNCHANGED vars
  BY <1>0, <1>11 DEF vars, Progress
<1> QED BY <1>1, <1>2, <1>3, <1>4, <1>5, <1>6, <1>7, <1>8, <1>9, <1>10, <1>11
        DEF Next, MainStep, WorkerStep, RecvStep

\* Whatever the server does and however many messages are asked for, none included, what
\* runTest concludes from the reports it collects is what ended each connection.
THEOREM ReportsComplete == Spec => []CompleteReports
<1>1. TypeInv /\ InProgress => CompleteReports
  BY DEF InProgress, Progress, CompleteReports, TypeInv, TypeOK
<1> QED BY TypeInit, TypeStep, HandoverInit, HandoverStep, ProgressInit, ProgressStep, <1>1,
           PTL DEF Spec

=============================================================================
