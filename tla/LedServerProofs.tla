---------------------------- MODULE LedServerProofs ----------------------------
(***************************************************************************)
(* Theorems about LedServer, its threads and its panel, for any set of     *)
(* requests, any capacity of the queue, either backend and any eye-catch.  *)
(***************************************************************************)
EXTENDS LedServerInv, TLAPS

USE CapacityAssumption, MalformedAssumption, KindsAssumption

-----------------------------------------------------------------------------
(* Type correctness, thread by thread.                                     *)

\* A step of the gRPC thread or of a handler keeps the types of what it touches.
LEMMA GrpcKeepsTypes ==
    ASSUME ChannelTypeOK, GrpcTypeOK, GrpcNext
    PROVE  ChannelTypeOK' /\ GrpcTypeOK'
<1> USE DEF ChannelTypeOK, GrpcTypeOK, channelVars, Faults, Answers
<1>1. CASE GrpcServe BY <1>1 DEF GrpcServe
<1>2. CASE GrpcFails BY <1>2 DEF GrpcFails
<1>3. CASE ObserveShutdown BY <1>3 DEF ObserveShutdown
<1>4. CASE Drained BY <1>4 DEF Drained
<1>5. CASE DrainTimeout BY <1>5 DEF DrainTimeout
<1>6. CASE GrpcGuardDrops BY <1>6 DEF GrpcGuardDrops, Cancel
<1>7. CASE GrpcEnds BY <1>7 DEF GrpcEnds
<1>8. CASE Signal BY <1>8 DEF Signal, Cancel, grpcVars
<1>9. ASSUME NEW r \in Requests, SendImage(r) PROVE ChannelTypeOK' /\ GrpcTypeOK'
  BY <1>9 DEF SendImage, Answer
<1>10. ASSUME NEW r \in Requests, Reject(r) PROVE ChannelTypeOK' /\ GrpcTypeOK'
  BY <1>10 DEF Reject, Answer
<1>11. ASSUME NEW r \in Requests, Submit(r) PROVE ChannelTypeOK' /\ GrpcTypeOK'
  BY <1>11 DEF Submit, Answer, TrySend
<1>12. QED
  BY <1>1, <1>2, <1>3, <1>4, <1>5, <1>6, <1>7, <1>8, <1>9, <1>10, <1>11
  DEF GrpcNext, GrpcThread, Finish

\* A step of run_loop, from the creation of the display to the last cancel.
LEMMA RunLoopKeepsTypes ==
    ASSUME ChannelTypeOK, WorkerTypeOK, RunLoop
    PROVE  ChannelTypeOK' /\ WorkerTypeOK'
<1> USE DEF ChannelTypeOK, WorkerTypeOK, channelVars, Faults, Locations, Processing,
            Displaying, Leaving, Outcomes, Step, requestVars, eyecatchVars,
            screenVars, showVars
<1>1. CASE CreateDisplay BY <1>1 DEF CreateDisplay
<1>2. CASE CreateFails BY <1>2 DEF CreateFails
<1>3. CASE LoopHead BY <1>3 DEF LoopHead
<1>4. CASE Poll BY <1>4 DEF Poll, Pump
<1>5. ASSUME NEW r \in Requests, ReceiveRequest(r) PROVE ChannelTypeOK' /\ WorkerTypeOK'
  BY <1>5 DEF ReceiveRequest, Receive
<1>6. CASE ReceiveNothing BY <1>6 DEF ReceiveNothing
<1>7. CASE Begin
  <2>1. ChannelTypeOK' BY <1>7 DEF Begin
  <2>2. wpc' \in Locations BY <1>7 DEF Begin
  <2>3. expired' \in BOOLEAN /\ late' \in Nat BY <1>7 DEF Begin
  <2>4. QED BY <1>7, <2>1, <2>2, <2>3 DEF Begin
<1>8. CASE TimeoutOverflows BY <1>8 DEF TimeoutOverflows
<1>9. CASE Settle
  <2>1. ChannelTypeOK' BY <1>9 DEF Settle, Clear, ClearFails, Pump
  <2>2. WorkerTypeOK' BY <1>9 DEF Settle, Clear, ClearFails, Pump
  <2>3. QED BY <2>1, <2>2
<1>10. CASE Report
  <2>1. ChannelTypeOK' BY <1>10 DEF Report, Reason
  <2>2. outcome' \in [Requests -> Outcomes \cup {"none"}] BY <1>10 DEF Report, Reason
  <2>3. wpc' \in Locations BY <1>10 DEF Report
  <2>4. WorkerTypeOK' BY <1>10, <2>2, <2>3 DEF Report
  <2>5. QED BY <2>1, <2>4
<1>11. CASE FinalClear
  <2>1. ChannelTypeOK' BY <1>11 DEF FinalClear, Clear, ClearFails, Pump
  <2>2. WorkerTypeOK' BY <1>11 DEF FinalClear, Clear, ClearFails, Pump
  <2>3. QED BY <2>1, <2>2
<1>12. CASE GuardDrops BY <1>12 DEF GuardDrops, Cancel
<1>13. CASE DropReceiver
  <2>1. ChannelTypeOK'
    <3>1. queue' = <<>> BY <1>13 DEF DropReceiver
    <3>2. receiver' \in BOOLEAN BY <1>13 DEF DropReceiver
    <3>3. UNCHANGED <<shutdown, senders, faults>> BY <1>13 DEF DropReceiver
    <3>4. QED BY <3>1, <3>2, <3>3
  <2>2. WorkerTypeOK' BY <1>13 DEF DropReceiver
  <2>3. QED BY <2>1, <2>2
<1>14. CASE MainCancels BY <1>14 DEF MainCancels, Cancel
<1>15. QED
  BY <1>1, <1>2, <1>3, <1>4, <1>5, <1>6, <1>7, <1>8, <1>9, <1>10, <1>11, <1>12,
     <1>13, <1>14
  DEF RunLoop

\* A step of process_request or of the display function it has called.
LEMMA ProcessRequestKeepsTypes ==
    ASSUME ChannelTypeOK, WorkerTypeOK, ProcessRequest
    PROVE  ChannelTypeOK' /\ WorkerTypeOK'
<1> USE DEF ChannelTypeOK, WorkerTypeOK, channelVars, Faults, Locations, Processing,
            Displaying, Leaving, Outcomes, Step, Return, Checked, requestVars,
            eyecatchVars, screenVars, showVars
<1>1. CASE Start BY <1>1 DEF Start
<1>2. CASE LoadEyecatch
  <2>1. ChannelTypeOK' BY <1>2 DEF LoadEyecatch, Stop
  <2>2. loaded' \in BOOLEAN /\ frames' \in BOOLEAN BY <1>2 DEF LoadEyecatch, Stop
  <2>3. wpc' \in Locations BY <1>2 DEF LoadEyecatch
  <2>4. result' \in {"none", "ok", "window", "stopped", "decoderStop", "fault"}
    BY <1>2 DEF LoadEyecatch
  <2>5. QED BY <1>2, <2>1, <2>2, <2>3, <2>4 DEF LoadEyecatch
<1>3. CASE StartJingle BY <1>3 DEF StartJingle
<1>4. CASE EyecatchClear BY <1>4 DEF EyecatchClear, Clear, ClearFails, Pump
<1>5. CASE CheckBeforeDecode BY <1>5 DEF CheckBeforeDecode
<1>6. CASE Decode BY <1>6 DEF Decode
<1>7. CASE Prepare
  <2>1. ChannelTypeOK' BY <1>7 DEF Prepare, DisplayReturns, Pump
  <2>2. elapsed' \in BOOLEAN BY <1>7 DEF Prepare
  <2>3. window' \in {"none", "open", "escape", "closed"} BY <1>7 DEF Prepare, Pump
  <2>4. wpc' \in Locations BY <1>7 DEF Prepare, DisplayReturns
  <2>5. result' \in {"none", "ok", "window", "stopped", "decoderStop", "fault"}
    BY <1>7 DEF Prepare, DisplayReturns
  <2>6. QED BY <1>7, <2>1, <2>2, <2>3, <2>4, <2>5 DEF Prepare
<1>8. CASE ShowLimit BY <1>8 DEF ShowLimit, DisplayReturns
<1>9. CASE ShowCheck BY <1>9 DEF ShowCheck, DisplayReturns
<1>10. CASE Render BY <1>10 DEF Render, DisplayReturns, Pump
<1>11. QED
  BY <1>1, <1>2, <1>3, <1>4, <1>5, <1>6, <1>7, <1>8, <1>9, <1>10 DEF ProcessRequest

\* The clock touches only expired and elapsed.
LEMMA TimeKeepsTypes ==
    ASSUME ChannelTypeOK, WorkerTypeOK, DeadlinePasses \/ DisplayEnds
    PROVE  ChannelTypeOK' /\ WorkerTypeOK'
<1> USE DEF ChannelTypeOK, WorkerTypeOK, channelVars
<1>1. CASE DeadlinePasses
  <2>1. expired' \in BOOLEAN BY <1>1 DEF DeadlinePasses
  <2>2. QED BY <1>1, <2>1 DEF DeadlinePasses
<1>2. CASE DisplayEnds
  <2>1. elapsed' \in BOOLEAN BY <1>2 DEF DisplayEnds
  <2>2. QED BY <1>2, <2>1 DEF DisplayEnds
<1>3. QED BY <1>1, <1>2

\* Every variable keeps its type, and the queue its bound, in every behaviour.
THEOREM TypeCorrect == Spec => []TypeOK
<1>1. Init => TypeOK
  <2> SUFFICES ASSUME Init PROVE TypeOK
    OBVIOUS
  <2> USE DEF Init
  <2>1. ChannelTypeOK
    <3>1. queue \in Seq(Requests) /\ Len(queue) <= Capacity BY DEF ChannelInit
    <3>2. faults \subseteq Faults BY DEF ChannelInit
    <3>3. shutdown \in BOOLEAN /\ senders \in BOOLEAN /\ receiver \in BOOLEAN
      BY Zenon DEF ChannelInit
    <3>4. QED BY <3>1, <3>2, <3>3 DEF ChannelTypeOK
  <2>2. GrpcTypeOK BY DEF GrpcInit, GrpcTypeOK
  <2>3. WorkerTypeOK BY DEF WorkerInit, WorkerTypeOK, Locations
  <2>4. QED BY <2>1, <2>2, <2>3 DEF TypeOK
<1>2. ASSUME TypeOK, [Next]_vars PROVE TypeOK'
  <2> USE <1>2 DEF TypeOK
  <2>1. CASE Grpc
    BY <2>1, GrpcKeepsTypes DEF Grpc, workerVars, WorkerTypeOK
  <2>2. CASE Main
    BY <2>2, RunLoopKeepsTypes, ProcessRequestKeepsTypes, TimeKeepsTypes
    DEF Main, WorkerNext, WorkerThread, grpcVars, GrpcTypeOK
  <2>3. CASE Join
    BY <2>3 DEF Join, Step, channelVars, grpcVars, requestVars, eyecatchVars, screenVars,
                showVars, ChannelTypeOK, GrpcTypeOK, WorkerTypeOK, Locations, Leaving
  <2>4. CASE UNCHANGED vars
    BY <2>4 DEF vars, channelVars, grpcVars, workerVars, ChannelTypeOK, GrpcTypeOK,
                WorkerTypeOK
  <2>5. QED
    BY <2>1, <2>2, <2>3, <2>4 DEF Next, Exited
<1>3. QED
  BY <1>1, <1>2, PTL DEF Spec
-----------------------------------------------------------------------------
(* What each group of steps leaves alone.                                  *)

\* process_request moves within its own locations and keeps its hands off the
\* queue, the flag, the request it works on and everything that outlives it.
LEMMA ProcessRequestFrame ==
    ASSUME ProcessRequest
    PROVE  /\ wpc \in Processing /\ wpc' \in Processing
           /\ UNCHANGED <<shutdown, queue, senders, receiver, faults>>
           /\ UNCHANGED <<cur, expired, outcome, workerResult>>
<1> USE DEF Processing, Displaying, Step, Return, Checked, channelVars, requestVars,
            eyecatchVars, screenVars, showVars
<1>1. CASE Start BY <1>1 DEF Start
<1>2. CASE LoadEyecatch BY <1>2 DEF LoadEyecatch
<1>3. CASE StartJingle BY <1>3 DEF StartJingle
<1>4. CASE EyecatchClear BY <1>4 DEF EyecatchClear
<1>5. CASE CheckBeforeDecode BY <1>5 DEF CheckBeforeDecode
<1>6. CASE Decode BY <1>6 DEF Decode
<1>7. CASE Prepare BY <1>7 DEF Prepare, DisplayReturns
<1>8. CASE ShowLimit BY <1>8 DEF ShowLimit, DisplayReturns
<1>9. CASE ShowCheck BY <1>9 DEF ShowCheck, DisplayReturns
<1>10. CASE Render BY <1>10 DEF Render, DisplayReturns
<1>11. QED
  BY <1>1, <1>2, <1>3, <1>4, <1>5, <1>6, <1>7, <1>8, <1>9, <1>10 DEF ProcessRequest

\* Time passes only while a request is being processed.
LEMMA TimeFrame ==
    ASSUME DeadlinePasses \/ DisplayEnds
    PROVE  /\ wpc \in Processing /\ wpc' = wpc
           /\ UNCHANGED <<shutdown, queue, senders, receiver, faults>>
           /\ UNCHANGED <<cur, phase, result, loaded, frames, panel, window,
                          workerResult, outcome, late>>
           /\ expired' = expired \/ expired' = TRUE
BY DEF DeadlinePasses, DisplayEnds, Processing, channelVars

\* run_loop leaves the gRPC thread's sender alone and never resets the flag.
LEMMA RunLoopFrame ==
    ASSUME RunLoop
    PROVE  /\ UNCHANGED senders
           /\ shutdown' = shutdown \/ shutdown' = TRUE
<1> USE DEF channelVars, Cancel
<1>1. CASE CreateDisplay \/ CreateFails \/ LoopHead \/ Poll \/ ReceiveNothing
  BY <1>1 DEF CreateDisplay, CreateFails, LoopHead, Poll, ReceiveNothing
<1>2. CASE \E r \in Requests : ReceiveRequest(r)
  BY <1>2 DEF ReceiveRequest
<1>3. CASE Begin \/ TimeoutOverflows \/ Settle \/ Report \/ FinalClear
  BY <1>3 DEF Begin, TimeoutOverflows, Settle, Report, FinalClear
<1>4. CASE GuardDrops \/ DropReceiver \/ MainCancels
  BY <1>4 DEF GuardDrops, DropReceiver, MainCancels
<1>5. QED BY <1>1, <1>2, <1>3, <1>4 DEF RunLoop

\* The gRPC side never resets the flag and never touches the receiver.
LEMMA GrpcFrame ==
    ASSUME GrpcNext
    PROVE  /\ shutdown' = shutdown \/ shutdown' = TRUE
           /\ UNCHANGED receiver
<1> USE DEF channelVars, Cancel
<1>1. CASE GrpcThread
  BY <1>1 DEF GrpcThread, GrpcServe, GrpcFails, ObserveShutdown, Drained, DrainTimeout,
              GrpcGuardDrops, GrpcEnds
<1>2. CASE Signal BY <1>2 DEF Signal
<1>3. ASSUME NEW r \in Requests, SendImage(r) \/ Finish(r)
      PROVE  (shutdown' = shutdown \/ shutdown' = TRUE) /\ UNCHANGED receiver
  BY <1>3 DEF SendImage, Finish, Reject, Submit
<1>4. QED BY <1>1, <1>2, <1>3 DEF GrpcNext

-----------------------------------------------------------------------------
(* The end of the program.                                                 *)

\* The order of the teardown survives every step.
LEMMA TeardownStep ==
    ASSUME TypeOK, TeardownInv, Next
    PROVE  TeardownInv'
<1> USE DEF TeardownInv, ReceiverGone
<1>1. CASE Grpc
  <2> USE <1>1 DEF Grpc, workerVars, channelVars, HandlerRunning
  <2>1. CASE GrpcServe BY <2>1 DEF GrpcServe
  <2>2. CASE GrpcFails BY <2>2 DEF GrpcFails
  <2>3. CASE ObserveShutdown BY <2>3 DEF ObserveShutdown
  <2>4. CASE Drained BY <2>4 DEF Drained
  <2>5. CASE DrainTimeout BY <2>5 DEF DrainTimeout
  <2>6. CASE GrpcGuardDrops BY <2>6 DEF GrpcGuardDrops, Cancel
  <2>7. CASE GrpcEnds BY <2>7 DEF GrpcEnds
  <2>8. CASE Signal BY <2>8 DEF Signal, Cancel, grpcVars
  <2>9. ASSUME NEW r \in Requests, SendImage(r) PROVE TeardownInv'
    BY <2>9 DEF SendImage, Connected
  <2>10. ASSUME NEW r \in Requests, Finish(r) PROVE TeardownInv'
    <3>1. grpc # "ended" /\ rpc[r] = "checked"
      BY <2>10 DEF Finish, Reject, Submit
    <3>2. UNCHANGED <<grpc, shutdown, senders, receiver>>
      BY <2>10 DEF Finish, Reject, Submit
    <3>3. ~receiver => UNCHANGED queue
      BY <2>10 DEF Finish, Reject, Submit
    <3>4. QED BY <3>1, <3>2, <3>3
  <2>11. QED
    BY <2>1, <2>2, <2>3, <2>4, <2>5, <2>6, <2>7, <2>8, <2>9, <2>10
    DEF GrpcNext, GrpcThread
<1>2. CASE Main
  <2> USE <1>2 DEF Main, grpcVars, HandlerRunning
  <2>1. CASE ProcessRequest \/ DeadlinePasses \/ DisplayEnds
    <3>1. /\ wpc \in Processing /\ wpc' \in Processing
          /\ UNCHANGED <<shutdown, queue, senders, receiver>>
      BY <2>1, ProcessRequestFrame, TimeFrame
    <3>2. wpc \notin ReceiverGone /\ wpc' \notin ReceiverGone
      BY <3>1 DEF Processing, Displaying
    <3>3. QED BY <3>1, <3>2
  <2>2. CASE RunLoop
    <3> USE DEF Step, channelVars
    <3>1. CASE CreateDisplay \/ CreateFails \/ LoopHead \/ Poll \/ ReceiveNothing
      BY <3>1 DEF CreateDisplay, CreateFails, LoopHead, Poll, ReceiveNothing
    <3>2. ASSUME NEW r \in Requests, ReceiveRequest(r) PROVE TeardownInv'
      BY <3>2 DEF ReceiveRequest, Receive
    <3>3. CASE Begin \/ TimeoutOverflows \/ Settle \/ Report \/ FinalClear
      BY <3>3 DEF Begin, TimeoutOverflows, Settle, Report, FinalClear
    <3>4. CASE GuardDrops BY <3>4 DEF GuardDrops, Cancel
    <3>5. CASE DropReceiver BY <3>5 DEF DropReceiver
    <3>6. CASE MainCancels BY <3>6 DEF MainCancels, Cancel
    <3>7. QED
      BY <2>2, <3>1, <3>2, <3>3, <3>4, <3>5, <3>6 DEF RunLoop
  <2>3. QED BY <2>1, <2>2 DEF WorkerNext, WorkerThread
<1>3. CASE Join
  BY <1>3 DEF Join, Step, channelVars, grpcVars, HandlerRunning
<1>4. CASE Exited
  BY <1>4 DEF Exited, vars, channelVars, grpcVars, workerVars, HandlerRunning
<1>5. QED BY <1>1, <1>2, <1>3, <1>4 DEF Next

\* A stuttering step changes nothing that the invariants mention.
LEMMA TeardownStutter ==
    ASSUME TeardownInv, UNCHANGED vars PROVE TeardownInv'
BY DEF TeardownInv, vars, channelVars, grpcVars, workerVars, HandlerRunning

\* The order of the teardown is kept in every behaviour.
LEMMA AlwaysTeardown == Spec => []TeardownInv
<1>1. Init => TeardownInv
  BY DEF Init, ChannelInit, GrpcInit, WorkerInit, TeardownInv, ReceiverGone
<1>2. TypeOK /\ TeardownInv /\ [Next]_vars => TeardownInv'
  BY TeardownStep, TeardownStutter
<1>3. QED BY <1>1, <1>2, TypeCorrect, PTL DEF Spec

\* When main has returned both threads have let go of everything they shared,
\* whichever of them stopped first.
THEOREM QuiescentExit == Spec => []ExitMeansQuiescent
<1>1. TeardownInv => ExitMeansQuiescent
  BY DEF TeardownInv, ExitMeansQuiescent, ReceiverGone
<1>2. QED BY <1>1, AlwaysTeardown, PTL

-----------------------------------------------------------------------------
(* The exit status.                                                        *)

\* Each thread decides its result once, and records every fatal failure in it.
LEMMA ExitStatusStep ==
    ASSUME TypeOK, TeardownInv, ExitStatusInv, Next
    PROVE  ExitStatusInv'
<1> USE DEF ExitStatusInv, Leaving
<1>1. CASE Grpc
  <2> USE <1>1 DEF Grpc, workerVars, channelVars
  <2>1. CASE GrpcServe BY <2>1 DEF GrpcServe
  <2>2. CASE GrpcFails BY <2>2 DEF GrpcFails, TeardownInv
  <2>3. CASE ObserveShutdown BY <2>3 DEF ObserveShutdown
  <2>4. CASE Drained BY <2>4 DEF Drained
  <2>5. CASE DrainTimeout BY <2>5 DEF DrainTimeout
  <2>6. CASE GrpcGuardDrops BY <2>6 DEF GrpcGuardDrops
  <2>7. CASE GrpcEnds BY <2>7 DEF GrpcEnds
  <2>8. CASE Signal BY <2>8 DEF Signal, grpcVars
  <2>9. ASSUME NEW r \in Requests, SendImage(r) \/ Finish(r) PROVE ExitStatusInv'
    BY <2>9 DEF SendImage, Finish, Reject, Submit
  <2>10. QED
    BY <2>1, <2>2, <2>3, <2>4, <2>5, <2>6, <2>7, <2>8, <2>9 DEF GrpcNext, GrpcThread
<1>2. CASE Main
  <2> USE <1>2 DEF Main, grpcVars
  <2>1. CASE ProcessRequest \/ DeadlinePasses \/ DisplayEnds
    BY <2>1, ProcessRequestFrame, TimeFrame DEF Processing, Displaying
  <2>2. CASE RunLoop
    <3> USE DEF Step, channelVars
    <3>1. CASE CreateDisplay \/ LoopHead \/ Poll \/ ReceiveNothing
      BY <3>1 DEF CreateDisplay, LoopHead, Poll, ReceiveNothing
    <3>2. CASE CreateFails BY <3>2 DEF CreateFails, TeardownInv
    <3>3. ASSUME NEW r \in Requests, ReceiveRequest(r) PROVE ExitStatusInv'
      BY <3>3 DEF ReceiveRequest
    <3>4. CASE Begin \/ Report BY <3>4 DEF Begin, Report
    <3>5. CASE TimeoutOverflows BY <3>5 DEF TimeoutOverflows, TeardownInv
    <3>6. CASE Settle BY <3>6 DEF Settle, TeardownInv
    <3>7. CASE FinalClear BY <3>7 DEF FinalClear, TeardownInv
    <3>8. CASE GuardDrops \/ DropReceiver \/ MainCancels
      BY <3>8 DEF GuardDrops, DropReceiver, MainCancels
    <3>9. QED
      BY <2>2, <3>1, <3>2, <3>3, <3>4, <3>5, <3>6, <3>7, <3>8 DEF RunLoop
  <2>3. QED BY <2>1, <2>2 DEF WorkerNext, WorkerThread
<1>3. CASE Join
  BY <1>3 DEF Join, Step, channelVars, grpcVars
<1>4. CASE Exited
  BY <1>4 DEF Exited, vars, channelVars, grpcVars, workerVars
<1>5. QED BY <1>1, <1>2, <1>3, <1>4 DEF Next

\* What decides the exit status is kept in every behaviour.
LEMMA AlwaysExitStatus == Spec => []ExitStatusInv
<1>1. Init => ExitStatusInv
  BY DEF Init, ChannelInit, GrpcInit, WorkerInit, ExitStatusInv, Leaving
<1>2. TypeOK /\ TeardownInv /\ ExitStatusInv /\ [Next]_vars => ExitStatusInv'
  <2>1. ASSUME ExitStatusInv, UNCHANGED vars PROVE ExitStatusInv'
    BY <2>1 DEF ExitStatusInv, vars, channelVars, grpcVars, workerVars
  <2>2. QED BY <2>1, ExitStatusStep
<1>3. QED BY <1>1, <1>2, TypeCorrect, AlwaysTeardown, PTL DEF Spec

\* The process reports success exactly when neither thread met a fatal failure.
THEOREM HonestExitStatus == Spec => []ExitStatusHonest
<1>1. TypeOK /\ ExitStatusInv => ExitStatusHonest
  BY DEF TypeOK, ExitStatusInv, ExitStatusHonest
<1>2. QED BY <1>1, TypeCorrect, AlwaysExitStatus, PTL

-----------------------------------------------------------------------------
(* The LED matrix is dark while nothing is displayed.                      *)

LEMMA ProcessRequestDark ==
    ASSUME DarkInv, ProcessRequest
    PROVE  DarkInv'
<1> USE DEF DarkInv, Processing, Displaying, Step, Return, Checked, requestVars,
            eyecatchVars, screenVars, showVars
<1>1. CASE Start BY <1>1 DEF Start
<1>2. CASE LoadEyecatch BY <1>2 DEF LoadEyecatch
<1>3. CASE StartJingle BY <1>3 DEF StartJingle
<1>4. CASE EyecatchClear BY <1>4 DEF EyecatchClear
<1>5. CASE CheckBeforeDecode BY <1>5 DEF CheckBeforeDecode
<1>6. CASE Decode BY <1>6 DEF Decode
<1>7. CASE Prepare BY <1>7 DEF Prepare, DisplayReturns
<1>8. CASE ShowLimit BY <1>8 DEF ShowLimit, DisplayReturns
<1>9. CASE ShowCheck BY <1>9 DEF ShowCheck, DisplayReturns
<1>10. CASE Render BY <1>10 DEF Render, DisplayReturns
<1>11. QED
  BY <1>1, <1>2, <1>3, <1>4, <1>5, <1>6, <1>7, <1>8, <1>9, <1>10 DEF ProcessRequest

LEMMA DarkStep ==
    ASSUME DarkInv, Next
    PROVE  DarkInv'
<1> USE DEF DarkInv
<1>1. CASE ProcessRequest BY <1>1, ProcessRequestDark
<1>2. CASE RunLoop
  <2> USE DEF Processing, Displaying, Step, screenVars
  <2>1. CASE Settle \/ FinalClear
    BY <2>1 DEF Settle, FinalClear, Clear, ClearFails
  <2>2. CASE \/ CreateDisplay \/ CreateFails \/ LoopHead \/ ReceiveNothing \/ Begin
             \/ TimeoutOverflows \/ Report \/ GuardDrops \/ DropReceiver \/ MainCancels
    BY <2>2 DEF CreateDisplay, CreateFails, LoopHead, ReceiveNothing, Begin,
                TimeoutOverflows, Report, GuardDrops, DropReceiver, MainCancels
  <2>3. CASE Poll BY <2>3 DEF Poll
  <2>4. CASE \E r \in Requests : ReceiveRequest(r) BY <2>4 DEF ReceiveRequest
  <2>5. QED BY <1>2, <2>1, <2>2, <2>3, <2>4 DEF RunLoop
<1>3. CASE DeadlinePasses \/ DisplayEnds BY <1>3, TimeFrame
<1>4. CASE Join BY <1>4 DEF Join, Step, screenVars, Processing, Displaying
<1>5. QED
  BY <1>1, <1>2, <1>3, <1>4
  DEF Next, Grpc, Main, WorkerNext, WorkerThread, Exited, vars, workerVars

\* Without a window the panel is dark outside the work on a request, in every behaviour.
LEMMA AlwaysDark == Spec => []DarkInv
<1>1. Init => DarkInv
  BY DEF Init, WorkerInit, DarkInv
<1>2. DarkInv /\ [Next]_vars => DarkInv'
  <2>1. ASSUME DarkInv, UNCHANGED vars PROVE DarkInv'
    BY <2>1 DEF DarkInv, vars, workerVars
  <2>2. QED BY <2>1, DarkStep
<1>3. QED BY <1>1, <1>2, PTL DEF Spec

\* On the RPi the panel is dark whenever the worker waits for a request, and when
\* the program has exited.
THEOREM RpiPanelDark == ASSUME ~HasWindow PROVE Spec => []PanelDark
<1>1. TeardownInv /\ DarkInv => PanelDark
  BY DEF TeardownInv, DarkInv, PanelDark, Processing, Displaying
<1>2. QED BY <1>1, AlwaysDark, AlwaysTeardown, PTL

-----------------------------------------------------------------------------
(* The eye-catch.                                                          *)

\* Only LoadEyecatch decides about the eye-catch, and never while interrupted.
THEOREM EyecatchIsKept == Spec => []EyecatchKept
<1>1. Init => EyecatchKept
  BY DEF Init, WorkerInit, EyecatchKept
<1>2. EyecatchKept /\ [Next]_vars => EyecatchKept'
  <2> SUFFICES ASSUME EyecatchKept, [Next]_vars PROVE EyecatchKept'
    OBVIOUS
  <2> USE DEF EyecatchKept
  <2>1. CASE LoadEyecatch BY <2>1 DEF LoadEyecatch
  <2>2. CASE ~LoadEyecatch
    <3>1. CASE ProcessRequest
      BY <2>2, <3>1 DEF ProcessRequest, Start, StartJingle, EyecatchClear,
                        CheckBeforeDecode, Decode, Prepare, ShowLimit, ShowCheck, Render,
                        eyecatchVars
    <3>2. CASE RunLoop
      BY <3>2 DEF RunLoop, CreateDisplay, CreateFails, LoopHead, Poll, ReceiveRequest,
                  ReceiveNothing, Begin, TimeoutOverflows, Settle, Report, FinalClear,
                  GuardDrops, DropReceiver, MainCancels, eyecatchVars
    <3>3. CASE DeadlinePasses \/ DisplayEnds BY <3>3, TimeFrame
    <3>4. CASE Join BY <3>4 DEF Join, eyecatchVars
    <3>5. QED
      BY <3>1, <3>2, <3>3, <3>4
      DEF Next, Grpc, Main, WorkerNext, WorkerThread, Exited, vars, workerVars
  <2>3. QED BY <2>1, <2>2
<1>3. QED BY <1>1, <1>2, PTL DEF Spec

-----------------------------------------------------------------------------
(* Completion of cycle-based displays.                                     *)

LEMMA ProcessRequestCycles ==
    ASSUME CyclesInv, ProcessRequest
    PROVE  CyclesInv'
<1> USE DEF CyclesInv, Processing, Displaying, Step, Return, Checked, requestVars,
            eyecatchVars, screenVars, showVars
<1>1. UNCHANGED cur BY ProcessRequestFrame
<1>2. CASE Start BY <1>2 DEF Start
<1>3. CASE LoadEyecatch BY <1>3 DEF LoadEyecatch
<1>4. CASE StartJingle BY <1>4 DEF StartJingle
<1>5. CASE EyecatchClear BY <1>5 DEF EyecatchClear
<1>6. CASE CheckBeforeDecode BY <1>6 DEF CheckBeforeDecode
<1>7. CASE Decode BY <1>7 DEF Decode
<1>8. CASE Prepare BY <1>8 DEF Prepare, DisplayReturns
<1>9. CASE ShowLimit BY <1>1, <1>9 DEF ShowLimit, DisplayReturns, LimitReached
<1>10. CASE ShowCheck BY <1>10 DEF ShowCheck, DisplayReturns
<1>11. CASE Render BY <1>11 DEF Render, DisplayReturns
<1>12. QED
  BY <1>2, <1>3, <1>4, <1>5, <1>6, <1>7, <1>8, <1>9, <1>10, <1>11 DEF ProcessRequest

LEMMA CyclesStep ==
    ASSUME CyclesInv, Next
    PROVE  CyclesInv'
<1> USE DEF CyclesInv
<1>1. CASE ProcessRequest BY <1>1, ProcessRequestCycles
<1>2. CASE RunLoop
  <2>1. CASE Settle BY <2>1 DEF Settle, Step, showVars
  <2>2. CASE ~Settle
    BY <1>2, <2>2 DEF RunLoop, CreateDisplay, CreateFails, LoopHead, Poll, ReceiveRequest,
                ReceiveNothing, Begin, TimeoutOverflows, Report, FinalClear, GuardDrops,
                DropReceiver, MainCancels, Step
  <2>3. QED BY <2>1, <2>2
<1>3. CASE DeadlinePasses \/ DisplayEnds
  BY <1>3 DEF DeadlinePasses, DisplayEnds
<1>4. CASE Join BY <1>4 DEF Join, Step
<1>5. QED
  BY <1>1, <1>2, <1>3, <1>4
  DEF Next, Grpc, Main, WorkerNext, WorkerThread, Exited, vars, workerVars

\* Ok for a display by cycles means they are complete, in every behaviour.
LEMMA AlwaysCycles == Spec => []CyclesInv
<1>1. Init => CyclesInv
  BY DEF Init, WorkerInit, CyclesInv
<1>2. CyclesInv /\ [Next]_vars => CyclesInv'
  <2>1. ASSUME CyclesInv, UNCHANGED vars PROVE CyclesInv'
    BY <2>1 DEF CyclesInv, vars, workerVars
  <2>2. QED BY <2>1, CyclesStep
<1>3. QED BY <1>1, <1>2, PTL DEF Spec

\* A request with scroll_cycles that is logged as completed was shown to its end,
\* however close the deadline was.
THEOREM CompletedCyclesShown == Spec => CyclesShownInFull
<1>1. TypeOK /\ CyclesInv /\ [Next]_vars =>
        [\A r \in Cycles : Ends(r) /\ outcome'[r] = "completed" => elapsed]_vars
  <2> SUFFICES ASSUME TypeOK, CyclesInv, Next, NEW r \in Cycles,
                      Ends(r), outcome'[r] = "completed"
               PROVE  elapsed
    OBVIOUS
  <2>1. outcome' # outcome BY DEF Ends
  <2>2. Settle \/ Report \/ DropReceiver
    BY <2>1, ProcessRequestFrame, TimeFrame
    DEF Next, Grpc, Main, WorkerNext, WorkerThread, RunLoop, Join, Exited, vars,
        workerVars, CreateDisplay, CreateFails, LoopHead, Poll, ReceiveRequest,
        ReceiveNothing, Begin, TimeoutOverflows, FinalClear, GuardDrops, MainCancels,
        requestVars
  <2>3. Report /\ r = cur /\ Reason = "completed"
    BY <2>2 DEF Settle, Report, DropReceiver, Ends, TypeOK, WorkerTypeOK, Clear
  <2>4. QED BY <2>3 DEF Reason, Report, Step, CyclesInv
<1>2. QED BY <1>1, AlwaysCycles, TypeCorrect, PTL DEF Spec, CyclesShownInFull
=============================================================================
