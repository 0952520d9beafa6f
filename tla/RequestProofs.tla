----------------------------- MODULE RequestProofs -----------------------------
(***************************************************************************)
(* Theorems about what becomes of each request, and the refinement of the  *)
(* service its clients see, for any set of requests, any capacity, either  *)
(* backend and any eye-catch.                                              *)
(***************************************************************************)
EXTENDS LedServerProofs

USE CapacityAssumption, MalformedAssumption, KindsAssumption

-----------------------------------------------------------------------------
(* Admitted requests.                                                      *)

\* Unfolds Queued, on which the queue operations are stated below.
LEMMA QueuedInRequests ==
    ASSUME TypeOK PROVE Queued \subseteq Requests
BY DEF TypeOK, ChannelTypeOK, Queued

\* Steps that leave the queue, the worker's hands, the answers and the outcomes
\* alone leave the account alone.
LEMMA AccountedFrame ==
    ASSUME Accounted, UNCHANGED <<queue, cur, outcome, rpc>>
    PROVE  Accounted'
BY DEF Accounted, Queued

\* A handler decides, and its request is admitted or it is not.
LEMMA HandlerAccounted ==
    ASSUME TypeOK, Accounted, UNCHANGED workerVars,
           NEW r \in Requests, SendImage(r) \/ Finish(r)
    PROVE  Accounted'
<1> USE DEF TypeOK, ChannelTypeOK, GrpcTypeOK, WorkerTypeOK
<1> UNCHANGED <<cur, outcome>> BY DEF workerVars
<1>1. rpc[r] \in {"unsent", "checked"}
  BY DEF SendImage, Finish, Reject, Submit
<1>2. CASE rpc'[r] # "OK" /\ UNCHANGED queue
  <2>1. \A s \in Requests : s # r => rpc'[s] = rpc[s]
    BY DEF SendImage, Finish, Reject, Submit, Answer
  <2>2. QED BY <1>1, <1>2, <2>1 DEF Accounted, Queued
<1>3. CASE rpc' = [rpc EXCEPT ![r] = "OK"] /\ queue' = Append(queue, r)
  <2>1. /\ DOMAIN queue' = DOMAIN queue \cup {Len(queue) + 1}
        /\ Len(queue) + 1 \notin DOMAIN queue
        /\ queue'[Len(queue) + 1] = r
        /\ \A i \in DOMAIN queue : queue'[i] = queue[i]
    BY <1>3
  <2>2. Queued' = Queued \cup {r}
    BY <2>1 DEF Queued
  <2>3. r \notin Queued /\ r # cur /\ outcome[r] = "none"
    BY <1>1 DEF Accounted
  <2>4. \A i, j \in DOMAIN queue' : queue'[i] = queue'[j] => i = j
    BY <2>1, <2>3 DEF Accounted, Queued
  <2>5. \A s \in Requests : rpc'[s] = IF s = r THEN "OK" ELSE rpc[s]
    BY <1>3
  <2>6. QED BY <2>2, <2>3, <2>4, <2>5 DEF Accounted
<1>4. QED
  BY <1>2, <1>3 DEF SendImage, Finish, Reject, Submit, Answer, TrySend, channelVars

\* The worker takes the oldest request out of the queue into its hands.
LEMMA ReceiveAccounted ==
    ASSUME TypeOK, HoldInv, Accounted, UNCHANGED rpc,
           NEW r \in Requests, ReceiveRequest(r)
    PROVE  HoldInv' /\ Accounted'
<1> USE DEF TypeOK, ChannelTypeOK, WorkerTypeOK
<1>1. /\ wpc = "recv" /\ wpc' = "received" /\ cur' = r /\ outcome' = outcome
      /\ queue # <<>> /\ r = queue[1] /\ queue' = Tail(queue)
  BY DEF ReceiveRequest, Receive, Step
<1>2. cur = None BY <1>1 DEF HoldInv
<1>3. /\ 1 \in DOMAIN queue
      /\ \A i \in DOMAIN queue' : i + 1 \in DOMAIN queue /\ queue'[i] = queue[i + 1]
      /\ \A i \in DOMAIN queue : i # 1 => i - 1 \in DOMAIN queue'
      /\ DOMAIN queue' \subseteq Nat \ {0} /\ DOMAIN queue \subseteq Nat \ {0}
  BY <1>1
<1>4. r \in Queued /\ r \notin Queued' /\ Queued = Queued' \cup {r}
  <2>1. r \notin Queued'
    BY <1>1, <1>3 DEF Accounted, Queued
  <2>2. Queued' \subseteq Queued
    BY <1>3 DEF Queued
  <2>3. ASSUME NEW s \in Queued, s # r PROVE s \in Queued'
    <3>1. PICK i \in DOMAIN queue : s = queue[i] BY <2>3 DEF Queued
    <3>2. i # 1 BY <1>1, <2>3, <3>1
    <3>3. i - 1 \in DOMAIN queue' /\ queue'[i - 1] = queue[i] BY <1>3, <3>2
    <3>4. QED BY <3>1, <3>3 DEF Queued
  <2>4. r \in Queued BY <1>1, <1>3 DEF Queued
  <2>5. QED BY <2>1, <2>2, <2>3, <2>4
<1>5. \A i, j \in DOMAIN queue' : queue'[i] = queue'[j] => i = j
  BY <1>3 DEF Accounted
<1>6. Accounted'
  BY <1>1, <1>2, <1>4, <1>5 DEF Accounted
<1>7. HoldInv'
  BY <1>1 DEF HoldInv, Processing, Displaying
<1>8. QED BY <1>6, <1>7

\* A request in the worker's hands ends.
LEMMA EndAccounted ==
    ASSUME TypeOK, HoldInv, Accounted, UNCHANGED rpc, Settle \/ Report
    PROVE  HoldInv' /\ Accounted'
<1> USE DEF TypeOK, ChannelTypeOK, GrpcTypeOK, WorkerTypeOK
<1>1. cur \in Requests /\ UNCHANGED queue
  BY DEF HoldInv, Settle, Report, Step, Processing, channelVars
<1>2. CASE UNCHANGED <<cur, outcome>>
  <2>1. wpc' = "report"
    BY <1>1, <1>2 DEF Settle, Report, Step
  <2>2. QED
    BY <1>1, <1>2, <2>1, AccountedFrame DEF HoldInv, Processing, Displaying
<1>3. CASE cur' = None /\ \E o \in Outcomes : outcome' = [outcome EXCEPT ![cur] = o]
  <2>1. \A r \in Requests : outcome'[r] # "none" <=> r = cur \/ outcome[r] # "none"
    BY <1>1, <1>3 DEF Outcomes
  <2>2. Queued' = Queued BY <1>1 DEF Queued
  <2>3. Accounted'
    BY <1>1, <1>3, <2>1, <2>2, QueuedInRequests DEF Accounted
  <2>4. wpc' \in {"guard", "final", "loop"}
    BY <1>1, <1>3 DEF Settle, Report, Step
  <2>5. HoldInv' BY <1>3, <2>4 DEF HoldInv, Processing, Displaying
  <2>6. QED BY <2>3, <2>5
<1>4. QED
  BY <1>2, <1>3 DEF Settle, Report, Clear, Outcomes, Reason

\* The receiver takes every request it still holds with it.
LEMMA DropAccounted ==
    ASSUME TypeOK, HoldInv, Accounted, UNCHANGED rpc, DropReceiver
    PROVE  HoldInv' /\ Accounted'
<1> USE DEF TypeOK, ChannelTypeOK, GrpcTypeOK, WorkerTypeOK
<1>1. wpc' = "cancel" /\ cur' = None /\ queue' = <<>>
  BY DEF DropReceiver, Step
<1>2. \A r \in Requests :
        outcome'[r] = IF r \in Queued \/ r = cur THEN "discarded" ELSE outcome[r]
  BY DEF DropReceiver
<1>3. Queued' = {} BY <1>1 DEF Queued
<1>4. Accounted' BY <1>1, <1>2, <1>3 DEF Accounted, Queued
<1>5. HoldInv' BY <1>1 DEF HoldInv, Processing, Displaying
<1>6. QED BY <1>4, <1>5

\* The account of the admitted requests survives every step.
LEMMA AccountedStep ==
    ASSUME TypeOK, HoldInv, Accounted, Next
    PROVE  HoldInv' /\ Accounted'
<1>1. CASE Grpc
  <2>1. UNCHANGED workerVars BY <1>1 DEF Grpc
  <2>2. HoldInv' BY <2>1 DEF HoldInv, workerVars
  <2>3. CASE GrpcThread \/ Signal
    <3>1. UNCHANGED <<queue, rpc>>
      BY <2>3 DEF GrpcThread, GrpcServe, GrpcFails, ObserveShutdown, Drained, DrainTimeout,
                  GrpcGuardDrops, GrpcEnds, Signal, grpcVars, channelVars
    <3>2. QED BY <2>1, <2>2, <3>1, AccountedFrame DEF workerVars
  <2>4. QED
    BY <1>1, <2>1, <2>2, <2>3, HandlerAccounted DEF Grpc, GrpcNext
<1>2. CASE Main
  <2>1. UNCHANGED rpc BY <1>2 DEF Main, grpcVars
  <2>2. CASE ProcessRequest \/ DeadlinePasses \/ DisplayEnds
    <3>1. /\ UNCHANGED <<queue, cur, outcome>>
          /\ wpc \in Processing /\ wpc' \in Processing
      BY <2>2, ProcessRequestFrame, TimeFrame
    <3>2. HoldInv' BY <3>1 DEF HoldInv, Processing, Displaying
    <3>3. QED BY <2>1, <3>1, <3>2, AccountedFrame
  <2>3. CASE \E r \in Requests : ReceiveRequest(r)
    BY <2>1, <2>3, ReceiveAccounted
  <2>4. CASE Settle \/ Report BY <2>1, <2>4, EndAccounted
  <2>5. CASE DropReceiver BY <2>1, <2>5, DropAccounted
  <2>6. CASE \/ CreateDisplay \/ CreateFails \/ LoopHead \/ Poll \/ ReceiveNothing
             \/ Begin \/ TimeoutOverflows \/ FinalClear \/ GuardDrops \/ MainCancels
    <3> USE DEF CreateDisplay, CreateFails, LoopHead, Poll, ReceiveNothing, Begin,
                TimeoutOverflows, FinalClear, GuardDrops, MainCancels
    <3>1. UNCHANGED <<queue, cur, outcome>>
      BY <2>6 DEF channelVars, requestVars
    <3>2. HoldInv'
      BY <2>6, <3>1 DEF HoldInv, Step, Processing, Displaying
    <3>3. QED BY <2>1, <3>1, <3>2, AccountedFrame
  <2>7. QED
    BY <1>2, <2>2, <2>3, <2>4, <2>5, <2>6 DEF Main, WorkerNext, WorkerThread, RunLoop
<1>3. CASE Join
  <2>1. UNCHANGED <<queue, cur, outcome, rpc>>
    BY <1>3 DEF Join, channelVars, grpcVars, requestVars
  <2>2. HoldInv' BY <1>3, <2>1 DEF HoldInv, Join, Step, Processing, Displaying
  <2>3. QED BY <2>1, <2>2, AccountedFrame
<1>4. CASE Exited
  BY <1>4, AccountedFrame
  DEF Exited, vars, channelVars, grpcVars, workerVars, HoldInv
<1>5. QED BY <1>1, <1>2, <1>3, <1>4 DEF Next

\* The account of the admitted requests is kept in every behaviour.
LEMMA AlwaysAccounted == Spec => [](HoldInv /\ Accounted)
<1>1. Init => HoldInv /\ Accounted
  <2> SUFFICES ASSUME Init PROVE HoldInv /\ Accounted
    OBVIOUS
  <2> USE DEF Init, ChannelInit, GrpcInit, WorkerInit
  <2>1. HoldInv BY DEF HoldInv, Processing, Displaying
  <2>2. Queued = {} BY DEF Queued
  <2>3. Accounted BY <2>2 DEF Accounted, Queued
  <2>4. QED BY <2>1, <2>3
<1>2. TypeOK /\ HoldInv /\ Accounted /\ [Next]_vars => HoldInv' /\ Accounted'
  <2>1. ASSUME HoldInv, Accounted, UNCHANGED vars PROVE HoldInv' /\ Accounted'
    BY <2>1, AccountedFrame DEF vars, channelVars, grpcVars, workerVars, HoldInv
  <2>2. QED BY <2>1, AccountedStep
<1>3. QED BY <1>1, <1>2, TypeCorrect, PTL DEF Spec

\* A client is told "queued" exactly for the requests that are waiting, being
\* processed or at an end, each in one of these places and once.
THEOREM AdmittedIsAccounted == Spec => []Accounted
BY AlwaysAccounted, PTL

-----------------------------------------------------------------------------
(* Interruptions.                                                          *)

\* Between two requests nothing un-stops: the flag is never reset, and the
\* deadline is reset only when the next request begins.
LEMMA StopPersists ==
    ASSUME TypeOK, Next, Stop
    PROVE  Stop' \/ Begin
<1> USE DEF Stop, TypeOK, ChannelTypeOK, WorkerTypeOK
<1>1. CASE Grpc BY <1>1, GrpcFrame DEF Grpc, workerVars
<1>2. CASE Main
  <2>1. CASE ProcessRequest BY <2>1, ProcessRequestFrame
  <2>2. CASE DeadlinePasses \/ DisplayEnds BY <2>2, TimeFrame
  <2>3. CASE RunLoop
    <3>1. shutdown => shutdown' BY <2>3, RunLoopFrame
    <3>2. Begin \/ UNCHANGED expired
      BY <2>3 DEF RunLoop, CreateDisplay, CreateFails, LoopHead, Poll, ReceiveRequest,
                  ReceiveNothing, TimeoutOverflows, Settle, Report, FinalClear,
                  GuardDrops, DropReceiver, MainCancels, requestVars
    <3>3. QED BY <3>1, <3>2
  <2>4. QED BY <1>2, <2>1, <2>2, <2>3 DEF Main, WorkerNext, WorkerThread
<1>3. CASE Join BY <1>3 DEF Join, channelVars, requestVars
<1>4. CASE Exited BY <1>4 DEF Exited, vars, channelVars, workerVars
<1>5. QED BY <1>1, <1>2, <1>3, <1>4 DEF Next

\* In process_request a check always comes between a late frame and the next.
LEMMA ProcessRequestLateFrame ==
    ASSUME TypeOK, LateFrameInv, ProcessRequest
    PROVE  LateFrameInv'
<1> USE DEF LateFrameInv, TypeOK, WorkerTypeOK, Step, Return, Checked, requestVars,
            eyecatchVars, screenVars, showVars
<1>1. UNCHANGED <<shutdown, expired, cur>> BY ProcessRequestFrame
<1>2. Stop' = Stop BY <1>1 DEF Stop
<1>3. CASE Start BY <1>2, <1>3 DEF Start
<1>4. CASE LoadEyecatch BY <1>2, <1>4 DEF LoadEyecatch
<1>5. CASE StartJingle BY <1>2, <1>5 DEF StartJingle
<1>6. CASE EyecatchClear BY <1>2, <1>6 DEF EyecatchClear
<1>7. CASE CheckBeforeDecode BY <1>2, <1>7 DEF CheckBeforeDecode
<1>8. CASE Decode BY <1>2, <1>8 DEF Decode
<1>9. CASE Prepare BY <1>2, <1>9 DEF Prepare, DisplayReturns
<1>10. CASE ShowLimit BY <1>1, <1>2, <1>10 DEF ShowLimit, DisplayReturns, Animated
<1>11. CASE ShowCheck BY <1>1, <1>2, <1>11 DEF ShowCheck, DisplayReturns, Animated
<1>12. CASE Render
  <2>1. late = 0 BY <1>12 DEF Render
  <2>2. late' \in {0, 1} /\ (late' = 1 => Stop)
    BY <1>12, <2>1 DEF Render
  <2>3. wpc' # "render" /\ (wpc' = "limit" => Animated')
    BY <1>1, <1>12 DEF Render, DisplayReturns, Animated
  <2>4. QED BY <1>2, <2>2, <2>3
<1>13. QED
  BY <1>3, <1>4, <1>5, <1>6, <1>7, <1>8, <1>9, <1>10, <1>11, <1>12 DEF ProcessRequest

LEMMA LateFrameStep ==
    ASSUME TypeOK, LateFrameInv, Next
    PROVE  LateFrameInv'
<1> USE DEF LateFrameInv, TypeOK, WorkerTypeOK
<1>1. CASE ProcessRequest BY <1>1, ProcessRequestLateFrame
<1>2. CASE Begin BY <1>2 DEF Begin, Step
<1>3. CASE ~ProcessRequest /\ ~Begin
  <2>1. Stop => Stop' BY <1>3, StopPersists
  <2>2. CASE UNCHANGED <<wpc, late, phase, cur>>
    BY <2>1, <2>2 DEF Animated
  <2>3. CASE RunLoop
    <3>1. UNCHANGED late /\ wpc' \notin {"render", "limit"}
      BY <1>3, <2>3
      DEF RunLoop, CreateDisplay, CreateFails, LoopHead, Poll, ReceiveRequest,
          ReceiveNothing, TimeoutOverflows, Settle, Report, FinalClear, GuardDrops,
          DropReceiver, MainCancels, Step, showVars
    <3>2. QED BY <2>1, <3>1
  <2>4. CASE Join BY <2>1, <2>4 DEF Join, Step, showVars
  <2>5. QED
    BY <1>3, <2>2, <2>3, <2>4, TimeFrame
    DEF Next, Grpc, Main, WorkerNext, WorkerThread, Exited, vars, workerVars
<1>4. QED BY <1>1, <1>2, <1>3

\* What follows a late frame is kept in every behaviour.
LEMMA AlwaysLateFrame == Spec => []LateFrameInv
<1>1. Init => LateFrameInv
  BY DEF Init, WorkerInit, LateFrameInv
<1>2. TypeOK /\ LateFrameInv /\ [Next]_vars => LateFrameInv'
  <2>1. ASSUME LateFrameInv, UNCHANGED vars PROVE LateFrameInv'
    BY <2>1 DEF LateFrameInv, Stop, Animated, vars, channelVars, workerVars
  <2>2. QED BY <2>1, LateFrameStep
<1>3. QED BY <1>1, <1>2, TypeCorrect, PTL DEF Spec

\* After a shutdown or the deadline at most one more frame of the request is
\* rendered: the check after it, or before the next, ends the display.
THEOREM OneLateFrame == Spec => []AtMostOneLateFrame
<1>1. LateFrameInv => AtMostOneLateFrame
  BY DEF LateFrameInv, AtMostOneLateFrame
<1>2. QED BY <1>1, AlwaysLateFrame, PTL

-----------------------------------------------------------------------------
(* What the log says.                                                      *)

\* A result of "stopped" is made only by a check that fails.
LEMMA ProcessRequestStop ==
    ASSUME TypeOK, StopInv, ProcessRequest
    PROVE  StopInv'
<1> USE DEF StopInv, Step, Return, Checked, requestVars, eyecatchVars, screenVars, showVars
<1>1. UNCHANGED <<shutdown, expired>> BY ProcessRequestFrame
<1>2. Stop' = Stop BY <1>1 DEF Stop
<1>3. wpc' \in Processing BY ProcessRequestFrame
<1>4. wpc' \notin {"create", "loop", "poll", "recv", "received"}
  BY <1>3 DEF Processing, Displaying
<1>5. CASE Start BY <1>2, <1>4, <1>5 DEF Start
<1>6. CASE LoadEyecatch BY <1>2, <1>4, <1>6 DEF LoadEyecatch
<1>7. CASE StartJingle BY <1>2, <1>4, <1>7 DEF StartJingle
<1>8. CASE EyecatchClear BY <1>2, <1>4, <1>8 DEF EyecatchClear
<1>9. CASE CheckBeforeDecode BY <1>2, <1>4, <1>9 DEF CheckBeforeDecode
<1>10. CASE Decode BY <1>2, <1>4, <1>10 DEF Decode
<1>11. CASE Prepare
  <2>1. UNCHANGED cur BY <1>11 DEF Prepare
  <2>2. Animated /\ phase # "eyecatch" => cur \in Gifs BY DEF Animated
  <2>3. elapsed' => Animated BY <1>11 DEF Prepare
  <2>4. CASE UNCHANGED result /\ wpc' \notin {"settle", "report"}
    BY <1>2, <1>4, <1>11, <2>4 DEF Prepare, DisplayReturns
  <2>5. CASE result' # "stopped" /\ result' # "decoderStop"
    BY <1>4, <2>5
  <2>6. CASE (Stop \/ elapsed') /\ DisplayReturns("prepare", "stopped")
    BY <1>2, <1>4, <2>1, <2>2, <2>3, <2>6 DEF DisplayReturns
  <2>7. QED BY <1>11, <2>4, <2>5, <2>6 DEF Prepare, DisplayReturns
<1>12. CASE ShowLimit BY <1>2, <1>4, <1>12 DEF ShowLimit, DisplayReturns
<1>13. CASE ShowCheck BY <1>2, <1>4, <1>13 DEF ShowCheck, DisplayReturns
<1>14. CASE Render BY <1>2, <1>4, <1>14 DEF Render, DisplayReturns
<1>15. QED
  BY <1>5, <1>6, <1>7, <1>8, <1>9, <1>10, <1>11, <1>12, <1>13, <1>14
  DEF ProcessRequest

LEMMA StopStep ==
    ASSUME TypeOK, StopInv, Next
    PROVE  StopInv'
<1> USE DEF StopInv
<1>1. CASE ProcessRequest BY <1>1, ProcessRequestStop
<1>2. CASE Begin BY <1>2 DEF Begin, Step
<1>3. CASE ~ProcessRequest /\ ~Begin
  <2>1. Stop => Stop' BY <1>3, StopPersists
  <2>2. CASE UNCHANGED <<wpc, result, cur>> /\ (elapsed => elapsed') BY <2>1, <2>2
  <2>3. CASE Report BY <2>3 DEF Report
  <2>4. CASE RunLoop /\ ~Report
    <3>1. /\ UNCHANGED result
          /\ \/ wpc \in {"create", "loop", "poll", "recv", "received"}
             \/ wpc' \notin {"create", "loop", "poll", "recv", "received"}
          /\ wpc' \in {"settle", "report"} => wpc = "settle" /\ UNCHANGED <<cur, elapsed>>
      BY <1>3, <2>4
      DEF RunLoop, CreateDisplay, CreateFails, LoopHead, Poll, ReceiveRequest,
          ReceiveNothing, TimeoutOverflows, Settle, FinalClear, GuardDrops,
          DropReceiver, MainCancels, Step, showVars
    <3>2. QED BY <2>1, <3>1
  <2>5. CASE Join BY <2>1, <2>5 DEF Join, Step
  <2>6. QED
    BY <1>3, <2>2, <2>3, <2>4, <2>5, TimeFrame
    DEF Next, Grpc, Main, WorkerNext, WorkerThread, DisplayEnds, DeadlinePasses, Exited,
        vars, workerVars
<1>4. QED BY <1>1, <1>2, <1>3

\* A result of "stopped" has a reason in every behaviour.
LEMMA AlwaysStop == Spec => []StopInv
<1>1. Init => StopInv
  BY DEF Init, WorkerInit, StopInv
<1>2. TypeOK /\ StopInv /\ [Next]_vars => StopInv'
  <2>1. ASSUME StopInv, UNCHANGED vars PROVE StopInv'
    BY <2>1 DEF StopInv, Stop, vars, channelVars, workerVars
  <2>2. QED BY <2>1, StopStep
<1>3. QED BY <1>1, <1>2, TypeCorrect, PTL DEF Spec

\* The logged reason names what happened, whatever the decoder made of a stop.
THEOREM HonestReasons == Spec => ReasonsHonest
<1>1. TypeOK /\ StopInv /\ [Next]_vars =>
        [\A r \in Requests : Ends(r) =>
           /\ outcome'[r] = "worker_timeout" => expired \/ (r \in Gifs /\ elapsed)
           /\ outcome'[r] = "shutdown" => shutdown
           /\ outcome'[r] = "error" => result \notin {"stopped", "decoderStop"}]_vars
  <2> SUFFICES ASSUME TypeOK, StopInv, Next, NEW r \in Requests, Ends(r)
               PROVE  /\ outcome'[r] = "worker_timeout" => expired \/ (r \in Gifs /\ elapsed)
                      /\ outcome'[r] = "shutdown" => shutdown
                      /\ outcome'[r] = "error" => result \notin {"stopped", "decoderStop"}
    OBVIOUS
  <2>1. outcome' # outcome BY DEF Ends
  <2>2. Settle \/ Report \/ DropReceiver
    BY <2>1, ProcessRequestFrame, TimeFrame
    DEF Next, Grpc, Main, WorkerNext, WorkerThread, RunLoop, Join, Exited, vars,
        workerVars, CreateDisplay, CreateFails, LoopHead, Poll, ReceiveRequest,
        ReceiveNothing, Begin, TimeoutOverflows, FinalClear, GuardDrops, MainCancels,
        requestVars
  <2>3. \/ outcome'[r] \in {"aborted", "discarded", "none"}
        \/ outcome'[r] = Reason /\ r = cur /\ wpc = "report"
    BY <2>2 DEF Settle, Report, DropReceiver, Ends, TypeOK, WorkerTypeOK, Clear, Step
  <2>4. QED BY <2>3 DEF Reason, StopInv, Stop
<1>2. QED BY <1>1, AlwaysStop, TypeCorrect, PTL DEF Spec, ReasonsHonest

-----------------------------------------------------------------------------

\* The whole inductive invariant, for every queue, backend and eye-catch: what both
\* threads know of each other between any two of their steps (main.rs:65-157,
\* worker.rs:17-161).
THEOREM InvariantHolds == Spec => []IndInv
<1>1. IndInv <=> /\ TypeOK /\ TeardownInv /\ ExitStatusInv /\ (HoldInv /\ Accounted)
                 /\ LateFrameInv /\ StopInv /\ DarkInv /\ EyecatchKept /\ CyclesInv
  BY DEF IndInv
<1>2. QED
  BY <1>1, TypeCorrect, AlwaysTeardown, AlwaysExitStatus, AlwaysAccounted, AlwaysLateFrame,
     AlwaysStop, AlwaysDark, EyecatchIsKept, AlwaysCycles, PTL

-----------------------------------------------------------------------------
(* The two threads implement the safety part of the service that their      *)
(* clients see, DisplayService.                                             *)

\* What the simulation needs to know of a state.
SimInv == TypeOK /\ TeardownInv /\ HoldInv /\ Accounted

\* The abstract state does not move.
AbsStutter == UNCHANGED <<AbsWaiting, AbsShowing, AbsStatus, AbsClosing, receiver>>

-----------------------------------------------------------------------------
(* The abstract state.                                                     *)

\* Steps that leave what is accepted alone leave the abstract queue alone.
LEMMA SameWaiting ==
    ASSUME UNCHANGED <<queue, cur>>, wpc \in Processing <=> wpc' \in Processing
    PROVE  UNCHANGED <<AbsWaiting, AbsShowing>>
BY DEF AbsWaiting, AbsShowing

LEMMA SameStatus ==
    ASSUME UNCHANGED <<rpc, outcome>>
    PROVE  UNCHANGED AbsStatus
BY DEF AbsStatus

\* A step that does nothing but, perhaps, begin the closing.
LEMMA CloseOrStutter ==
    ASSUME UNCHANGED <<AbsWaiting, AbsShowing, AbsStatus, receiver>>,
           AbsClosing => AbsClosing'
    PROVE  Service!Next \/ UNCHANGED Service!vars
<1>1. AbsClosing' \in BOOLEAN /\ AbsClosing \in BOOLEAN BY DEF AbsClosing
<1>2. CASE ~AbsClosing /\ AbsClosing'
  <2>1. Service!Close BY <1>2 DEF Service!Close
  <2>2. QED BY <2>1 DEF Service!Next
<1>3. CASE AbsClosing' = AbsClosing BY <1>3 DEF Service!vars
<1>4. QED BY <1>1, <1>2, <1>3

-----------------------------------------------------------------------------
(* The gRPC side.                                                          *)

LEMMA HandlerSimulates ==
    ASSUME SimInv, UNCHANGED workerVars, NEW r \in Requests, SendImage(r) \/ Finish(r)
    PROVE  Service!Next \/ UNCHANGED Service!vars
<1> USE DEF SimInv, TypeOK, ChannelTypeOK, GrpcTypeOK, WorkerTypeOK
<1>1. /\ rpc[r] \in {"unsent", "checked"} /\ AbsStatus[r] = "new"
      /\ UNCHANGED <<cur, wpc, outcome, shutdown, receiver>>
  BY DEF SendImage, Finish, Reject, Submit, workerVars, channelVars, AbsStatus
<1>2. UNCHANGED <<AbsShowing, AbsClosing>> BY <1>1 DEF AbsShowing, AbsClosing
<1>3. CASE rpc' = [rpc EXCEPT ![r] = "checked"] /\ UNCHANGED queue
  <2>1. UNCHANGED AbsStatus BY <1>1, <1>3 DEF AbsStatus
  <2>2. UNCHANGED AbsWaiting BY <1>1, <1>3 DEF AbsWaiting
  <2>3. QED BY <1>1, <1>2, <2>1, <2>2 DEF Service!vars
<1>4. CASE /\ UNCHANGED queue
           /\ r \in Malformed \/ Len(queue) = Capacity \/ shutdown \/ ~receiver
           /\ \E a \in Answers \ {"OK"} : rpc' = [rpc EXCEPT ![r] = a]
  <2>1. AbsStatus' = [AbsStatus EXCEPT ![r] = "refused"]
    BY <1>1, <1>4 DEF AbsStatus, Answers
  <2>2. UNCHANGED AbsWaiting BY <1>1, <1>4 DEF AbsWaiting
  <2>3. Len(queue) = Capacity => Len(AbsWaiting) >= Capacity
    BY DEF AbsWaiting
  <2>4. shutdown \/ ~receiver => AbsClosing
    BY DEF AbsClosing, TeardownInv, ReceiverGone, Leaving
  <2>5. Service!Refuse(r)
    BY <1>1, <1>2, <1>4, <2>1, <2>2, <2>3, <2>4 DEF Service!Refuse
  <2>6. QED BY <2>5 DEF Service!Next
<1>5. CASE /\ rpc' = [rpc EXCEPT ![r] = "OK"] /\ queue' = Append(queue, r)
           /\ r \notin Malformed /\ receiver /\ Len(queue) < Capacity
  <2>1. outcome[r] = "none" BY <1>1 DEF Accounted
  <2>2. AbsStatus' = [AbsStatus EXCEPT ![r] = "accepted"]
    BY <1>1, <1>5, <2>1 DEF AbsStatus
  <2>3. AbsWaiting' = Append(AbsWaiting, r) /\ Len(AbsWaiting) <= Capacity
    <3>1. CASE cur # None /\ wpc \notin Processing
      <4>1. cur \in Requests BY <3>1
      <4>2. <<cur>> \o Append(queue, r) = Append(<<cur>> \o queue, r)
        BY <4>1
      <4>3. Len(<<cur>> \o queue) = Len(queue) + 1 BY <4>1
      <4>4. QED BY <1>1, <1>5, <3>1, <4>2, <4>3 DEF AbsWaiting
    <3>2. CASE ~(cur # None /\ wpc \notin Processing)
      BY <1>1, <1>5, <3>2 DEF AbsWaiting
    <3>3. QED BY <3>1, <3>2
  <2>4. Service!Accept(r)
    BY <1>1, <1>2, <1>5, <2>2, <2>3 DEF Service!Accept
  <2>5. QED BY <2>4 DEF Service!Next
<1>6. QED
  <2>1. CASE SendImage(r)
    BY <2>1, <1>3, <1>4 DEF SendImage, Answer, Answers, channelVars
  <2>2. CASE Reject(r)
    BY <2>2, <1>4 DEF Reject, Answer, Answers, channelVars
  <2>3. CASE Submit(r)
    BY <2>3, <1>4, <1>5 DEF Submit, Answer, Answers, TrySend
  <2>4. QED BY <2>1, <2>2, <2>3 DEF Finish

-----------------------------------------------------------------------------
(* The main thread.                                                        *)

\* The received request begins, unless the service is closing.
LEMMA BeginSimulates ==
    ASSUME SimInv, UNCHANGED rpc, Begin
    PROVE  Service!Next \/ UNCHANGED Service!vars
<1> USE DEF SimInv, TypeOK, ChannelTypeOK, WorkerTypeOK, Processing, Displaying, Leaving
<1>1. /\ wpc = "received" /\ cur \in Requests /\ cur # None
      /\ wpc' = IF shutdown THEN "final" ELSE "start"
      /\ UNCHANGED <<cur, queue, shutdown, receiver, outcome>>
  BY DEF Begin, Step, HoldInv, channelVars
<1>2. UNCHANGED AbsStatus BY <1>1, SameStatus
<1>3. CASE shutdown
  BY <1>1, <1>2, <1>3, CloseOrStutter DEF AbsWaiting, AbsShowing, AbsClosing
<1>4. CASE ~shutdown
  <2>1. AbsWaiting = <<cur>> \o queue /\ AbsWaiting' = queue
    BY <1>1, <1>4 DEF AbsWaiting
  <2>2. AbsWaiting # <<>> /\ Head(AbsWaiting) = cur /\ Tail(AbsWaiting) = queue
    BY <1>1, <2>1
  <2>3. AbsShowing = None /\ AbsShowing' = cur BY <1>1, <1>4 DEF AbsShowing
  <2>4. ~AbsClosing /\ UNCHANGED AbsClosing BY <1>1, <1>4 DEF AbsClosing
  <2>5. UNCHANGED <<AbsStatus, AbsClosing, ~receiver>> BY <1>1, <1>2, <2>4
  <2>6. Service!Begin
    BY <2>1, <2>2, <2>3, <2>4, <2>5 DEF Service!Begin
  <2>7. QED BY <2>6 DEF Service!Next
<1>5. QED BY <1>3, <1>4

\* The request in progress ends, or its panel is merely cleared.
LEMMA EndSimulates ==
    ASSUME SimInv, UNCHANGED rpc, Settle \/ Report
    PROVE  Service!Next \/ UNCHANGED Service!vars
<1> USE DEF SimInv, TypeOK, ChannelTypeOK, GrpcTypeOK, WorkerTypeOK, Processing,
            Displaying, Leaving
<1>1. /\ cur \in Requests /\ cur # None /\ wpc \in Processing
      /\ UNCHANGED <<queue, shutdown, receiver>>
  BY DEF HoldInv, Settle, Report, Step, channelVars
<1>2. CASE UNCHANGED <<cur, outcome>>
  <2>1. wpc' \in Processing BY <1>1, <1>2 DEF Settle, Report, Step
  <2>2. UNCHANGED AbsClosing \/ (AbsClosing => AbsClosing')
    BY <1>1, <2>1 DEF AbsClosing
  <2>3. QED
    BY <1>1, <1>2, <2>1, <2>2, SameWaiting, SameStatus, CloseOrStutter
<1>3. CASE /\ cur' = None
           /\ \E o \in Outcomes \ {"discarded"} : outcome' = [outcome EXCEPT ![cur] = o]
  <2>1. wpc' \notin Processing BY <1>1, <1>3 DEF Settle, Report, Step
  <2>2. AbsWaiting = queue /\ AbsWaiting' = queue
    BY <1>1, <1>3, <2>1 DEF AbsWaiting
  <2>3. AbsShowing = cur /\ AbsShowing' = None BY <1>1, <2>1 DEF AbsShowing
  <2>4. AbsStatus' = [AbsStatus EXCEPT ![cur] = "ended"]
    BY <1>1, <1>3 DEF AbsStatus, Accounted, Outcomes
  <2>5. AbsClosing' \in {AbsClosing, TRUE} BY <1>1 DEF AbsClosing
  <2>6. Service!End
    BY <1>1, <2>2, <2>3, <2>4, <2>5 DEF Service!End
  <2>7. QED BY <2>6 DEF Service!Next
<1>4. QED
  BY <1>2, <1>3 DEF Settle, Report, Outcomes, Reason

\* What waits is dropped with the receiver.
LEMMA DropSimulates ==
    ASSUME SimInv, UNCHANGED rpc, DropReceiver
    PROVE  Service!Next \/ UNCHANGED Service!vars
<1> USE DEF SimInv, TypeOK, ChannelTypeOK, GrpcTypeOK, WorkerTypeOK, Processing,
            Displaying, Leaving
<1>1. /\ wpc \in {"dropRx", "earlyDrop"} /\ wpc' = "cancel"
      /\ cur' = None /\ queue' = <<>> /\ receiver' = FALSE
      /\ UNCHANGED shutdown
  BY DEF DropReceiver, Step
<1>2. receiver BY <1>1 DEF TeardownInv, ReceiverGone
<1>3. AbsClosing /\ AbsClosing' BY <1>1 DEF AbsClosing
<1>4. AbsShowing = None /\ AbsShowing' = None BY <1>1 DEF AbsShowing
<1>5. AbsWaiting' = <<>> BY <1>1 DEF AbsWaiting
<1>6. \A r \in Requests : r \in Service!Waiting <=> r \in Queued \/ r = cur
  <2>1. CASE cur = None
    BY <2>1 DEF AbsWaiting, Service!Waiting, Queued
  <2>2. CASE cur # None
    <3>1. AbsWaiting = <<cur>> \o queue BY <1>1, <2>2 DEF AbsWaiting
    <3>2. /\ DOMAIN AbsWaiting = 1 .. Len(queue) + 1
          /\ AbsWaiting[1] = cur
          /\ \A i \in DOMAIN queue : AbsWaiting[i + 1] = queue[i]
          /\ DOMAIN queue = 1 .. Len(queue) /\ Len(queue) \in Nat
      BY <2>2, <3>1
    <3>3. \A i \in DOMAIN AbsWaiting :
            i = 1 \/ (i - 1 \in DOMAIN queue /\ AbsWaiting[i] = queue[i - 1])
      BY <3>2
    <3>4. \A i \in DOMAIN queue : i + 1 \in DOMAIN AbsWaiting
      BY <3>2
    <3>5. 1 \in DOMAIN AbsWaiting BY <3>2
    <3>6. QED BY <3>2, <3>3, <3>4, <3>5 DEF Service!Waiting, Queued
  <2>3. QED BY <2>1, <2>2
<1>7. AbsStatus' = [r \in Requests |->
                      IF r \in Service!Waiting THEN "dropped" ELSE AbsStatus[r]]
  <2>1. \A r \in Requests : r \in Queued \/ r = cur => rpc[r] = "OK"
    BY DEF Accounted
  <2>2. \A r \in Requests :
          outcome'[r] = IF r \in Queued \/ r = cur THEN "discarded" ELSE outcome[r]
    BY DEF DropReceiver
  <2>3. QED BY <1>6, <2>1, <2>2 DEF AbsStatus
<1>8. Service!Drop
  BY <1>1, <1>2, <1>3, <1>4, <1>5, <1>7 DEF Service!Drop
<1>9. QED BY <1>8 DEF Service!Next

\* Receiving a request moves it to the front of nothing: it was there already.
LEMMA ReceiveSimulates ==
    ASSUME SimInv, UNCHANGED rpc, NEW r \in Requests, ReceiveRequest(r)
    PROVE  Service!Next \/ UNCHANGED Service!vars
<1> USE DEF SimInv, TypeOK, ChannelTypeOK, WorkerTypeOK, Processing, Displaying, Leaving
<1>1. /\ wpc = "recv" /\ wpc' = "received" /\ cur = None /\ cur' = r
      /\ queue # <<>> /\ r = Head(queue) /\ queue' = Tail(queue)
      /\ UNCHANGED <<shutdown, receiver, outcome>>
  BY DEF ReceiveRequest, Receive, Step, HoldInv
<1>2. AbsWaiting = queue /\ AbsWaiting' = <<r>> \o Tail(queue)
  BY <1>1 DEF AbsWaiting
<1>3. <<r>> \o Tail(queue) = queue BY <1>1
<1>4. UNCHANGED <<AbsShowing, AbsClosing>> BY <1>1 DEF AbsShowing, AbsClosing
<1>5. UNCHANGED AbsStatus BY <1>1, SameStatus
<1>6. QED BY <1>1, <1>2, <1>3, <1>4, <1>5 DEF Service!vars

-----------------------------------------------------------------------------
(* The simulation.                                                         *)

LEMMA StepSimulates ==
    ASSUME SimInv, Next
    PROVE  Service!Next \/ UNCHANGED Service!vars
<1>1. CASE Grpc
  <2>1. UNCHANGED workerVars BY <1>1 DEF Grpc
  <2>2. CASE GrpcThread \/ Signal
    <3>1. UNCHANGED <<queue, rpc, receiver>>
      BY <2>2 DEF GrpcThread, GrpcServe, GrpcFails, ObserveShutdown, Drained, DrainTimeout,
                  GrpcGuardDrops, GrpcEnds, Signal, grpcVars, channelVars
    <3>2. UNCHANGED <<AbsWaiting, AbsShowing, AbsStatus>>
      BY <2>1, <3>1, SameWaiting, SameStatus DEF workerVars
    <3>3. AbsClosing => AbsClosing'
      BY <1>1, <2>1, GrpcFrame DEF Grpc, AbsClosing, workerVars
    <3>4. QED BY <3>1, <3>2, <3>3, CloseOrStutter
  <2>3. QED BY <1>1, <2>1, <2>2, HandlerSimulates DEF Grpc, GrpcNext
<1>2. CASE Main
  <2>1. UNCHANGED rpc BY <1>2 DEF Main, grpcVars
  <2>2. CASE ProcessRequest \/ DeadlinePasses \/ DisplayEnds
    <3>1. /\ UNCHANGED <<queue, cur, outcome, shutdown, receiver>>
          /\ wpc \in Processing /\ wpc' \in Processing
      BY <2>2, ProcessRequestFrame, TimeFrame
    <3>2. AbsClosing => AbsClosing'
      BY <3>1 DEF AbsClosing, Processing, Displaying, Leaving
    <3>3. QED BY <2>1, <3>1, <3>2, SameWaiting, SameStatus, CloseOrStutter
  <2>3. CASE \E r \in Requests : ReceiveRequest(r)
    BY <2>1, <2>3, ReceiveSimulates
  <2>4. CASE Begin BY <2>1, <2>4, BeginSimulates
  <2>5. CASE Settle \/ Report BY <2>1, <2>5, EndSimulates
  <2>6. CASE DropReceiver BY <2>1, <2>6, DropSimulates
  <2>7. CASE \/ CreateDisplay \/ CreateFails \/ LoopHead \/ Poll \/ ReceiveNothing
             \/ TimeoutOverflows \/ FinalClear \/ GuardDrops \/ MainCancels
    <3> USE DEF CreateDisplay, CreateFails, LoopHead, Poll, ReceiveNothing,
                TimeoutOverflows, FinalClear, GuardDrops, MainCancels
    <3>1. UNCHANGED <<queue, cur, outcome, receiver>>
      BY <2>7 DEF channelVars, requestVars
    <3>2. wpc \notin Processing /\ wpc' \notin Processing
      BY <2>7 DEF Step, Processing, Displaying
    <3>3. wpc \in Leaving => wpc' \in Leaving
      BY <2>7 DEF Step, Leaving
    <3>4. AbsClosing => AbsClosing'
      BY <2>7, <3>3, RunLoopFrame DEF AbsClosing, RunLoop
    <3>5. QED BY <2>1, <3>1, <3>2, <3>4, SameWaiting, SameStatus, CloseOrStutter
  <2>8. QED
    BY <1>2, <2>2, <2>3, <2>4, <2>5, <2>6, <2>7 DEF Main, WorkerNext, WorkerThread, RunLoop
<1>3. CASE Join
  <2>1. /\ UNCHANGED <<queue, cur, outcome, rpc, shutdown, receiver>>
        /\ wpc = "join" /\ wpc' = "done"
    BY <1>3 DEF Join, Step, channelVars, grpcVars, requestVars
  <2>2. (wpc \in Processing <=> wpc' \in Processing) /\ (AbsClosing => AbsClosing')
    BY <2>1 DEF Processing, Displaying, AbsClosing, Leaving
  <2>3. QED BY <2>1, <2>2, SameWaiting, SameStatus, CloseOrStutter
<1>4. CASE Exited
  BY <1>4 DEF Exited, vars, channelVars, grpcVars, workerVars, Service!vars, AbsWaiting,
              AbsShowing, AbsStatus, AbsClosing
<1>5. QED BY <1>1, <1>2, <1>3, <1>4 DEF Next

\* The program implements the service: what its clients and its panel see of any
\* behaviour of the two threads is a behaviour of DisplayService.
THEOREM ImplementsSafety == Spec => Service!Safety
<1>1. Init => Service!Init
  <2> SUFFICES ASSUME Init PROVE Service!Init
    OBVIOUS
  <2> USE DEF Init, ChannelInit, GrpcInit, WorkerInit
  <2>1. AbsWaiting = <<>> /\ AbsShowing = None
    BY DEF AbsWaiting, AbsShowing, Processing, Displaying
  <2>2. AbsStatus = [r \in Requests |-> "new"] BY DEF AbsStatus
  <2>3. AbsClosing = FALSE BY DEF AbsClosing, Leaving
  <2>4. QED BY <2>1, <2>2, <2>3 DEF Service!Init
<1>2. SimInv /\ [Next]_vars => [Service!Next]_Service!vars
  <2>1. ASSUME UNCHANGED vars PROVE UNCHANGED Service!vars
    BY <2>1 DEF vars, channelVars, grpcVars, workerVars, Service!vars, AbsWaiting,
                AbsShowing, AbsStatus, AbsClosing
  <2>2. QED BY <2>1, StepSimulates
<1>3. Spec => []SimInv
  BY TypeCorrect, AlwaysTeardown, AlwaysAccounted, PTL DEF SimInv
<1>4. QED BY <1>1, <1>2, <1>3, PTL DEF Spec, Service!Safety
=============================================================================
