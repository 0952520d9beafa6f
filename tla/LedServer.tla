------------------------------- MODULE LedServer -------------------------------
(***************************************************************************)
(* The program: the gRPC thread and its handlers next to the main thread,  *)
(* from `main` to its exit.                                                *)
(***************************************************************************)
EXTENDS GrpcServer, Worker

VARIABLE exit   \* the exit status of the process

vars == <<channelVars, grpcVars, workerVars, exit>>

TypeOK ==
    /\ ChannelTypeOK
    /\ GrpcTypeOK
    /\ WorkerTypeOK
    /\ exit \in {"running", "success", "failure"}

Init ==
    /\ ChannelInit
    /\ GrpcInit
    /\ WorkerInit
    /\ exit = "running"

\* main joins the gRPC thread and returns its error, or else the worker's.
Join ==
    /\ Step("join", "done")
    /\ grpc = "ended"
    /\ exit' = IF grpcResult = "err" \/ workerResult = "err" THEN "failure" ELSE "success"
    /\ UNCHANGED <<result, workerResult>>
    /\ UNCHANGED <<requestVars, eyecatchVars, screenVars, showVars>>
    /\ UNCHANGED channelVars /\ UNCHANGED grpcVars

Grpc == GrpcNext /\ UNCHANGED workerVars /\ UNCHANGED exit

Main == WorkerNext /\ UNCHANGED grpcVars /\ UNCHANGED exit

\* The process has exited: nothing happens any more.
Exited == exit # "running" /\ UNCHANGED vars

Next == Grpc \/ Main \/ Join \/ Exited

\* The operating system runs every thread that can run, tokio polls every handler
\* that has begun, and time advances. Signals, calls of clients and the end of a
\* display owe nobody a step.
Fairness ==
    /\ WF_vars(GrpcThread /\ UNCHANGED workerVars /\ UNCHANGED exit)
    /\ \A r \in Requests : WF_vars(Finish(r) /\ UNCHANGED workerVars /\ UNCHANGED exit)
    /\ WF_vars(WorkerThread /\ UNCHANGED grpcVars /\ UNCHANGED exit)
    /\ WF_vars(DeadlinePasses /\ UNCHANGED grpcVars /\ UNCHANGED exit)
    /\ WF_vars(Join)

Spec == Init /\ [][Next]_vars

FairSpec == Spec /\ Fairness
-----------------------------------------------------------------------------
(* Safety.                                                                 *)

\* No admitted request is lost, duplicated or reported twice: a client was told
\* "queued" exactly for the requests that are in the queue, in the worker's
\* hands, or at an end, and each is in one of these places (service.rs
\* try_send, run_loop's recv_timeout, the drop of the receiver).
Accounted ==
    /\ \A i, j \in DOMAIN queue : queue[i] = queue[j] => i = j
    /\ cur \notin Queued
    /\ \A r \in Queued \cup {cur} : r # None => outcome[r] = "none"
    /\ \A r \in Requests :
         rpc[r] = "OK" <=> r \in Queued \/ r = cur \/ outcome[r] # "none"

\* The exit status tells systemd the truth whichever thread stopped first and
\* whatever else went wrong meanwhile: success exactly when the server was
\* bound, the display created, WORKER_TIMEOUT usable and every clear of run_loop
\* a success (main's error precedence).
ExitStatusHonest == exit # "running" => (exit = "success" <=> faults = {})

\* When main returns, both threads have let go: the flag is set, no handler is
\* half way through send_image, no queue is left that an answer could refer to.
ExitMeansQuiescent ==
    exit # "running" =>
        shutdown /\ ~receiver /\ ~senders /\ queue = <<>> /\ ~HandlerRunning

\* The panel is dark whenever the worker waits for a request, and the LED matrix
\* is dark when the program has exited (worker.rs: "Clear on success, timeout,
\* decode failure, and shutdown"). The emulator's window is gone by then.
PanelDark ==
    wpc = "recv" \/ (exit # "running" /\ ~HasWindow) => panel = "dark"

\* A usable eye-catch is never given up because the first request was
\* interrupted while it was being decoded (eyecatch_loaded in process_request).
EyecatchKept == loaded /\ EyecatchFile = "good" => frames

\* After a shutdown or the request's deadline at most one more frame of the
\* request is rendered, the eye-catch included, whatever the display mode.
AtMostOneLateFrame == late <= 1

-----------------------------------------------------------------------------
(* Action properties.                                                      *)

Ends(r) == outcome[r] = "none" /\ outcome'[r] # "none"

\* The logged reason names what happened: a timeout is logged only past the
\* deadline (or for a GIF whose duration was over before its first frame), a
\* shutdown only while shutting down, and work that stopped for either is never
\* an error, even when a decoder hid the stop in its own error (run_loop's match).
ReasonsHonest ==
    [][\A r \in Requests : Ends(r) =>
         /\ outcome'[r] = "worker_timeout" => expired \/ (r \in Gifs /\ elapsed)
         /\ outcome'[r] = "shutdown" => shutdown
         /\ outcome'[r] = "error" => result \notin {"stopped", "decoderStop"}]_vars

\* A request with scroll_cycles that is logged as completed was displayed to
\* its end: the deadline never turns into a completion (cycles_satisfied).
CyclesShownInFull ==
    [][\A r \in Cycles : Ends(r) /\ outcome'[r] = "completed" => elapsed]_vars

\* The same for GIFs, which the README promises: "Interrupted or failed work uses
\* `worker_timeout`, `shutdown`, or `error`".
GifsShownInFull ==
    [][\A r \in Gifs : Ends(r) /\ outcome'[r] = "completed" => elapsed]_vars

-----------------------------------------------------------------------------
(* Liveness.                                                               *)

\* Whatever begins the end on either thread (a signal, a failed bind, a closed
\* window, a dead display) ends the process, with clients still connected.
StopLeadsToExit ==
    shutdown \/ grpcResult = "err" \/ window = "closed" \/ wpc \in Leaving
        ~> exit # "running"

\* An admitted request is ended or discarded, even if its display never ends by
\* itself and others are ahead of it: the deadline frees the worker.
AdmittedIsResolved ==
    \A r \in Requests : rpc[r] = "OK" ~> outcome[r] # "none"

-----------------------------------------------------------------------------
(* What the program promises its clients.                                  *)

\* Accepted and not begun: the queue, after the request that has been received
\* but not begun (or never will be).
AbsWaiting == IF cur # None /\ wpc \notin Processing THEN <<cur>> \o queue ELSE queue

AbsShowing == IF wpc \in Processing THEN cur ELSE None

AbsStatus == [r \in Requests |->
    IF rpc[r] \in {"unsent", "checked"} THEN "new"
    ELSE IF rpc[r] # "OK" THEN "refused"
    ELSE IF outcome[r] = "none" THEN "accepted"
    ELSE IF outcome[r] = "discarded" THEN "dropped" ELSE "ended"]

AbsClosing == shutdown \/ wpc \in Leaving

Service == INSTANCE DisplayService WITH
    waiting <- AbsWaiting, showing <- AbsShowing, status <- AbsStatus,
    closing <- AbsClosing, down <- ~receiver

\* The two threads implement the service its clients see.
ImplementsService == Service!Spec
=============================================================================
