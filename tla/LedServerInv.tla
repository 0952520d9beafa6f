------------------------------ MODULE LedServerInv ------------------------------
(***************************************************************************)
(* Why LedServer is correct: each safety property, strengthened until every *)
(* step preserves it.                                                      *)
(***************************************************************************)
EXTENDS LedServer

\* The locations of the main thread that lie after the drop of the receiver.
ReceiverGone == {"cancel", "join", "done"}

\* The main thread ends last: what it has let go of, and what the gRPC thread
\* has let go of before it can be joined. Strengthens ExitMeansQuiescent.
TeardownInv ==
    /\ wpc \in ReceiverGone <=> ~receiver
    /\ ~receiver => queue = <<>>
    /\ grpc \in {"cancelled", "ended"} => shutdown
    /\ grpc = "ended" => ~senders /\ ~HandlerRunning
    /\ exit # "running" <=> wpc = "done"
    /\ exit # "running" => grpc = "ended"

\* Each thread's result is decided once, and is an error exactly when something
\* fatal happened to the thread. Strengthens ExitStatusHonest.
ExitStatusInv ==
    /\ grpc \in {"starting", "serving", "draining"} => grpcResult = "none"
    /\ wpc \notin Leaving \ {"final"} => workerResult = "none"
    /\ wpc = "final" => workerResult = "none"
    /\ faults = {} <=> grpcResult # "err" /\ workerResult # "err"
    /\ exit = "success" => grpcResult # "err" /\ workerResult # "err"
    /\ exit = "failure" => grpcResult = "err" \/ workerResult = "err"

\* The worker holds a request exactly while it should. With Accounted, inductive.
HoldInv ==
    /\ wpc \in Processing \cup {"received"} => cur # None
    /\ wpc \in {"create", "loop", "poll", "recv", "earlyDrop"} => cur = None

\* A frame that was rendered too late is followed by a check that stops, before
\* another frame. Strengthens AtMostOneLateFrame.
LateFrameInv ==
    /\ late <= 1
    /\ late = 1 => /\ Stop
                   /\ wpc # "render"
                   /\ wpc = "limit" => Animated

\* A result says "stopped" only while there is a reason to stop, the duration of
\* a GIF among them. Strengthens ReasonsHonest.
StopInv ==
    /\ result = "decoderStop" => Stop
    /\ wpc \in {"settle", "report"} /\ result = "stopped" =>
         Stop \/ (cur \in Gifs /\ elapsed)
    /\ wpc \in {"create", "loop", "poll", "recv", "received"} => result = "none"

\* Without a window every clear works: the LED matrix is dark wherever the worker
\* is not busy with a request. Strengthens PanelDark.
DarkInv ==
    ~HasWindow /\ wpc \notin Processing \ {"start", "load", "jingle", "report"} =>
        panel = "dark"

\* A display by cycles returns Ok only when its cycles are complete. Strengthens
\* CyclesShownInFull.
CyclesInv ==
    wpc \in {"settle", "report"} /\ result = "ok" /\ cur \in Cycles => elapsed

IndInv ==
    /\ TypeOK
    /\ TeardownInv
    /\ ExitStatusInv
    /\ HoldInv /\ Accounted
    /\ LateFrameInv
    /\ StopInv
    /\ DarkInv
    /\ EyecatchKept
    /\ CyclesInv
=============================================================================
