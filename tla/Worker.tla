-------------------------------- MODULE Worker --------------------------------
(***************************************************************************)
(* The main thread: display::create, worker::run_loop and process_request, *)
(* and the frames that display::show and display::show_animated put on the *)
(* panel. Image data, pixels and durations are abstracted: the deadline of *)
(* a request and the end of its display are events of the environment, and *)
(* every step that reads the flag or the clock is a step of its own.       *)
(***************************************************************************)
EXTENDS DisplayChannel

CONSTANTS
    Gifs,         \* the requests whose mime type is image/gif
    Cycles,       \* the requests limited by scroll_cycles
    HasWindow,    \* the emulator backend (TRUE) or the RPi backend (FALSE)
    EyecatchFile, \* "none": not configured; "good"; "bad": cannot be used
    TimeoutMayOverflow, \* Instant::now() + WORKER_TIMEOUT need not be representable
    None

ASSUME KindsAssumption ==
    /\ Gifs \subseteq Requests /\ Cycles \subseteq Requests
    /\ Gifs \cap Cycles = {}    \* send_image rejects GIFs with scroll_cycles
    /\ HasWindow \in BOOLEAN /\ TimeoutMayOverflow \in BOOLEAN
    /\ EyecatchFile \in {"none", "good", "bad"}
    /\ None \notin Requests

VARIABLES
    wpc,           \* the next step of the main thread
    cur,           \* the request it has received and not finished
    phase,         \* what it displays: the eye-catch or the request itself
    expired,       \* the deadline of cur has passed
    elapsed,       \* the requested duration or cycles of the phase are complete
    result,        \* what process_request is returning
    loaded,        \* eyecatch_loaded
    frames,        \* eyecatch_frames is Some
    panel,         \* what the last render or clear left on the panel
    window,        \* the emulator's window, as of its last event pump
    workerResult,  \* worker_result in main
    outcome,       \* history: how each admitted request ended
    late           \* history: frames of cur rendered after it had to stop

workerVars == <<wpc, cur, phase, expired, elapsed, result, loaded, frames,
                panel, window, workerResult, outcome, late>>

Displaying == {"limit", "check", "render"}

\* process_request is running.
Processing == {"start", "load", "jingle", "eyeClear", "prepare", "decode",
               "decoding", "settle", "report"} \cup Displaying

\* run_loop will not receive another request.
Leaving == {"final", "guard", "dropRx", "earlyDrop", "cancel", "join", "done"}

Locations == {"create", "loop", "poll", "recv", "received"} \cup Processing \cup Leaving

Outcomes == {"completed", "window", "shutdown", "worker_timeout", "error",
             "aborted", "discarded"}

WorkerTypeOK ==
    /\ wpc \in Locations
    /\ cur \in Requests \cup {None}
    /\ phase \in {"eyecatch", "main"}
    /\ expired \in BOOLEAN /\ elapsed \in BOOLEAN
    /\ result \in {"none", "ok", "window", "stopped", "decoderStop", "fault"}
    /\ loaded \in BOOLEAN /\ frames \in BOOLEAN
    /\ panel \in {"dark", "lit"}
    /\ window \in {"none", "open", "escape", "closed"}
    /\ workerResult \in {"none", "ok", "err"}
    /\ outcome \in [Requests -> Outcomes \cup {"none"}]
    /\ late \in Nat

WorkerInit ==
    /\ wpc = "create"
    /\ cur = None
    /\ phase = "main"
    /\ expired = FALSE /\ elapsed = FALSE
    /\ result = "none"
    /\ loaded = FALSE /\ frames = FALSE
    /\ panel = "dark"
    /\ window = "none"
    /\ workerResult = "none"
    /\ outcome = [r \in Requests |-> "none"]
    /\ late = 0

-----------------------------------------------------------------------------
(* Program steps, the clock and the window.                                *)

\* A step of the main thread, from one location to another.
Step(from, to) == wpc = from /\ wpc' = to

\* What most steps of the main thread leave alone.
requestVars == <<cur, expired, outcome>>
eyecatchVars == <<loaded, frames>>
screenVars == <<panel, window>>
showVars == <<phase, elapsed, late>>

\* Mutation: Work::check looks at the flag only.
StopOnShutdownOnly == shutdown

\* Work::check fails: the program is stopping, or the deadline has passed.
Stop == shutdown \/ expired

\* process_request (or the display function it is in) returns early.
Return(from, res) == Step(from, "settle") /\ result' = res

\* minifb reports the window's state as of the last pump of its events; the
\* user presses or releases Escape, or closes the window, at any time.
Pump == window' \in IF window = "closed" THEN {"closed"} ELSE {"open", "escape", "closed"}

WindowGone == window \in {"escape", "closed"}

\* No pump of this step has shown the window to be gone.
UnseenWindow == ~WindowGone' \/ UNCHANGED window

\* The deadline of the request in progress passes. Time always advances.
DeadlinePasses ==
    /\ wpc \in Processing
    /\ ~expired
    /\ expired' = TRUE
    /\ UNCHANGED <<wpc, cur, phase, elapsed, result, loaded, frames, panel,
                   window, workerResult, outcome, late>>
    /\ UNCHANGED channelVars

\* The requested duration ends, or the requested cycles are complete. Cycles
\* count only what was rendered, so a stalled display may never complete them.
DisplayEnds ==
    /\ wpc \in Displaying
    /\ ~elapsed
    /\ elapsed' = TRUE
    /\ UNCHANGED <<wpc, cur, phase, expired, result, loaded, frames, panel,
                   window, workerResult, outcome, late>>
    /\ UNCHANGED channelVars

-----------------------------------------------------------------------------
(* run_loop.                                                               *)

\* display::create succeeds.
CreateDisplay ==
    /\ Step("create", "loop")
    /\ UNCHANGED <<result, workerResult>>
    /\ UNCHANGED <<requestVars, eyecatchVars, screenVars, showVars>>
    /\ UNCHANGED channelVars

\* LedMatrix::new fails: and_then drops its closure, and the receiver in it.
\* The emulator's constructor cannot fail.
CreateFails ==
    /\ ~HasWindow
    /\ Step("create", "earlyDrop")
    /\ workerResult' = "err"
    /\ faults' = faults \cup {"create"}
    /\ UNCHANGED result
    /\ UNCHANGED <<requestVars, eyecatchVars, screenVars, showVars>>
    /\ UNCHANGED <<shutdown, queue, senders, receiver>>

\* while !shutdown.is_cancelled()
LoopHead ==
    /\ Step("loop", IF shutdown THEN "final" ELSE "poll")
    /\ UNCHANGED <<result, workerResult>>
    /\ UNCHANGED <<requestVars, eyecatchVars, screenVars, showVars>>
    /\ UNCHANGED channelVars

\* Mutation: run_loop pumps the events and ignores what they say.
PollIgnoringWindow ==
    /\ IF HasWindow /\ window # "none" THEN Pump ELSE UNCHANGED window
    /\ Step("poll", "recv")
    /\ UNCHANGED <<result, workerResult, panel>>
    /\ UNCHANGED <<requestVars, eyecatchVars, showVars>>
    /\ UNCHANGED channelVars

\* poll_events pumps the window, if one was ever opened, and then looks at it.
Poll ==
    /\ IF HasWindow /\ window # "none" THEN Pump ELSE UNCHANGED window
    /\ Step("poll", IF WindowGone' THEN "final" ELSE "recv")
    /\ UNCHANGED <<result, workerResult, panel>>
    /\ UNCHANGED <<requestVars, eyecatchVars, showVars>>
    /\ UNCHANGED channelVars

ReceiveRequest(r) ==
    /\ Step("recv", "received")
    /\ Receive(r)
    /\ cur' = r
    /\ UNCHANGED <<result, workerResult, expired, outcome>>
    /\ UNCHANGED <<eyecatchVars, screenVars, showVars>>
    /\ UNCHANGED <<shutdown, senders, receiver, faults>>

\* Nothing arrives for 16 ms, or nothing can arrive: every sender is gone.
ReceiveNothing ==
    /\ queue = <<>>
    /\ Step("recv", IF senders THEN "loop" ELSE "final")
    /\ UNCHANGED <<result, workerResult>>
    /\ UNCHANGED <<requestVars, eyecatchVars, screenVars, showVars>>
    /\ UNCHANGED channelVars

\* Mutation: the flag is not read again after the receive.
BeginUnchecked ==
    /\ Step("received", "start")
    /\ expired' = FALSE
    /\ late' = 0
    /\ UNCHANGED <<result, workerResult, cur, outcome, phase, elapsed>>
    /\ UNCHANGED <<eyecatchVars, screenVars>>
    /\ UNCHANGED channelVars

\* The deadline is computed before the flag is read again.
Begin ==
    /\ Step("received", IF shutdown THEN "final" ELSE "start")
    /\ expired' = FALSE
    /\ late' = 0
    /\ UNCHANGED <<result, workerResult, cur, outcome, phase, elapsed>>
    /\ UNCHANGED <<eyecatchVars, screenVars>>
    /\ UNCHANGED channelVars

\* checked_add overflows for this request: run_loop returns an error without the
\* final clear.
TimeoutOverflows ==
    /\ TimeoutMayOverflow
    /\ Step("received", "guard")
    /\ workerResult' = "err"
    /\ faults' = faults \cup {"overflow"}
    /\ UNCHANGED result
    /\ UNCHANGED <<requestVars, eyecatchVars, screenVars, showVars>>
    /\ UNCHANGED <<shutdown, queue, senders, receiver>>

-----------------------------------------------------------------------------
(* process_request.                                                        *)

\* A step that begins with work.check()?
Checked(from, to) ==
    IF Stop THEN Return(from, "stopped") ELSE Step(from, to) /\ UNCHANGED result

Start ==
    /\ Checked("start", "load")
    /\ UNCHANGED workerResult
    /\ UNCHANGED <<requestVars, eyecatchVars, screenVars, showVars>>
    /\ UNCHANGED channelVars

\* Mutation: the result of the load is handled before the interruption.
LoadEyecatchOnce ==
    /\ Checked("load", "jingle")
    /\ loaded' = TRUE
    /\ frames' = IF loaded THEN frames ELSE ~Stop /\ EyecatchFile = "good"
    /\ UNCHANGED workerResult
    /\ UNCHANGED <<requestVars, screenVars, showVars>>
    /\ UNCHANGED channelVars

\* The first request that is not stopped while the eye-catch is being decoded
\* settles whether there is one. The interruption is looked at before the
\* result, so a load that was cut short is tried again by the next request.
LoadEyecatch ==
    /\ IF loaded \/ EyecatchFile = "none"
         THEN /\ Step("load", "jingle")
              /\ loaded' = TRUE
              /\ UNCHANGED <<result, frames>>
         ELSE /\ Checked("load", "jingle")
              /\ loaded' = ~Stop
              /\ frames' = (~Stop /\ EyecatchFile = "good")
    /\ UNCHANGED workerResult
    /\ UNCHANGED <<requestVars, screenVars, showVars>>
    /\ UNCHANGED channelVars

\* The jingle starts on a thread nobody joins; then the eye-catch, if any.
StartJingle ==
    /\ Checked("jingle", IF frames THEN "prepare" ELSE "decode")
    /\ phase' = IF frames THEN "eyecatch" ELSE "main"
    /\ UNCHANGED <<workerResult, elapsed, late>>
    /\ UNCHANGED <<requestVars, eyecatchVars, screenVars>>
    /\ UNCHANGED channelVars

\* work.check()? before the request itself is decoded.
CheckBeforeDecode ==
    /\ Checked("decode", "decoding")
    /\ phase' = "main"
    /\ UNCHANGED <<workerResult, elapsed, late>>
    /\ UNCHANGED <<requestVars, eyecatchVars, screenVars>>
    /\ UNCHANGED channelVars

\* decode::gif or decode::image. The decoder may wrap a stop in an error of
\* its own, which no longer downcasts to Stopped.
Decode ==
    /\ \/ ~Stop /\ Step("decoding", "prepare") /\ UNCHANGED result
       \/ ~Stop /\ Return("decoding", "fault")
       \/ Stop /\ Return("decoding", "stopped")
       \/ Stop /\ Return("decoding", "decoderStop")
    /\ UNCHANGED workerResult
    /\ UNCHANGED <<requestVars, eyecatchVars, screenVars, showVars>>
    /\ UNCHANGED channelVars

-----------------------------------------------------------------------------
(* display::show and display::show_animated.                               *)

\* GIFs, the eye-catch among them, are shown by show_animated.
Animated == phase = "eyecatch" \/ cur \in Gifs

\* The display function ends with res. After the eye-catch only a closed window
\* is an error of the request: anything else is logged, or will be seen again
\* by the next check.
DisplayReturns(from, res) ==
    IF phase = "eyecatch" /\ res # "window"
      THEN Step(from, "eyeClear") /\ UNCHANGED result
      ELSE Return(from, res)

\* prepare checks the flag and the deadline on every row, pumps the window every
\* 32 rows, and fails on a panel or a picture over the configured limits. The
\* clock of the display starts then, and show_animated looks at once whether the
\* duration is over already (display_work.check).
Prepare ==
    /\ wpc = "prepare"
    /\ elapsed' \in IF Animated THEN BOOLEAN ELSE {FALSE}
    /\ IF HasWindow /\ window # "none" THEN Pump ELSE UNCHANGED window
    /\ \/ ~Stop /\ ~elapsed' /\ ~WindowGone' /\ UNCHANGED result
          /\ Step("prepare", IF Animated THEN "limit" ELSE "check")
       \/ (Stop \/ elapsed') /\ UnseenWindow /\ DisplayReturns("prepare", "stopped")
       \/ ~Stop /\ ~elapsed' /\ UnseenWindow /\ DisplayReturns("prepare", "fault")
       \/ HasWindow /\ ~elapsed' /\ WindowGone' /\ DisplayReturns("prepare", "window")
    /\ UNCHANGED <<workerResult, panel, phase, late>>
    /\ UNCHANGED <<requestVars, eyecatchVars>>
    /\ UNCHANGED channelVars

\* The display is complete. A duration ends at the worker's deadline at the
\* latest; cycles have no other end than their own.
LimitReached == elapsed \/ (expired /\ (phase = "eyecatch" \/ cur \notin Cycles))

\* show_animated looks at the clock before the check, show after it.
ShowLimit ==
    /\ wpc = "limit"
    /\ IF LimitReached
         THEN DisplayReturns("limit", "ok")
         ELSE Step("limit", IF Animated THEN "check" ELSE "render") /\ UNCHANGED result
    /\ UNCHANGED <<workerResult, phase, elapsed, late>>
    /\ UNCHANGED <<requestVars, eyecatchVars, screenVars>>
    /\ UNCHANGED channelVars

\* Mutation: the display loop looks at the deadline only.
ShowCheckDeadlineOnly ==
    /\ wpc = "check"
    /\ IF expired
         THEN DisplayReturns("check", "stopped")
         ELSE Step("check", IF Animated THEN "render" ELSE "limit") /\ UNCHANGED result
    /\ UNCHANGED <<workerResult, phase, elapsed, late>>
    /\ UNCHANGED <<requestVars, eyecatchVars, screenVars>>
    /\ UNCHANGED channelVars

\* show checks before every frame and after it, show_animated before it.
ShowCheck ==
    /\ wpc = "check"
    /\ IF Stop
         THEN DisplayReturns("check", "stopped")
         ELSE Step("check", IF Animated THEN "render" ELSE "limit") /\ UNCHANGED result
    /\ UNCHANGED <<workerResult, phase, elapsed, late>>
    /\ UNCHANGED <<requestVars, eyecatchVars, screenVars>>
    /\ UNCHANGED channelVars

\* RpiDisplay::render_frame swaps canvases and cannot fail. The emulator opens
\* its window on the first frame, refuses one that was closed, then draws (and
\* pumps the events); opening and drawing may fail.
Render ==
    /\ wpc = "render"
    /\ \/ /\ ~(HasWindow /\ WindowGone)
          /\ Step("render", IF Animated THEN "limit" ELSE "check")
          /\ panel' = "lit"
          /\ late' = IF Stop THEN late + 1 ELSE late
          /\ IF HasWindow THEN Pump ELSE UNCHANGED window
          /\ UNCHANGED result
       \/ /\ HasWindow /\ WindowGone
          /\ DisplayReturns("render", "window")
          /\ UNCHANGED <<panel, window, late>>
       \/ /\ HasWindow /\ ~WindowGone
          /\ DisplayReturns("render", "fault")
          /\ window' \in {window, "open"}
          /\ UNCHANGED <<panel, late>>
    /\ UNCHANGED <<workerResult, phase, elapsed>>
    /\ UNCHANGED <<requestVars, eyecatchVars>>
    /\ UNCHANGED channelVars

-----------------------------------------------------------------------------
(* Clearing the panel.                                                     *)

\* LedDisplay::clear succeeds. The emulator leaves a picture it has drawn alone
\* when the window is closed or Escape is down, and draws black otherwise.
Clear ==
    IF ~HasWindow
      THEN panel' = "dark" /\ UNCHANGED window
      ELSE IF window = "open"
             THEN panel' = "dark" /\ Pump
             ELSE UNCHANGED <<panel, window>>

\* Only the emulator's update_with_buffer can fail.
ClearFails == HasWindow /\ window = "open" /\ UNCHANGED <<panel, window>>

\* display.clear()? after the eye-catch; then work.check()?
EyecatchClear ==
    /\ \/ Clear /\ Step("eyeClear", "decode") /\ UNCHANGED result
       \/ ClearFails /\ Return("eyeClear", "fault")
    /\ UNCHANGED workerResult
    /\ UNCHANGED <<requestVars, eyecatchVars, showVars>>
    /\ UNCHANGED channelVars

\* Mutation: the panel is cleared only after a success.
SettleOnSuccess ==
    /\ Step("settle", "report")
    /\ IF result = "ok" THEN Clear ELSE UNCHANGED <<panel, window>>
    /\ UNCHANGED <<workerResult, cur, outcome, faults, result, expired>>
    /\ UNCHANGED <<eyecatchVars, showVars>>
    /\ UNCHANGED <<shutdown, queue, senders, receiver>>

\* display.clear()? after process_request, whatever it returned.
Settle ==
    /\ \/ /\ Clear
          /\ Step("settle", "report")
          /\ UNCHANGED <<workerResult, cur, outcome, faults>>
       \/ /\ ClearFails
          /\ Step("settle", "guard")
          /\ workerResult' = "err"
          /\ outcome' = [outcome EXCEPT ![cur] = "aborted"]
          /\ cur' = None
          /\ faults' = faults \cup {"clear"}
    /\ UNCHANGED <<result, expired>>
    /\ UNCHANGED <<eyecatchVars, showVars>>
    /\ UNCHANGED <<shutdown, queue, senders, receiver>>

\* Mutation: only an error that is Stopped is a timeout.
ReasonByType ==
    IF result = "ok" THEN "completed"
    ELSE IF result = "window" THEN "window"
    ELSE IF shutdown THEN "shutdown"
    ELSE IF result = "stopped" THEN "worker_timeout"
    ELSE "error"

\* The match on the result: its reason is what the log says of the request.
Reason ==
    IF result = "ok" THEN "completed"
    ELSE IF result = "window" THEN "window"
    ELSE IF shutdown THEN "shutdown"
    ELSE IF result = "stopped" \/ expired THEN "worker_timeout"
    ELSE "error"

Report ==
    /\ Step("report", IF Reason \in {"window", "shutdown"} THEN "final" ELSE "loop")
    /\ outcome' = [outcome EXCEPT ![cur] = Reason]
    /\ cur' = None
    /\ result' = "none"
    /\ UNCHANGED <<workerResult, expired>>
    /\ UNCHANGED <<eyecatchVars, screenVars, showVars>>
    /\ UNCHANGED channelVars

-----------------------------------------------------------------------------
(* Leaving.                                                                *)

\* Mutation: an error of the last clear is only logged.
FinalClearLenient ==
    /\ Step("final", "guard")
    /\ workerResult' = "ok"
    /\ \/ Clear /\ UNCHANGED faults
       \/ ClearFails /\ faults' = faults \cup {"clear"}
    /\ UNCHANGED result
    /\ UNCHANGED <<requestVars, eyecatchVars, showVars>>
    /\ UNCHANGED <<shutdown, queue, senders, receiver>>

\* display.clear()? after the loop.
FinalClear ==
    /\ Step("final", "guard")
    /\ \/ Clear /\ workerResult' = "ok" /\ UNCHANGED faults
       \/ ClearFails /\ workerResult' = "err" /\ faults' = faults \cup {"clear"}
    /\ UNCHANGED result
    /\ UNCHANGED <<requestVars, eyecatchVars, showVars>>
    /\ UNCHANGED <<shutdown, queue, senders, receiver>>

\* run_loop's _guard is dropped before the receiver, its parameter.
GuardDrops ==
    /\ Step("guard", "dropRx")
    /\ Cancel
    /\ UNCHANGED <<result, workerResult>>
    /\ UNCHANGED <<requestVars, eyecatchVars, screenVars, showVars>>
    /\ UNCHANGED <<queue, senders, receiver, faults>>

\* The receiver is dropped with every request it still holds: they were
\* acknowledged to their clients and will not be displayed.
DropReceiver ==
    /\ \/ Step("dropRx", "cancel") \/ Step("earlyDrop", "cancel")
    /\ receiver' = FALSE
    /\ queue' = <<>>
    /\ outcome' = [r \in Requests |->
                     IF r \in Queued \/ r = cur THEN "discarded" ELSE outcome[r]]
    /\ cur' = None
    /\ UNCHANGED <<result, workerResult, expired>>
    /\ UNCHANGED <<eyecatchVars, screenVars, showVars>>
    /\ UNCHANGED <<shutdown, senders, faults>>

\* shutdown.cancel() in main.
MainCancels ==
    /\ Step("cancel", "join")
    /\ Cancel
    /\ UNCHANGED <<result, workerResult>>
    /\ UNCHANGED <<requestVars, eyecatchVars, screenVars, showVars>>
    /\ UNCHANGED <<queue, senders, receiver, faults>>

-----------------------------------------------------------------------------
RunLoop ==
    \/ CreateDisplay \/ CreateFails
    \/ LoopHead \/ Poll
    \/ (\E r \in Requests : ReceiveRequest(r)) \/ ReceiveNothing
    \/ Begin \/ TimeoutOverflows
    \/ Settle \/ Report
    \/ FinalClear \/ GuardDrops \/ DropReceiver \/ MainCancels

ProcessRequest ==
    \/ Start \/ LoadEyecatch \/ StartJingle \/ EyecatchClear
    \/ CheckBeforeDecode \/ Decode
    \/ Prepare \/ ShowLimit \/ ShowCheck \/ Render

WorkerThread == RunLoop \/ ProcessRequest

WorkerNext == WorkerThread \/ DeadlinePasses \/ DisplayEnds
=============================================================================
