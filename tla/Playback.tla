------------------------------- MODULE Playback -------------------------------
(***************************************************************************)
(* One call of display::show or display::show_animated, once its pictures  *)
(* are prepared: a static image or a scroll, limited by a duration or by   *)
(* cycles, or an animation, limited by a duration, against a clock that    *)
(* may advance between any two steps and while a frame is rendered. Times  *)
(* count from the start of the display.                                    *)
(***************************************************************************)
EXTENDS Integers

CONSTANTS
    Displays,   \* the calls: records of mode, width, cycles, duration, minimum
    Interval,   \* SCROLL_INTERVAL_MS
    Deadline,   \* the worker deadline, in time from the start
    MinDelay, MaxDelay,   \* what decode.rs leaves of the delays of a GIF's frames
    MaxTime     \* bound: where the clock stops

\* A limit is a duration, or, for scrolls only, a positive number of cycles and
\* a minimum time (service.rs); a prepared picture has at least one column, and an
\* animation at least one frame: its width counts them.
IsDisplay(d) ==
    /\ d.mode \in {"Static", "ScrollHorizontal", "Animated"}
    /\ d.width \in Nat \ {0}
    /\ d.cycles \in Nat
    /\ d.duration \in Nat /\ d.minimum \in Nat
    /\ d.cycles > 0 => d.mode = "ScrollHorizontal"

ASSUME PlaybackAssumption ==
    /\ \A d \in Displays : IsDisplay(d)
    /\ Interval \in Nat /\ Deadline \in Nat /\ MaxTime \in Nat
    /\ MinDelay \in Nat /\ MaxDelay \in Nat

VARIABLES
    display,           \* the call
    now,               \* the clock
    cancelled,         \* Shutdown::is_cancelled
    pc,                \* the next step of show or show_animated
    seen,              \* the clock as read after the last frame
    offset,            \* the first column of the picture on the panel; frame_idx
    position_started,  \* when show moved to this offset, or to this frame
    frame_end,         \* until when show_animated draws this frame
    completed_cycles,
    result,            \* what show returns
    steps,             \* history: how often the offset has moved
    shown,             \* history: when this offset was first on the panel
    surplus            \* history: frames begun after the requested end

vars == <<display, now, cancelled, pc, seen, offset, position_started, frame_end,
          completed_cycles, result, steps, shown, surplus>>

\* `shown` before the offset has been rendered.
NotYet == MaxTime + 1

TypeOK ==
    /\ display \in Displays
    /\ now \in Nat /\ seen \in Nat /\ seen <= now
    /\ cancelled \in BOOLEAN
    /\ pc \in {"check", "limit", "render", "rendered", "advance", "moved", "done",
               "first", "while", "next", "frame", "hold", "draw"}
    /\ offset \in Nat /\ position_started \in Nat /\ completed_cycles \in Nat
    /\ frame_end \in Nat
    /\ result \in {"none", "ok", "stopped", "failed"}
    /\ steps \in Nat /\ shown \in Nat /\ surplus \in Nat

Init ==
    /\ display \in Displays
    /\ now = 0 /\ seen = 0
    /\ cancelled = FALSE
    /\ pc = IF display.mode = "Animated" THEN "first" ELSE "check"
    /\ offset = 0 /\ position_started = 0 /\ completed_cycles = 0 /\ frame_end = 0
    /\ result = "none"
    /\ steps = 0 /\ shown = NotYet /\ surplus = 0

-----------------------------------------------------------------------------
\* Mutation: the deadline is left to whoever asked for the display.
StopOnCancelOnly == cancelled

\* Work::check
Stop == cancelled \/ now >= Deadline

ByCycles == display.cycles > 0
Animated == display.mode = "Animated"

\* The requested duration is cut at the worker deadline.
DisplayDeadline == IF display.duration < Deadline THEN display.duration ELSE Deadline

CyclesSatisfied(elapsed) ==
    ByCycles /\ completed_cycles >= display.cycles /\ elapsed >= display.minimum

\* What the request asked for is reached.
EndReached(t) == CyclesSatisfied(t) \/ (~ByCycles /\ t >= DisplayDeadline)

Return(res) == pc' = "done" /\ result' = res

Continue(to) == pc' = to /\ UNCHANGED result

turns == <<offset, completed_cycles, steps>>
position == <<offset, position_started, frame_end, completed_cycles, steps>>

-----------------------------------------------------------------------------
(* The environment.                                                        *)

Tick ==
    /\ now < MaxTime
    /\ now' = now + 1
    /\ UNCHANGED <<display, cancelled, pc, seen, result, shown, surplus>>
    /\ UNCHANGED position

Cancel ==
    /\ ~cancelled
    /\ cancelled' = TRUE
    /\ UNCHANGED <<display, now, pc, seen, result, shown, surplus>>
    /\ UNCHANGED position

-----------------------------------------------------------------------------
(* The loop of show.                                                       *)

\* work.check()? at the head of the loop
Check ==
    /\ pc = "check"
    /\ IF Stop THEN Return("stopped") ELSE Continue("limit")
    /\ UNCHANGED <<display, now, cancelled, seen, shown, surplus>>
    /\ UNCHANGED position

Limit ==
    /\ pc = "limit"
    /\ IF EndReached(now) THEN Return("ok") ELSE Continue("render")
    /\ UNCHANGED <<display, now, cancelled, seen, shown, surplus>>
    /\ UNCHANGED position

\* render_frame begins; the clock may advance until it returns.
BeginFrame ==
    /\ pc = "render"
    /\ Continue("rendered")
    /\ surplus' = IF EndReached(now) THEN surplus + 1 ELSE surplus
    /\ UNCHANGED <<display, now, cancelled, seen, shown>>
    /\ UNCHANGED position

\* render_frame has returned; the check and the cycles share one look at the clock.
EndFrame ==
    /\ pc = "rendered" /\ ~Animated
    /\ shown' = IF shown = NotYet THEN now ELSE shown
    /\ seen' = now
    /\ IF Stop THEN Return("stopped")
       ELSE IF CyclesSatisfied(now) THEN Return("ok")
       ELSE Continue("advance")
    /\ UNCHANGED <<display, now, cancelled, surplus>>
    /\ UNCHANGED position

\* render_frame? returns its error.
RenderFails ==
    /\ pc = "rendered"
    /\ Return("failed")
    /\ UNCHANGED <<display, now, cancelled, seen, shown, surplus>>
    /\ UNCHANGED position

\* The offset is held: no scroll, or its interval has not passed.
Hold ==
    /\ pc = "advance"
    /\ display.mode = "Static" \/ seen - position_started < Interval
    /\ Continue("check")
    /\ UNCHANGED <<display, now, cancelled, seen, shown, surplus>>
    /\ UNCHANGED position

\* Mutation: a slow frame makes the offset skip to catch up.
TurnCatchingUp ==
    LET far == offset + (IF seen - position_started >= 2 * Interval THEN 2 ELSE 1)
    IN  IF far >= display.width
          THEN completed_cycles' = completed_cycles + 1 /\ offset' = 0
          ELSE offset' = far /\ UNCHANGED completed_cycles

\* Mutation: the cycle is complete when the last offset appears.
TurnEarly ==
    IF offset + 2 >= display.width
      THEN completed_cycles' = completed_cycles + 1 /\ offset' = 0
      ELSE offset' = offset + 1 /\ UNCHANGED completed_cycles

\* One column further; after the last one a cycle is complete.
Turn ==
    IF offset + 1 = display.width
      THEN completed_cycles' = completed_cycles + 1 /\ offset' = 0
      ELSE offset' = offset + 1 /\ UNCHANGED completed_cycles

\* Mutation: the start of the position is not moved along.
RestartNever == UNCHANGED position_started

\* The next interval counts from the time of the last frame.
Restart == position_started' = seen

\* The interval has passed since show moved here.
Advance ==
    /\ pc = "advance"
    /\ display.mode = "ScrollHorizontal"
    /\ seen - position_started >= Interval
    /\ Turn
    /\ Restart
    /\ steps' = steps + 1
    /\ shown' = NotYet
    /\ Continue("moved")
    /\ UNCHANGED <<display, now, cancelled, seen, surplus, frame_end>>

\* Mutation: after a move the cycles are compared, and the minimum is forgotten.
AfterMoveCountingOnly ==
    /\ pc = "moved"
    /\ IF Stop THEN Return("stopped")
       ELSE IF ByCycles /\ completed_cycles >= display.cycles THEN Return("ok")
       ELSE Continue("check")
    /\ UNCHANGED <<display, now, cancelled, seen, shown, surplus>>
    /\ UNCHANGED position

\* After a move the end is tested again, with the time of the frame.
AfterMove ==
    /\ pc = "moved"
    /\ IF Stop THEN Return("stopped")
       ELSE IF CyclesSatisfied(seen) THEN Return("ok")
       ELSE Continue("check")
    /\ UNCHANGED <<display, now, cancelled, seen, shown, surplus>>
    /\ UNCHANGED position

-----------------------------------------------------------------------------
(* The loops of show_animated.                                             *)

\* display_work.check()?: the duration counts like the worker deadline.
FirstCheck ==
    /\ pc = "first"
    /\ IF cancelled \/ now >= DisplayDeadline THEN Return("stopped") ELSE Continue("while")
    /\ UNCHANGED <<display, now, cancelled, seen, shown, surplus>>
    /\ UNCHANGED position

While ==
    /\ pc = "while"
    /\ IF now < DisplayDeadline THEN Continue("next") ELSE Return("ok")
    /\ UNCHANGED <<display, now, cancelled, seen, shown, surplus>>
    /\ UNCHANGED position

\* work.check()? in either loop
CheckAnimation ==
    /\ pc \in {"next", "draw"}
    /\ IF Stop THEN Return("stopped")
       ELSE Continue(IF pc = "next" THEN "frame" ELSE "render")
    /\ UNCHANGED <<display, now, cancelled, seen, shown, surplus>>
    /\ UNCHANGED position

\* Mutation: the last frame is held for as long as it asks.
HoldInFull(delay) == frame_end' = now + delay

\* A frame is held for its delay, cut at the end of the animation.
HoldFor(delay) ==
    frame_end' = IF now + delay < DisplayDeadline THEN now + delay ELSE DisplayDeadline

StartFrame ==
    /\ pc = "frame"
    /\ \E delay \in MinDelay..MaxDelay : HoldFor(delay)
    /\ position_started' = now
    /\ Continue("hold")
    /\ UNCHANGED <<display, now, cancelled, seen, shown, surplus>>
    /\ UNCHANGED turns

\* The frame is drawn again and again while it is held.
HoldFrame ==
    /\ pc = "hold" /\ now < frame_end
    /\ Continue("draw")
    /\ UNCHANGED <<display, now, cancelled, seen, shown, surplus>>
    /\ UNCHANGED position

EndDraw ==
    /\ pc = "rendered" /\ Animated
    /\ shown' = IF shown = NotYet THEN now ELSE shown
    /\ Continue("hold")
    /\ UNCHANGED <<display, now, cancelled, seen, surplus>>
    /\ UNCHANGED position

\* The next frame, the first after the last; completed_cycles counts how often.
NextFrame ==
    /\ pc = "hold" /\ now >= frame_end
    /\ Turn
    /\ steps' = steps + 1
    /\ shown' = NotYet
    /\ Continue("while")
    /\ UNCHANGED <<display, now, cancelled, seen, surplus, position_started, frame_end>>

Returned == pc = "done" /\ UNCHANGED vars

Show ==
    \/ Check \/ Limit \/ BeginFrame \/ EndFrame \/ RenderFails \/ Hold \/ Advance \/ AfterMove

ShowAnimated ==
    \/ FirstCheck \/ While \/ CheckAnimation \/ StartFrame \/ HoldFrame
    \/ BeginFrame \/ EndDraw \/ RenderFails \/ NextFrame

Next == Show \/ ShowAnimated \/ Tick \/ Cancel \/ Returned

Spec == Init /\ [][Next]_vars

\* The thread runs and time passes; nobody has to cancel.
FairSpec == Spec /\ WF_vars(Show \/ ShowAnimated) /\ WF_vars(Tick)

-----------------------------------------------------------------------------
(* Safety.                                                                 *)

\* The count of cycles is exact: every move is one column, a cycle is as many
\* moves as the picture has columns, nothing is counted twice or lost at the wrap
\* (ADR-0001: "every offset from zero through the final prepared-image offset").
CyclesCounted ==
    /\ offset < display.width
    /\ steps = completed_cycles * display.width + offset

\* Scrolling is never faster than one column per interval, over any number of
\* columns, however late frames are: nothing is made up for. No frame of an animation
\* is passed before its delay, but the last, which the end of the display cuts.
NeverTooFast ==
    IF Animated
      THEN \/ steps * MinDelay <= now
           \/ now >= DisplayDeadline /\ (steps - 1) * MinDelay <= now
      ELSE steps * Interval <= now

\* show returns Ok only for a display that got what it asked for: its cycles and
\* its minimum time, or its duration as far as the worker deadline allowed.
CompletionHonest ==
    result = "ok" =>
        IF ByCycles
          THEN completed_cycles >= display.cycles /\ now >= display.minimum
          ELSE now >= DisplayDeadline

\* Playback stops as soon as the end is reached: at most one frame is begun later.
AtMostOneSurplusFrame == surplus <= 1

\* No offset is skipped, and none is left before it was rendered. The frames of an
\* animation follow each other in a ring; one that was not drawn even once is passed
\* only after its delay, or at the end.
EveryOffsetShown ==
    [][turns' # turns =>
         /\ \/ shown <= now
            \/ Animated /\ now >= position_started + MinDelay
            \/ Animated /\ now >= DisplayDeadline
         /\ offset' = (offset + 1) % display.width]_vars

\* The README's "An offset counts only after it has been rendered successfully
\* and held for `SCROLL_INTERVAL_MS`".
HeldAfterRendered ==
    [][~Animated /\ turns' # turns => now - shown >= Interval]_vars

-----------------------------------------------------------------------------
\* show and show_animated return, whatever was asked for: the deadline is reached if nothing else.
ShowReturns == <>(pc = "done")
=============================================================================
