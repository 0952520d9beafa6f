---------------------------- MODULE PlaybackProofs ----------------------------
(***************************************************************************)
(* The safety of show and show_animated for every picture, animation,      *)
(* limit, interval and deadline: turns are counted exactly, nothing is     *)
(* skipped or hurried, Ok means what was asked for, and one frame at most  *)
(* comes too late.                                                         *)
(***************************************************************************)
EXTENDS Playback, TLAPS

USE PlaybackAssumption

\* The times a step has looked at are in the past, in order; the offset has been
\* held, since it was entered, for as long as the count of moves claims.
ClockInv ==
    /\ now <= MaxTime
    /\ position_started <= now
    /\ ~Animated => position_started <= seen /\ steps * Interval <= position_started

\* Where the loops of an animation are, and where those of show.
Turning == {"first", "while", "next", "frame"}
Drawing == {"hold", "draw"}
PhaseInv ==
    /\ pc \in Turning \cup Drawing => Animated
    /\ pc \in {"check", "limit", "advance", "moved"} => ~Animated

\* The frames passed have had their delays, all of them until the end is reached.
Passed(t) == steps * MinDelay <= t
PassedToEnd(t) == Passed(t) \/ (t >= DisplayDeadline /\ (steps - 1) * MinDelay <= t)

AnimationInv ==
    Animated =>
        /\ frame_end <= DisplayDeadline
        /\ pc \in Turning \ {"while"} => Passed(now)
        /\ pc \in {"while", "done"} => PassedToEnd(now)
        /\ pc \in Drawing \cup {"render", "rendered"} =>
             /\ Passed(position_started)
             /\ frame_end = DisplayDeadline \/ frame_end >= position_started + MinDelay

\* Past the rendering of its frame, the offset has been shown.
ShownInv ==
    /\ shown = NotYet \/ shown <= now
    /\ pc = "advance" => shown <= now

\* A frame begun too late is the last: the end stays reached, and the next test sees it.
SurplusInv ==
    \/ surplus = 0
    \/ surplus = 1 /\ pc \notin {"render", "draw"} /\ EndReached(now)

PlaybackInv ==
    /\ TypeOK /\ PhaseInv /\ ClockInv /\ AnimationInv
    /\ ShownInv /\ SurplusInv /\ CyclesCounted /\ CompletionHonest

-----------------------------------------------------------------------------
\* Multiplication over one more move, for the linear steps that need it.
LEMMA OneMore ==
    ASSUME NEW n \in Nat, NEW k \in Nat
    PROVE  n * k \in Nat /\ (n + 1) * k = n * k + k
OBVIOUS

\* One column further along the picture is the next offset, modulo its width.
LEMMA NextColumn ==
    ASSUME NEW w \in Nat \ {0}, NEW o \in Nat, o < w
    PROVE  (o + 1) % w = IF o + 1 = w THEN 0 ELSE o + 1
<1>1. CASE o + 1 = w
    BY <1>1
<1>2. CASE o + 1 < w
    BY <1>2
<1> QED
    BY <1>1, <1>2

\* The requested end, once reached, stays reached: the clock and the count only grow.
LEMMA EndStays ==
    ASSUME NEW t \in Nat, NEW u \in Nat, t <= u, display \in Displays,
           EndReached(t)
    PROVE  EndReached(u)
BY DEF EndReached, CyclesSatisfied, DisplayDeadline, IsDisplay

\* The invariant holds when show begins.
LEMMA PlaybackInitially == Init => PlaybackInv
<1> SUFFICES ASSUME Init PROVE PlaybackInv
    OBVIOUS
<1>1. TypeOK
    <2>1. shown \in Nat
        BY DEF Init, NotYet
    <2>2. seen <= now
        BY DEF Init
    <2>3. /\ now \in Nat /\ seen \in Nat /\ offset \in Nat /\ position_started \in Nat
          /\ completed_cycles \in Nat /\ steps \in Nat /\ surplus \in Nat
          /\ frame_end \in Nat
        BY DEF Init
    <2>4. cancelled \in BOOLEAN /\ display \in Displays
        BY DEF Init
    <2> QED
        BY <2>1, <2>2, <2>3, <2>4 DEF Init, TypeOK
<1>p. PhaseInv
    BY DEF Init, PhaseInv, Turning, Drawing, Animated
<1>2. ShownInv /\ SurplusInv
    BY DEF Init, ShownInv, SurplusInv
<1>3. CompletionHonest
    BY DEF Init, CompletionHonest
<1>4. ClockInv
    <2>1. 0 * Interval = 0
        OBVIOUS
    <2> QED
        BY <2>1 DEF Init, ClockInv
<1>a. AnimationInv
    <2>1. 0 * MinDelay = 0
        OBVIOUS
    <2>2. DisplayDeadline \in Nat
        BY DEF Init, DisplayDeadline, IsDisplay
    <2>3. Passed(now) /\ Passed(position_started) /\ frame_end <= DisplayDeadline
        BY <2>1, <2>2 DEF Init, Passed
    <2>4. pc \in {"first", "check"}
        BY DEF Init
    <2> QED
        BY <2>3, <2>4 DEF AnimationInv, Turning, Drawing
<1>5. CyclesCounted
    <2>1. display.width \in Nat \ {0}
        BY DEF Init, IsDisplay
    <2>2. 0 * display.width = 0
        BY <2>1
    <2> QED
        BY <2>1, <2>2 DEF Init, CyclesCounted
<1> QED
    BY <1>1, <1>p, <1>2, <1>3, <1>4, <1>a, <1>5 DEF PlaybackInv

\* Everything but what an animation has passed.
PlainInv ==
    TypeOK /\ PhaseInv /\ ClockInv /\ ShownInv /\ SurplusInv /\ CyclesCounted /\ CompletionHonest

\* What the steps need to know of the numbers.
LEMMA Numbers ==
    ASSUME PlaybackInv
    PROVE  /\ display \in Displays /\ IsDisplay(display) /\ DisplayDeadline \in Nat
           /\ steps * Interval \in Nat /\ steps * MinDelay \in Nat
           /\ (steps - 1) * MinDelay \in Int
BY OneMore DEF PlaybackInv, TypeOK, DisplayDeadline, IsDisplay

\* One turn: the count of cycles stays exact.
LEMMA TurnCounts ==
    ASSUME PlaybackInv, Turn, steps' = steps + 1, UNCHANGED display
    PROVE  /\ offset' \in Nat /\ completed_cycles' \in Nat
           /\ completed_cycles' >= completed_cycles
           /\ CyclesCounted'
<1>t. display \in Displays /\ IsDisplay(display)
    BY Numbers
<1> USE DEF PlaybackInv
<1>1. (completed_cycles + 1) * display.width
        = completed_cycles * display.width + display.width
      /\ completed_cycles * display.width \in Nat
    BY <1>t, OneMore DEF TypeOK, IsDisplay
<1>2. CASE offset + 1 = display.width
    BY <1>t, <1>1, <1>2 DEF Turn, TypeOK, CyclesCounted, IsDisplay
<1>3. CASE offset + 1 # display.width
    BY <1>t, <1>1, <1>3 DEF Turn, TypeOK, CyclesCounted, IsDisplay
<1> QED
    BY <1>2, <1>3

\* Steps that take no time and turn nothing leave what has been passed.
LEMMA PassedKeeps ==
    ASSUME UNCHANGED <<now, display, steps>>
    PROVE  /\ Passed(now)' <=> Passed(now)
           /\ PassedToEnd(now)' <=> PassedToEnd(now)
           /\ position_started' = position_started =>
                (Passed(position_started)' <=> Passed(position_started))
           /\ DisplayDeadline' = DisplayDeadline /\ Animated' = Animated
BY DEF Passed, PassedToEnd, DisplayDeadline, Animated

\* What has been passed when the frame began is passed now, and at the end.
LEMMA PassedOn ==
    ASSUME PlaybackInv
    PROVE  /\ Passed(position_started) => Passed(now)
           /\ Passed(now) => PassedToEnd(now)
           /\ now < DisplayDeadline /\ PassedToEnd(now) => Passed(now)
<1>1. steps * MinDelay \in Nat /\ DisplayDeadline \in Nat
    BY Numbers
<1>2. position_started \in Nat /\ now \in Nat /\ position_started <= now
    BY DEF PlaybackInv, TypeOK, ClockInv
<1> QED
    BY <1>1, <1>2 DEF Passed, PassedToEnd

\* Every step of show and of its environment keeps the invariant.
LEMMA ShowKeeps ==
    ASSUME PlaybackInv, Show \/ Tick \/ Cancel \/ UNCHANGED vars
    PROVE  PlaybackInv'
<1> USE DEF Return, Continue, position, turns
<1>t. display \in Displays /\ IsDisplay(display) /\ DisplayDeadline \in Nat
    BY Numbers
<1>i. PlainInv /\ AnimationInv
    BY DEF PlaybackInv, PlainInv
<1>1. CASE Tick
    <2>1. TypeOK' /\ PhaseInv' /\ ShownInv' /\ CyclesCounted'
        BY <1>1, <1>i DEF PlainInv, Tick, TypeOK, PhaseInv, Animated, ShownInv, CyclesCounted,
            Turning, Drawing
    <2>2. ClockInv'
        BY <1>1, <1>i DEF PlainInv, Tick, TypeOK, ClockInv, Animated
    <2>3. SurplusInv'
        BY <1>1, <1>i, <1>t, EndStays
        DEF PlainInv, Tick, TypeOK, SurplusInv, EndReached, CyclesSatisfied, ByCycles,
            DisplayDeadline
    <2>4. CompletionHonest'
        BY <1>1, <1>i, <1>t
        DEF PlainInv, Tick, TypeOK, CompletionHonest, ByCycles, DisplayDeadline, IsDisplay
    <2>5. AnimationInv'
        <3> DEFINE a == steps * MinDelay
                   b == (steps - 1) * MinDelay
        <3>1. a \in Nat /\ b \in Int
            BY Numbers
        <3>2. /\ now' = now + 1 /\ now \in Nat /\ DisplayDeadline' = DisplayDeadline
              /\ UNCHANGED <<pc, frame_end, position_started, steps>> /\ Animated' = Animated
            BY <1>1, <1>i DEF PlainInv, TypeOK, Tick, DisplayDeadline, Animated
        <3>3. /\ Passed(now) => Passed(now)'
              /\ PassedToEnd(now) => PassedToEnd(now)'
              /\ Passed(position_started)' <=> Passed(position_started)
            <4> HIDE DEF a, b
            <4>1. (Passed(now) <=> a <= now) /\ (Passed(now)' <=> a <= now')
                BY <3>2 DEF Passed, a
            <4>2. /\ (PassedToEnd(now) <=> a <= now \/ (now >= DisplayDeadline /\ b <= now))
                  /\ (PassedToEnd(now)' <=> a <= now' \/ (now' >= DisplayDeadline /\ b <= now'))
                BY <3>2 DEF PassedToEnd, Passed, a, b
            <4>3. Passed(position_started)' <=> Passed(position_started)
                BY <3>2 DEF Passed
            <4>4. now' >= now /\ now' \in Nat
                BY <3>2
            <4> QED
                BY <1>t, <3>1, <3>2, <4>1, <4>2, <4>3, <4>4
        <3> QED
            BY <1>i, <3>2, <3>3 DEF AnimationInv
    <2> QED
        BY <2>1, <2>2, <2>3, <2>4, <2>5 DEF PlaybackInv
<1>2. CASE Cancel
    <2>1. PlainInv'
        BY <1>2, <1>i, <1>t
        DEF PlainInv, Cancel, TypeOK, PhaseInv, ClockInv, ShownInv, SurplusInv, CyclesCounted,
            CompletionHonest, EndReached, CyclesSatisfied, ByCycles, DisplayDeadline,
            IsDisplay, Turning, Drawing, Animated
    <2>2. AnimationInv'
        BY <1>2, <1>i, PassedKeeps, PassedOn
        DEF Cancel, AnimationInv, PlainInv, PhaseInv, Turning, Drawing
    <2> QED
        BY <2>1, <2>2 DEF PlainInv, PlaybackInv
<1>3. CASE Check
    <2>1. PlainInv'
        BY <1>3, <1>i, <1>t
        DEF PlainInv, Check, TypeOK, PhaseInv, ClockInv, ShownInv, SurplusInv, CyclesCounted,
            CompletionHonest, EndReached, CyclesSatisfied, ByCycles, DisplayDeadline,
            IsDisplay, Turning, Drawing, Animated
    <2>2. AnimationInv'
        BY <1>3, <1>i, PassedKeeps, PassedOn
        DEF Check, AnimationInv, PlainInv, PhaseInv, Turning, Drawing
    <2> QED
        BY <2>1, <2>2 DEF PlainInv, PlaybackInv
<1>4. CASE Limit
    <2>1. PlainInv'
        BY <1>4, <1>i, <1>t
        DEF PlainInv, Limit, TypeOK, PhaseInv, ClockInv, ShownInv, SurplusInv, CyclesCounted,
            CompletionHonest, EndReached, CyclesSatisfied, ByCycles, DisplayDeadline,
            IsDisplay, Turning, Drawing, Animated
    <2>2. AnimationInv'
        BY <1>4, <1>i, PassedKeeps, PassedOn
        DEF Limit, AnimationInv, PlainInv, PhaseInv, Turning, Drawing
    <2> QED
        BY <2>1, <2>2 DEF PlainInv, PlaybackInv
<1>5. CASE BeginFrame
    <2>1. PlainInv'
        BY <1>5, <1>i, <1>t
        DEF PlainInv, BeginFrame, TypeOK, PhaseInv, ClockInv, ShownInv, SurplusInv, CyclesCounted,
            CompletionHonest, EndReached, CyclesSatisfied, ByCycles, DisplayDeadline,
            IsDisplay, Turning, Drawing, Animated
    <2>2. AnimationInv'
        BY <1>5, <1>i, PassedKeeps, PassedOn
        DEF BeginFrame, AnimationInv, PlainInv, PhaseInv, Turning, Drawing
    <2> QED
        BY <2>1, <2>2 DEF PlainInv, PlaybackInv
<1>6. CASE EndFrame
    <2>1. PlainInv'
        BY <1>6, <1>i, <1>t
        DEF PlainInv, EndFrame, TypeOK, PhaseInv, ClockInv, ShownInv, SurplusInv, CyclesCounted,
            CompletionHonest, EndReached, CyclesSatisfied, ByCycles, DisplayDeadline,
            IsDisplay, Turning, Drawing, Animated
    <2>2. AnimationInv'
        BY <1>6, <1>i, PassedKeeps, PassedOn
        DEF EndFrame, AnimationInv, PlainInv, PhaseInv, Turning, Drawing
    <2> QED
        BY <2>1, <2>2 DEF PlainInv, PlaybackInv
<1>7. CASE RenderFails
    <2>1. PlainInv'
        BY <1>7, <1>i, <1>t
        DEF PlainInv, RenderFails, TypeOK, PhaseInv, ClockInv, ShownInv, SurplusInv, CyclesCounted,
            CompletionHonest, EndReached, CyclesSatisfied, ByCycles, DisplayDeadline,
            IsDisplay, Turning, Drawing, Animated
    <2>2. AnimationInv'
        BY <1>7, <1>i, PassedKeeps, PassedOn
        DEF RenderFails, AnimationInv, PlainInv, PhaseInv, Turning, Drawing
    <2> QED
        BY <2>1, <2>2 DEF PlainInv, PlaybackInv
<1>8. CASE Hold
    <2>1. PlainInv'
        BY <1>8, <1>i, <1>t
        DEF PlainInv, Hold, TypeOK, PhaseInv, ClockInv, ShownInv, SurplusInv, CyclesCounted,
            CompletionHonest, EndReached, CyclesSatisfied, ByCycles, DisplayDeadline,
            IsDisplay, Turning, Drawing, Animated
    <2>2. AnimationInv'
        BY <1>8, <1>i, PassedKeeps, PassedOn
        DEF Hold, AnimationInv, PlainInv, PhaseInv, Turning, Drawing
    <2> QED
        BY <2>1, <2>2 DEF PlainInv, PlaybackInv
<1>9. CASE Advance
    <2>1. ~Animated /\ ~Animated' /\ pc' = "moved"
        BY <1>9 DEF Advance, Animated
    <2>2. CyclesCounted' /\ completed_cycles' >= completed_cycles
          /\ offset' \in Nat /\ completed_cycles' \in Nat
        BY <1>9, TurnCounts DEF Advance
    <2>3. TypeOK' /\ ShownInv'
        BY <1>9, <1>i, <1>t, <2>2 DEF PlainInv, Advance, Restart, TypeOK, ShownInv, NotYet
    <2>c. CompletionHonest'
        BY <1>9, <1>i, <1>t, <2>2
        DEF PlainInv, Advance, CompletionHonest, ByCycles, DisplayDeadline, TypeOK, IsDisplay
    <2>4. ClockInv'
        <3>1. (steps + 1) * Interval = steps * Interval + Interval
              /\ steps * Interval \in Nat
            BY <1>i, OneMore DEF PlainInv, TypeOK
        <3>2. /\ position_started' = seen /\ seen' = seen /\ now' = now /\ steps' = steps + 1
              /\ seen - position_started >= Interval
            BY <1>9 DEF Advance, Restart
        <3> QED
            BY <1>i, <2>1, <3>1, <3>2 DEF PlainInv, TypeOK, ClockInv
    <2>5. SurplusInv'
        BY <1>9, <1>i, <1>t, <2>2
        DEF PlainInv, Advance, TypeOK, SurplusInv, EndReached, CyclesSatisfied, ByCycles,
            DisplayDeadline, IsDisplay
    <2>6. PhaseInv' /\ AnimationInv'
        BY <2>1 DEF PhaseInv, AnimationInv, Turning, Drawing
    <2> QED
        BY <2>2, <2>3, <2>c, <2>4, <2>5, <2>6 DEF PlaybackInv
<1>10. CASE AfterMove
    <2>1. PlainInv'
        BY <1>10, <1>i, <1>t
        DEF PlainInv, AfterMove, TypeOK, PhaseInv, ClockInv, ShownInv, SurplusInv, CyclesCounted,
            CompletionHonest, EndReached, CyclesSatisfied, ByCycles, DisplayDeadline,
            IsDisplay, Turning, Drawing, Animated
    <2>2. AnimationInv'
        BY <1>10, <1>i, PassedKeeps, PassedOn
        DEF AfterMove, AnimationInv, PlainInv, PhaseInv, Turning, Drawing
    <2> QED
        BY <2>1, <2>2 DEF PlainInv, PlaybackInv
<1>11. CASE UNCHANGED vars
    <2>1. PlainInv'
        BY <1>11, <1>i, <1>t
        DEF PlainInv, vars, TypeOK, PhaseInv, ClockInv, ShownInv, SurplusInv, CyclesCounted,
            CompletionHonest, EndReached, CyclesSatisfied, ByCycles, DisplayDeadline,
            IsDisplay, Turning, Drawing, Animated
    <2>2. AnimationInv'
        BY <1>11, <1>i, PassedKeeps, PassedOn
        DEF vars, AnimationInv, PlainInv, PhaseInv, Turning, Drawing
    <2> QED
        BY <2>1, <2>2 DEF PlainInv, PlaybackInv
<1> QED
    BY <1>1, <1>2, <1>3, <1>4, <1>5, <1>6, <1>7, <1>8, <1>9, <1>10, <1>11 DEF Show

\* Every step of show_animated keeps the invariant.
LEMMA ShowAnimatedKeeps ==
    ASSUME PlaybackInv, ShowAnimated
    PROVE  PlaybackInv'
<1> USE DEF Return, Continue, position, turns
<1>t. display \in Displays /\ IsDisplay(display) /\ DisplayDeadline \in Nat
    BY Numbers
<1>i. PlainInv /\ AnimationInv
    BY DEF PlaybackInv, PlainInv
<1>1. CASE BeginFrame \/ RenderFails
    BY <1>1, ShowKeeps DEF Show
<1>2. CASE FirstCheck
    <2>1. PlainInv'
        BY <1>2, <1>i, <1>t
        DEF PlainInv, FirstCheck, TypeOK, PhaseInv, ClockInv, ShownInv, SurplusInv, CyclesCounted,
            CompletionHonest, EndReached, CyclesSatisfied, ByCycles, DisplayDeadline,
            IsDisplay, Turning, Drawing, Animated
    <2>2. AnimationInv'
        BY <1>2, <1>i, PassedKeeps, PassedOn
        DEF FirstCheck, AnimationInv, PlainInv, PhaseInv, Turning, Drawing
    <2> QED
        BY <2>1, <2>2 DEF PlainInv, PlaybackInv
<1>3. CASE While
    <2>1. PlainInv'
        BY <1>3, <1>i, <1>t
        DEF PlainInv, While, TypeOK, PhaseInv, ClockInv, ShownInv, SurplusInv, CyclesCounted,
            CompletionHonest, EndReached, CyclesSatisfied, ByCycles, DisplayDeadline,
            IsDisplay, Turning, Drawing, Animated
    <2>2. AnimationInv'
        BY <1>3, <1>i, PassedKeeps, PassedOn
        DEF While, AnimationInv, PlainInv, PhaseInv, Turning, Drawing
    <2> QED
        BY <2>1, <2>2 DEF PlainInv, PlaybackInv
<1>4. CASE CheckAnimation
    <2>1. PlainInv'
        BY <1>4, <1>i, <1>t
        DEF PlainInv, CheckAnimation, TypeOK, PhaseInv, ClockInv, ShownInv, SurplusInv,
            CyclesCounted,
            CompletionHonest, EndReached, CyclesSatisfied, ByCycles, DisplayDeadline,
            IsDisplay, Turning, Drawing, Animated
    <2>2. AnimationInv'
        BY <1>4, <1>i, PassedKeeps, PassedOn
        DEF CheckAnimation, AnimationInv, PlainInv, PhaseInv, Turning, Drawing
    <2> QED
        BY <2>1, <2>2 DEF PlainInv, PlaybackInv
<1>5. CASE HoldFrame
    <2>1. PlainInv'
        BY <1>5, <1>i, <1>t
        DEF AnimationInv, PlainInv, HoldFrame, TypeOK, PhaseInv, ClockInv, ShownInv, SurplusInv,
            CyclesCounted,
            CompletionHonest, EndReached, CyclesSatisfied, ByCycles, DisplayDeadline,
            IsDisplay, Turning, Drawing, Animated
    <2>2. AnimationInv'
        BY <1>5, <1>i, PassedKeeps, PassedOn
        DEF HoldFrame, AnimationInv, PlainInv, PhaseInv, Turning, Drawing
    <2> QED
        BY <2>1, <2>2 DEF PlainInv, PlaybackInv
<1>6. CASE EndDraw
    <2>1. PlainInv'
        BY <1>6, <1>i, <1>t
        DEF PlainInv, EndDraw, TypeOK, PhaseInv, ClockInv, ShownInv, SurplusInv, CyclesCounted,
            CompletionHonest, EndReached, CyclesSatisfied, ByCycles, DisplayDeadline,
            IsDisplay, Turning, Drawing, Animated
    <2>2. AnimationInv'
        BY <1>6, <1>i, PassedKeeps, PassedOn
        DEF EndDraw, AnimationInv, PlainInv, PhaseInv, Turning, Drawing
    <2> QED
        BY <2>1, <2>2 DEF PlainInv, PlaybackInv
<1>7. CASE StartFrame
    <2>1. PICK delay \in MinDelay..MaxDelay : HoldFor(delay)
        BY <1>7 DEF StartFrame
    <2>2. /\ frame_end' \in Nat /\ frame_end' <= DisplayDeadline
          /\ frame_end' = DisplayDeadline \/ frame_end' >= now + MinDelay
        BY <1>i, <1>t, <2>1 DEF HoldFor, PlainInv, TypeOK
    <2>3. /\ position_started' = now /\ pc = "frame" /\ pc' = "hold"
          /\ UNCHANGED <<now, display, steps>> /\ Animated
        BY <1>7, <1>i DEF StartFrame, PlainInv, PhaseInv, Turning
    <2>4. PlainInv'
        BY <1>7, <1>i, <1>t, <2>2, <2>3
        DEF PlainInv, StartFrame, TypeOK, PhaseInv, ClockInv, ShownInv, SurplusInv,
            CyclesCounted, CompletionHonest, EndReached, CyclesSatisfied, ByCycles,
            DisplayDeadline, IsDisplay, Turning, Drawing, Animated
    <2>5. Passed(position_started)'
        BY <1>i, <2>3 DEF AnimationInv, Turning, Passed
    <2>6. AnimationInv'
        BY <2>2, <2>3, <2>5, PassedKeeps DEF AnimationInv, Turning, Drawing
    <2> QED
        BY <2>4, <2>6 DEF PlainInv, PlaybackInv
<1>8. CASE NextFrame
    <2>1. /\ Turn /\ steps' = steps + 1 /\ pc = "hold" /\ pc' = "while" /\ now >= frame_end
          /\ UNCHANGED <<display, now, cancelled, seen, surplus, position_started, frame_end>>
          /\ shown' = NotYet /\ result' = result
        BY <1>8 DEF NextFrame
    <2>2. Animated /\ Animated' /\ DisplayDeadline' = DisplayDeadline
        BY <1>i, <2>1 DEF PlainInv, PhaseInv, Drawing, Animated, DisplayDeadline
    <2>3. CyclesCounted' /\ completed_cycles' >= completed_cycles
          /\ offset' \in Nat /\ completed_cycles' \in Nat
        BY <2>1, TurnCounts
    <2>4. TypeOK' /\ ShownInv' /\ CompletionHonest' /\ PhaseInv'
        BY <1>i, <1>t, <2>1, <2>2, <2>3
        DEF PlainInv, TypeOK, ShownInv, NotYet, CompletionHonest, PhaseInv, Turning, Drawing,
            ByCycles, DisplayDeadline, IsDisplay
    <2>5. ClockInv'
        BY <1>i, <2>1, <2>2 DEF PlainInv, ClockInv
    <2>6. SurplusInv'
        BY <1>i, <1>t, <2>1, <2>3
        DEF PlainInv, TypeOK, SurplusInv, EndReached, CyclesSatisfied, ByCycles,
            DisplayDeadline, IsDisplay
    <2>7. PassedToEnd(now)'
        <3> DEFINE a == steps * MinDelay
        <3>1. a \in Nat /\ (steps + 1) * MinDelay = a + MinDelay
              /\ ((steps + 1) - 1) * MinDelay = a
            BY <1>i, OneMore DEF PlainInv, TypeOK
        <3>2. /\ a <= position_started
              /\ frame_end = DisplayDeadline \/ frame_end >= position_started + MinDelay
            BY <1>i, <2>1, <2>2 DEF AnimationInv, Drawing, Passed
        <3>3. PassedToEnd(now)' <=>
                \/ (steps + 1) * MinDelay <= now
                \/ now >= DisplayDeadline /\ ((steps + 1) - 1) * MinDelay <= now
            BY <2>1, <2>2 DEF PassedToEnd, Passed
        <3>4. now \in Nat /\ position_started \in Nat /\ frame_end \in Nat
              /\ position_started <= now
            BY <1>i DEF PlainInv, TypeOK, ClockInv
        <3> HIDE DEF a
        <3> QED
            BY <1>t, <2>1, <3>1, <3>2, <3>3, <3>4
    <2>8. AnimationInv'
        BY <1>i, <2>1, <2>2, <2>7 DEF AnimationInv, Turning, Drawing
    <2> QED
        BY <2>3, <2>4, <2>5, <2>6, <2>8 DEF PlaybackInv
<1> QED
    BY <1>1, <1>2, <1>3, <1>4, <1>5, <1>6, <1>7, <1>8 DEF ShowAnimated

\* The invariant holds throughout.
LEMMA PlaybackAlways == Spec => []PlaybackInv
<1>1. Init => PlaybackInv
    BY PlaybackInitially
<1>2. PlaybackInv /\ [Next]_vars => PlaybackInv'
    BY ShowKeeps, ShowAnimatedKeeps DEF Next, Returned
<1> QED
    BY <1>1, <1>2, PTL DEF Spec

-----------------------------------------------------------------------------
\* The variables keep their types, and no look at the clock is ahead of it, however
\* either loop is interrupted (display/mod.rs:153-282).
THEOREM PlaybackTypes == Spec => []TypeOK
<1>1. PlaybackInv => TypeOK
    BY DEF PlaybackInv
<1> QED
    BY <1>1, PlaybackAlways, PTL

\* Counting: for any width and however many cycles, the count of cycles and the
\* offset say exactly how often show has moved (display/mod.rs:196-205).
THEOREM CyclesExact == Spec => []CyclesCounted
<1>1. PlaybackInv => CyclesCounted
    BY DEF PlaybackInv
<1> QED
    BY <1>1, PlaybackAlways, PTL

\* Speed: for any interval, never more than one column per interval since the
\* start (display/mod.rs:196-206); for any delays, never more than one frame per
\* shortest delay, the frame that the end cuts apart (display/mod.rs:258-270).
THEOREM SpeedBounded == Spec => []NeverTooFast
<1>1. PlaybackInv => NeverTooFast
    <2> SUFFICES ASSUME PlaybackInv PROVE NeverTooFast
        OBVIOUS
    <2>1. steps * Interval \in Nat /\ steps * MinDelay \in Nat
        BY Numbers
    <2>2. now \in Nat /\ seen \in Nat /\ seen <= now /\ position_started \in Nat
          /\ position_started <= now
        BY DEF PlaybackInv, TypeOK, ClockInv
    <2>3. CASE ~Animated
        BY <2>1, <2>2, <2>3 DEF PlaybackInv, ClockInv, NeverTooFast
    <2>4. CASE Animated
        <3>1. PassedToEnd(now) \/ Passed(position_started)
            BY <2>4 DEF PlaybackInv, AnimationInv, PhaseInv, TypeOK, Turning, Drawing,
                PassedToEnd
        <3> QED
            BY <2>1, <2>2, <2>4, <3>1 DEF NeverTooFast, PassedToEnd, Passed
    <2> QED
        BY <2>3, <2>4
<1> QED
    BY <1>1, PlaybackAlways, PTL

\* Completion: Ok means the requested cycles and minimum, or the duration as far
\* as the worker deadline allows (display/mod.rs:172-182, 186-214).
THEOREM OkMeansDone == Spec => []CompletionHonest
<1>1. PlaybackInv => CompletionHonest
    BY DEF PlaybackInv
<1> QED
    BY <1>1, PlaybackAlways, PTL

\* Lateness: at most one frame is begun after the requested end
\* (display/mod.rs:172-184).
THEOREM OneSurplusFrame == Spec => []AtMostOneSurplusFrame
<1>1. PlaybackInv => AtMostOneSurplusFrame
    BY DEF PlaybackInv, SurplusInv, AtMostOneSurplusFrame
<1> QED
    BY <1>1, PlaybackAlways, PTL

\* Order: every move leaves an offset that has been on the panel, or a frame that has
\* had its time, for the next one, wrapping at the width (display/mod.rs:184-206,
\* 258-270).
THEOREM NoOffsetSkipped == Spec => EveryOffsetShown
<1>1. ASSUME PlaybackInv, [Next]_vars, turns' # turns
      PROVE  /\ \/ shown <= now
                \/ Animated /\ now >= position_started + MinDelay
                \/ Animated /\ now >= DisplayDeadline
             /\ offset' = (offset + 1) % display.width
    <2>1. Advance \/ NextFrame
        BY <1>1 DEF Next, Show, Check, Limit, BeginFrame, EndFrame, RenderFails, Hold,
            AfterMove, ShowAnimated, FirstCheck, While, CheckAnimation, StartFrame, HoldFrame,
            EndDraw, Tick, Cancel, Returned, vars, position, turns
    <2>2. Advance => shown <= now
        BY <1>1 DEF Advance, PlaybackInv, ShownInv
    <2>3. ASSUME NextFrame
          PROVE  Animated /\ (now >= position_started + MinDelay \/ now >= DisplayDeadline)
        <3>1. pc = "hold" /\ now >= frame_end
            BY <2>3 DEF NextFrame
        <3>2. Animated
            BY <1>1, <3>1 DEF PlaybackInv, PhaseInv, Drawing
        <3>3. frame_end = DisplayDeadline \/ frame_end >= position_started + MinDelay
            BY <1>1, <3>1, <3>2 DEF PlaybackInv, AnimationInv, Drawing
        <3>4. now \in Nat /\ frame_end \in Nat /\ position_started \in Nat
            BY <1>1 DEF PlaybackInv, TypeOK
        <3> QED
            BY <3>1, <3>2, <3>3, <3>4
    <2>4. display.width \in Nat \ {0} /\ offset \in Nat /\ offset < display.width
        BY <1>1 DEF PlaybackInv, TypeOK, CyclesCounted, IsDisplay
    <2>5. offset' = IF offset + 1 = display.width THEN 0 ELSE offset + 1
        BY <2>1 DEF Advance, NextFrame, Turn
    <2> QED
        BY <2>1, <2>2, <2>3, <2>4, <2>5, NextColumn
<1>2. PlaybackInv /\ [Next]_vars =>
        [turns' # turns =>
            /\ \/ shown <= now
               \/ Animated /\ now >= position_started + MinDelay
               \/ Animated /\ now >= DisplayDeadline
            /\ offset' = (offset + 1) % display.width]_vars
    BY <1>1
<1> QED
    BY <1>2, PlaybackAlways, PTL DEF Spec, EveryOffsetShown
=============================================================================
