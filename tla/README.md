# led-service2 in TLA+

led-service2 drives an LED matrix (or a window that emulates one) from images
received over gRPC. It is one process with two threads: the gRPC thread serves
`SendImage` and admits requests into a queue of ten, the main thread takes them
out one at a time and displays each until it ends, is stopped, or runs out of
its time budget. Around it stand a client, a probe, an Ansible role that installs
releases, and a check that publishes whether the service is available. This
directory holds models of these parts, the configurations that check them with
TLC, and proofs, checked with TLAPS, of safety properties for every value of
their parameters.

| module | what it is |
| --- | --- |
| `DisplayChannel` | what the threads share: cancellation flag, bounded queue, its two ends |
| `GrpcServer` | the gRPC thread of `main.rs` and the handlers of `service.rs` |
| `Worker` | the main thread: `run_loop`, `process_request`, display loops, backends |
| `LedServer` | both threads, `join` and the exit status; the properties; the refinement mapping |
| `DisplayService` | the abstract service: what a client may rely on, with no threads |
| `LedServerInv` | the inductive invariant of `LedServer` |
| `Playback` | one call of `show` or `show_animated` against a clock |
| `Picture` | `prepare`, `fill_pixels` and both `render_frame`s, pixel by pixel |
| `Config` | `Config::from_env` and `ImageLimits` as operators |
| `ImageBudget` | start of the program, decoding and rendering, with a ledger of the bytes held |
| `ClientCall` | `led-client`, `led-server --check` and other callers against a server that changes |
| `Deployment` | the role that installs, migrates, updates and rolls back releases |
| `Monitor` | the availability check, its timer and its timeouts |
| `MC...` | the modules TLC is run on (`Monitor` is run on itself) |
| `...Proofs` | theorems: `LedServer` and `Request` (both about `LedServer`), `Playback`, `Picture`, `ImageBudget`, `ClientCall`, `Deployment`, `Monitor` |

Run `tlc -config X.cfg M` with the module of the table in section 4, and
`tlapm X.tla` for the proofs.

## 1. Inventory

### Components

**Shutdown flag** (`src/src/shutdown.rs`). One bit in a tokio watch channel, set
by `cancel`, never reset. Both threads hold a `CancelOnDrop` guard, so however a
thread ends, the other hears of it. `Work::check` turns flag and deadline into
`Stopped`. Correct when: a cancellation is never missed by a later subscriber;
each thread's end cancels the other.

**Request queue** (`main.rs:74`). A std `sync_channel(10)`. Senders live in the
service (and die with it: with the server future, or with the runtime when
connections linger); the receiver is a parameter of `run_loop`, and belongs to a
closure when the display cannot be created. Correct when: never over its bound,
first in first out, nothing accepted once the receiver is gone.

**gRPC thread** (`main.rs:80-116`). Builds the runtime, binds, serves; on a
signal or a cancellation stops accepting and drains for up to 2 s; returns,
dropping guard and runtime in this order (edition 2021: the runtime is a
temporary of the tail expression). Hard: bind failure while the worker is
healthy, a worker that dies while clients are connected, a drain that times out
with handlers half way.

**SendImage handlers** (`service.rs`). Concurrent, without an await point: read
the flag, validate, `try_send`, answer. Hard: everything may happen between the
flag and the queue. Correct when the answer is the truth about the queue.

**Worker loop** (`worker.rs:17-161`). Poll the window, receive with a 16 ms
timeout, compute the deadline, read the flag again, process, clear, report; at
the end a last clear, the guard, the receiver. `process_request` loads the
eye-catch lazily inside the first request's budget, starts the jingle, shows
the eye-catch, clears, decodes and shows the request. Hard: early returns at
every step, the order of the match arms, a decoder that hides `Stopped` in an
error of its own, `clear()?` that takes a request's result with it.

**Display loops** (`display/mod.rs`). `prepare` scales with a check on each row;
`show` displays a static or scrolling image for a duration or for cycles;
`show_animated` plays a GIF for a duration. Hard: three ends race (its own, the
worker's, a shutdown) and the loops look at them in different orders; a slow
frame shifts the scroll.

**Backends** (`display/rpi.rs`, `display/emulator.rs`). The matrix cannot fail
after creation. The emulator opens its window with the first frame, knows its
state as of the last event pump, ends the service when it is closed or Escape is
down, and its drawing may fail.

**Decoders** (`decode.rs`). Dimensions and the size of one frame are checked from
the header; a GIF's frames are counted, each and in total, before they are kept.
Half of `MAX_DECODED_BYTES` is for the image crate's own buffers. Hard: a limit
compared before or after the addition; limits of the crate on top of ours.

**Configuration** (`config.rs`). Read once from the environment. Most variables
that do not parse fall back to a default, limits and two others must not.
`check_panel` promises at the start that pictures can be shown; the checks at
display time are other formulas. Correct when they never disagree.

**Client** (`bin/client.rs`) and **probe** (`led-server --check`). The client
validates its options before it sends, the server validates the message again,
an older server knows fewer fields. The probe recognises a healthy server by the
message of the first validation error. Hard: two validations that must agree; a
timeout on either side of the admission; the order of the validation, which the
probe depends on.

**Deployment role** (`ansible/roles/led_service2_release`). State on the device:
a lock directory, release directories, `current` and `.current-next`, the unit,
the override of a migration, the environment file, and what systemd has loaded
and runs. Blocks with `rescue` and `always`; any task may fail, also in a rescue;
the controller may be cut off. Correct when runs exclude each other, links are
complete, a failed run restores, and a successful one runs what was asked for.

**Monitor** (`ansible/roles/led_service2_monitor`). A timer starts a check that
asks systemd, the service and systemd again and replaces one file. Hard: three
timeouts under the start timeout of the unit; a service that restarts between
two answers; a check that is killed between any two steps.

**Jingle**, **release and CI scripts**, **build files**: see
[Not modelled](#8-not-modelled).

### Interactions

| from | to | through |
| --- | --- | --- |
| handler | worker | `try_send` / `recv_timeout` on the queue |
| worker end, guard, `main` | gRPC thread, handlers | the flag |
| signal, bind failure, guard | worker | the flag; the drop of the senders |
| window | worker | `WindowClosedError` from a poll or a frame |
| clock | worker | the deadline in `Work`, the limit of the display |
| both threads | process | results joined by `main` into the exit status |
| client, probe | handler | one unary call; either side may give up |
| environment | decoders, display | limits, copied into the configuration once |
| role | service | links and unit on disk; `systemctl`; the probe |
| monitor | service | `systemctl`, the probe; the published file |

### What could go wrong

The list with its lines is `hazards` in `PROJECT.json`. The main ones: a request
acknowledged and lost; a request begun after the service was told to stop; one
thread that stops and another that does not notice; a stop reported as success;
an eye-catch disabled by an interruption; a panel left lit; an error reported as
a timeout or the reverse; a cycle counted that was not shown; a frame sampled
outside of its image; buffers that a check forgot; a picture that an accepted
panel cannot show; options the client lets through and the server refuses; a
probe that lights the panel or finds a healthy server ill; two deployments at a
time; a rescue that restores something that never ran; a snapshot that mixes two
moments or outlives its check.

## 2. Plan

Done, in this order: `DisplayChannel`, `GrpcServer`, `Worker`, `LedServer` (the
core), `DisplayService` and the refinement, the inductive invariant and its
proofs, `Playback` (first `show`, then `show_animated`) and its proofs,
`ClientCall`, `Picture`, `Config` and `ImageBudget`, `Deployment`, `Monitor`, and
the proofs about each of them. Every safety property of a passing run is a
theorem now.

Left, most useful first:

1. A refinement from `Playback` to the untimed loop of `Worker`, with its proof.
2. Lemmas that reduce the liveness properties to the safety ones: which steps
   bring a run or a request nearer to its end.
3. The CI gate of the release scripts, as pure operators over the conclusions of
   CI runs.

## 3. Model and code

### The two threads

| variable | code |
| --- | --- |
| `shutdown` | the watch value of `Shutdown` |
| `queue`, `senders`, `receiver` | the channel: contents, and whether either end is alive |
| `grpc`, `grpcResult` | where the gRPC closure is, what it returns |
| `rpc[r]` | per call: not sent, past the flag (`checked`), or its answer |
| `wpc` | the next step of the main thread; one location for each place where the flag, clock, queue or window is looked at |
| `cur`, `result`, `loaded`, `frames` | `req`, the result of `process_request`, `eyecatch_loaded`, `eyecatch_frames.is_some()` |
| `expired`, `elapsed` | the worker deadline has passed; the display's own limit is reached |
| `panel`, `window` | what was last drawn; the window as of the last event pump |
| `workerResult`, `exit` | `worker_result`, the exit status |
| `faults`, `outcome`, `late` | history, read by no action |

Threads interleave step by step: no two reads of shared state share a step
unless nothing can tell the difference. Time is abstract in `LedServer`
(`DeadlinePasses`, `DisplayEnds` may happen between any two steps) and a number
in `Playback`.

Points where the code is subtler than it looks, and the model follows it:

- the flag is read by the handler before validation and not again, so calls are
  admitted after a cancellation until the receiver is dropped (`Submit`);
- after a failed runtime the service, and a sender, lives until the closure is
  dropped; after a failed bind it does not (`GrpcFails`);
- after a drain timeout connections, and calls, go on until the runtime is
  dropped (`DrainTimeout`, `Connected`);
- if the display cannot be created the receiver is dropped before the flag is
  set (`CreateFails`, `earlyDrop`);
- the interruption of an eye-catch load is looked at before the result, so an
  interrupted load is repeated (`LoadEyecatch`);
- `show` looks at the clock after its check, `show_animated` before it; the
  cycle limit has no deadline of its own (`ShowLimit`, `LimitReached`);
- `show_animated` checks its own clock once more before the first frame, so a
  duration that is over by then ends as `Stopped` (`Prepare`), which the log
  calls a worker timeout;
- the emulator's `clear` draws nothing while Escape is down (`Clear`).

### Playback

`Playback` gives the loops of `show` and `show_animated` a clock: `Tick` may
happen between any two steps, and while a frame is being rendered (`BeginFrame`
to `EndFrame` or `EndDraw`). `steps`, `shown` and `surplus` are history. The look
at the clock after a frame of `show` serves three tests, so it is a variable,
`seen`. `show_animated` draws a frame again and again until `frame_end`, the
earlier of the frame's delay and the end of the display; delays are any number
from `MinDelay` to `MaxDelay`, where the code clamps those of the file. An image
is a number of columns, an animation a number of frames, everything else about
them is left out; a static image is a scroll that never moves. For an animation
`offset` is the index of the frame and `completed_cycles` counts how often it
wrapped.

### Pictures

`Picture` follows one image from the check of its sizes over the rows of the
canvas (`Row`) and the frame cut out of it (`Fill`) to the panel (`Render`). A
pixel is the place it was sampled `at` and its blended `level`. `Wrap` gives
every product the width of its type. `Lit` is `render_frame` of each backend: the
emulator looks pixels up by row and column, the matrix is told each pixel of the
frame in turn.

### Configuration and memory

`Config` is `from_env` as operators: a raw variable is unset, not Unicode,
garbage or a number, and each parser treats these differently. `ImageBudget`
starts the program with it and takes one picture after the other. `kept`,
`retained` and `made` are counters of the code; `canvas`, `pixels` and `screen`
are a ledger of the bytes really held, against which the checks of the code are
measured. Numbers are exact, see section 8.

### Client and probe

`ClientCall` has one action per step of a call (`StartClient`, `PrepareClient`,
`Connect`, `GiveUp`, `Finish`), the whole handler as one step (`Handle`; its
interleavings are those of `GrpcServer`), and a server that may be stopped, hang,
die and be installed in either of two versions in between. A caller that gave up is
`gone`, but its call may still be handled until the process dies (`Pending`). `Args` are the records
clap lets through, `Requests` the messages of programs that speak the API
themselves. The older version is a server that knows no cycles; it is modelled
from what the client's comments say of it.

### Deployment

`device` is what is on the device, `run[c]` the registered variables of the run of
controller `c` and the task it is at (`pc`). One action per task that changes the
device or decides; tasks that only read are joined with the next one. `Fail`
lets any task fail, with whatever it may have done by then (`Halfway`), and goes
on at the innermost `rescue` or `always` (`OnFailure`). `Cut` ends a run without
any. `Respawn` is `Restart=` of the unit. `before` is history.

### Monitor

Time is in seconds: `since` the timer last fired, `spent` on the current command,
`age` of the published time. A command takes any time up to its `Limit` and
answers truthfully or not at all; `Kill` may stop the check at any step, and the
start timeout is what no `Tick` passes. `seen` and `disturbance` are history.

### The abstract service

`DisplayService` has a waiting line, one request being shown, a status for each
request and two flags. It promises: accepted requests are shown in order, one at
a time; a refusal has a reason (malformed, full, closing); nothing begins after
closing; what is not shown is dropped by a closing service only.
`LedServer!Service` maps the threads onto it. The waiting line is the queue plus
the request that was received and not begun, which is why it may be one longer
than the channel's capacity.

## 4. Runs

| run | module, cfg | instance | question |
| --- | --- | --- | --- |
| `rpi` | `MCLedServer`, `Rpi` | matrix, eye-catch, a GIF, a still, a cycle and a malformed request, queue of one | Are requests accounted for, the panel dark when idle, the eye-catch kept, the reasons honest? |
| `emulator` | `MCLedServer`, `Emulator` | window, eye-catch, a `WORKER_TIMEOUT` that may overflow, a GIF and a cycle request | With a window that closes and drawing that fails at any time: exit status honest, exit quiescent, at most one late frame; every stop ends the process, every admitted request ends; do the threads implement `DisplayService`, fairness included? |
| `playback` | `MCPlayback`, `Playback` | 1 to 3 columns or frames, up to 2 cycles, interval 2, delays 2 to 4, deadline 8 | Cycles exact, no offset or frame skipped or hurried, Ok honest, at most one surplus frame; does every call return? |
| `client_call` | `MCClientCall`, `ClientCall` | every option and message for one caller, a competitor, queue of one | Do the two validations agree, is what is admitted playable as asked, is everybody told the truth, is the probe harmless and right? |
| `picture` | `MCPicture`, `Picture` | images and panels up to four pixels a side, all modes, both backends | Is every sample in range and in order, does anything wrap, does each pixel arrive in its place? |
| `budget` | `MCImageBudget`, `ImageBudget` | 167 environments, numbers within and beyond every type, limits below, at and above what is needed, both backends | Are limits those that were written, do they bound what is held, is only refused what does not fit, can an accepted panel show? |
| `deployment` | `MCDeployment`, `Deployment` | two controllers, three releases of which one is broken, two runs, two failed tasks, one lost controller | Do runs exclude each other, are links complete, what do failed and successful runs leave, does every run end? |
| `monitor` | `Monitor`, `Monitor` | the times of the repository, one counted restart | Is the published file complete, founded and recent, is the start timeout never met? |
| `gif_timeout`, `escape_idle`, `playback_held`, `redeploy` | `GifTimeout`, `EscapeIdle`, `PlaybackHeld`, `Redeploy` | small | four disagreements, section 7 |

Bounds of `LedServer`. `Requests` are the calls of one run of the program. With a
queue of one, one call is shown, a second waits and a third is refused, so the
three well-formed calls of `rpi` meet every combination of full, waiting, received
and shown; a longer queue only repeats them. Kinds matter to the code in three
ways only (GIF or not, by cycles or not, malformed or not), and each is present.
Eye-catch and backend are fixed by configuration and build, hence constants.
Calls are not interchangeable (their kinds differ), so no symmetry is used.

Bounds of the others. In `playback`, the clock stops at `MaxTime = 10`, past the
deadline of 8; an interval of 2 lets a frame be early, on time and late; widths 1
to 3 have the wrap at once, at the next and after an inner offset; durations and
minimum times lie before and after the deadline. In `picture`, sizes 1 to 4
contain every relation between image, panel and their ratios (equal, multiple,
coprime, larger, smaller), and size 5 is over `MaxDimension`; `Word` is the
smallest power of two that holds the largest product. In `budget` one variable
at a time leaves the usual environment, and the two limits that interact are
varied together. The widths of u32 and u64 (also usize, on 64 bits) are `U32 = 2^15`
and `U64 = 2^30`, since TLC's integers have 32 bits: the square of the one is the
other, as in the program, every default is below `U64` and those of u32 settings are
below `U32`, and each variable takes numbers below, at and above both. A cast to a
narrower type is `%`. In `client_call` the values of an option are those the code
tells apart. In `deployment` two runs meet in every order (the second refused by
the lock, or after the first succeeded, failed, was cut off), with two faults a
task and its rescue both fail; all five safety properties are proved for any number
of runs. In `monitor`, `Timeout`, `ProbeTimeout`, `StartTimeout`,
`Period` and `Accuracy` are the repository's own values.

`CHECK_DEADLOCK` is on where the code ends in a way of its own: the end of the
process, of a call, of a picture or of a refused start (`Exited`, `Returned`,
`Ended`) are explicit stuttering steps, and nothing else may stop. It is off for
`client_call`, where each caller makes one call and then nothing needs to happen,
and for `deployment` and `redeploy`, where the number of runs is bounded by
`MaxRuns`.

## 5. Fairness

`FairSpec` of `LedServer` assumes, and the code justifies:

- the gRPC thread and the main thread run when they can (weak fairness of
  `GrpcThread` and `WorkerThread`): OS threads, no lock is held across a wait;
- a handler that has begun finishes (`Finish(r)`): it has no await point and is
  on a tokio worker;
- time advances (`DeadlinePasses`), and `main` returns from `join` (`Join`).

It does not assume that a signal arrives, that clients call, that a display ends
by itself (`DisplayEnds`: cycles need frames to make progress) or that a drain
finishes before its timeout. `Playback!FairSpec` assumes the thread runs and
the clock ticks. `Deployment!FairSpec` assumes of each run that its next task is
performed (commands have timeouts, retries and pauses are counted); it does not
assume that tasks succeed, that a controller survives, or that an operator
removes a lock. A call that blocks for ever inside a library (a decoder, the
matrix driver, the window system) is outside the models. `ClientCall`, `Picture`,
`ImageBudget` and `Monitor` state safety only.

## 6. Proofs

All theorems hold for every set of requests, capacity, backend, eye-catch,
timeout, image, panel, environment, number of controllers and runs. The
assumptions on constants are those of the modules (`CapacityAssumption`: a
positive capacity, `MalformedAssumption`, `KindsAssumption`: the kinds are sets
of requests, GIFs have no cycles, `PlaybackAssumption`: requests as validated,
natural times, `PictureAssumption`: natural sizes and a word that holds the
doubled cube of the largest dimension, `WidthsAssumption`: a u8 is narrower than a
u32 and that narrower than a u64, `ImageBudgetAssumption` and
`DeploymentAssumption`: types, `ClientCallAssumption`: the options clap lets
through and a positive capacity, `MonitorAssumption`: positive times). Two theorems
have a hypothesis of their own: `RpiPanelDark` (no window) and `CheckIsInTime` (the
timeouts fit).

### The two threads

None of the properties is inductive. `LedServerInv!IndInv` adds what they rest
on, a part for each concern:

- `TeardownInv`: the order of the end. The receiver is gone exactly from
  `cancel` on; the gRPC thread has cancelled before it can be joined; the
  process has exited only after both. Gives `QuiescentExit`.
- `ExitStatusInv`: a thread's result is decided once, and is an error exactly
  when something fatal happened to this thread. Gives `HonestExitStatus`.
- `HoldInv` with `Accounted`: the worker holds a request exactly in the
  locations that need one. Gives `AdmittedIsAccounted`: no acknowledged request
  is lost or doubled.
- `LateFrameInv`: a late frame leaves the loop in a place where the next test
  stops it; `Stop` never goes back. Gives `OneLateFrame`.
- `StopInv`: a result says "stopped" only with a reason. Gives `HonestReasons`.
- `DarkInv`: without a window the matrix is dark outside the work on a request.
  Gives `RpiPanelDark`, which assumes `~HasWindow` because the emulator does
  violate the property (section 7).
- `EyecatchKept`, and `CyclesInv`: Ok of a cycle display means its cycles are
  complete. Give `EyecatchIsKept` and `CompletedCyclesShown`.

Each part is proved from type correctness and itself, one step per action; the
frame lemmas (`ProcessRequestFrame`, `TimeFrame`, ...) say once what a group of
actions leaves alone. `RequestProofs!InvariantHolds` puts the parts together.

`RequestProofs!ImplementsSafety` proves `Spec => Service!Safety`: each step
of either thread is a step of the abstract service or a stutter (a `Submit` is
`Accept` or `Refuse`, `Begin` is `Begin`, `Report` and the failing `Settle` are
`End`, a cancellation or the way out of the loop is `Close`, the drop of the
receiver is `Drop`). It uses `TypeCorrect`, `AdmittedIsAccounted` and the
teardown part.

### Playback

`PlaybackProofs` proves the five safety properties from `PlaybackInv`.
`ClockInv` carries the speed: `steps * Interval <= position_started <= seen <=
now` for `show`; for an animation `AnimationInv` says that each frame before the
current one had its shortest delay, or that the display is at its end.
`SurplusInv` says that a reached end stays reached and the next test sees it,
`ShownInv` that an offset is rendered before it can be left. The arithmetic with
two variables is isolated in `OneMore` and `NextColumn`.

### Pictures and memory

`PictureProofs` rests on `PictureInv` (what has been drawn is what `Pixel` says of
its position, for sizes that were checked) and on lemmas about the arithmetic: the
quotients of the coordinate mapping stay below the size and are monotone
(`SampleInRange`, `QuotientMonotone`), products stay below the word
(`WordBounds`, `NoWrap`). From these: no sample is outside of the image, no
product wraps, the picture is in order, nothing becomes brighter
(`NeverBrighter`, for every colour and alpha).

`PanelShowsTheCanvas` needs `FrameInv`: the frame holds, pixel by pixel in row-major
order, the canvas from the offset on, wrapped at its width. The matrix is told the
pixels in the order of an iterator, the emulator looks them up by index;
`RowMajor` and `IndexOfPlace` say that both mean the same place (the division of
`y * cols + x` by `cols`, for every panel), and `FillsTheFrame` that
`fill_pixels` leaves such a frame.

`ImageBudgetProofs` rests on `BudgetInv`: `ConfigInv` (a program that runs has the
configuration that passed the checks), `IdleInv` (nothing is held between
pictures), `DecodeInv` (`retained = kept * FrameBytes`, within the budget) and
`RenderInv` (`pixels = made * PanelBytes`, a canvas and a screen buffer at the
locations that have one). The products of two variables are bounded in lemmas, so
that each step is linear. `OutcomeInv` carries, for refused and shown pictures,
what their sizes were. `PanelGetsItsSettings` rests on `MatrixInv`, the options the
matrix was created with. The attempt to prove it showed that the property had been
stated wrongly: a slowdown that is a number but out of range does not parse either,
so the option is left out then as well (`rpi.rs`). The run has an environment now that
tells the two apart. Two settings are cast to a narrower type on the way: the bits to
u8 before their range is checked, so that 267 is 11; the refresh rate to u32
(`RefreshNarrowed`). The theorem says that a refresh rate that is a u32 arrives as it was
written, and that what is no usize is never "no limit". It says nothing of the numbers
between the two types, of which the cast makes something else (section 7).

### Deployment

`Exclusive` (types and `OneDeployment`) is inductive: a run gets past `lock` only
by taking the lock, and only a run past `lock` releases it or is cut off with it.
`LinksComplete` needs to know where a run is: `RunInv` says, per task, which
release the next steps will link and that it is complete, that the release a
rescue goes back to is still complete, and that the preserved program is written
only while nothing links it; `LinksSafe` is this for every run with `LinksInv` for
the device. Because of `Exclusive` only one run can disturb it at a time.

`FailedRunsRestore` and `SuccessfulRunsSucceed` rest on `Traceable`, which says for
every task what has become of the device since the run took its lock (`before`): a
rescue restores what its block changed only if it is known, wherever the block was
left, what that was. `StageInv` has a part for each file of the role: `KindInv` (what
the state read at the start says of the run), `PreparingInv` (nothing has been
changed yet), `MigratingInv`, `ActivatingInv`, `InstallingInv` (what has been made,
what is loaded and running, and, in the rescue, what is still to be taken back) and
`OutcomeInv` (the device before `cleanUp`). `SourceInv` is about the device alone:
systemd knows the original service by its own unit only, without which reloading in
the rescue of a migration would not bring it back. Each task is a lemma about one
device and one run (`MigrateStages`, `ActivateStages`, `InstallStages`,
`NotingStages`, and `FailedStage` for a task that fails with part of its work done);
the steps of `Next` then only say which run moves.

`RunsRemoveOnlyTheirOwn`, the action property, uses `Traceable` and `LinksSafe`: the
tasks that remove a file are reached only by runs that found none (`FileRemovals`),
also when they fail half done (`FailRemovals`).

### Clients and probe

`CallsInv` has a part for each call (`CallInv`) and one for each entry of the queue
(`Entry`). `Told`: a call is admitted exactly when its answer is ok, also where nobody
waits for the answer any more (`gone`), so no call is admitted twice. `ClientInv`:
what a client has sent passed its own validation. `ProbeInv`: the probe's message is
the one that can only be refused. `Entry`: what is queued is playable, in the mode its
client asked for. The step that matters is `Handle`, on either version of the server;
it rests on `ClientIsValid`, where the two validations are compared by a case
distinction over the options.

### Monitor

`FileInv` (only a temporary file that was written to its end is renamed) gives
`SnapshotIsComplete`, `FoundedInv` (the sample claims nothing that was not seen since
the check began) `PublishedIsFounded`. `ClockInv` adds the limits of the commands
before the current one; under `StartTimeout > Longest`, which the repository's values
satisfy (5 s for each answer of `systemctl`, 3 s for the probe, 15 s for the unit), it
gives `CheckIsInTime`. `AgeInv` couples the age of the published
time with the time since the timer fired and gives `PublishedIsRecent`, without any
condition on the timeouts.

### Only model-checked

Liveness, which the provers do not handle: `StopLeadsToExit`, `AdmittedIsResolved`,
`ShowReturns`, `RunEnds`, and the fairness part of `ImplementsService` (its safety
part is `ImplementsSafety`). The four disagreements of section 7 are shown by TLC on
their runs.

## 7. Findings

- **A GIF cut by the worker deadline is logged as completed** (`GifTimeout`).
  `show_animated` takes the earlier of its duration and the deadline as its end
  and returns Ok; README.md:270 says interrupted work is logged with
  `worker_timeout`. A still image in the same situation is stopped by the check
  that precedes the limit, and logged as a timeout (unless the deadline falls
  between the two).
- **The emulator can stay lit while idle** (`EscapeIdle`). Escape down at the
  clear and up at the next poll: the clear draws nothing, the poll sees nothing,
  the loop goes on. `worker.rs:57` says the panel is cleared in every case.
- **An offset may be counted before it was held** (`PlaybackHeld`). The interval
  runs from the moment the offset was chosen, before it is rendered; README.md:262
  and ADR-0001 count an offset once it "has been rendered successfully and held".

- **Deploying the linked version again does not verify what runs** (`Redeploy`).
  Whether to restart is decided from the link, and the probe asks whatever
  answers: after a run whose restart and rescue both failed, or that was cut off
  between the switch and the restart, the old process answers and the run
  reports success. RELEASE.md:142-143 says "Applying the active version verifies
  it without restarting".

Seen while reading, without a run: a GIF's completion is logged without the
`reason=` the README promises for normal completion; a GIF whose duration is
over before its first frame is logged as `worker_timeout`. `PANEL_REFRESH_RATE` is
parsed as a usize and cast to a u32 (`rpi.rs:26`): a value of 2^32 or more is cut to
its low 32 bits, and 4294967296 becomes a limit of 0, which is "no limit", though
README.md:155 gives that meaning to `0` only. `ImageBudget` has the cast, and
`PanelAsConfigured` is restricted to values that are a u32.

## 8. Not modelled

- Panics (the guards cover them in the code: both are dropped while unwinding),
  and signals that arrive before the handlers are installed, which end the
  process by default.
- The jingle (`worker.rs:216-354`): a detached thread for each request, which
  nobody joins; no state of the program depends on it. That overlapping requests
  overlap their sounds is listed as a hazard without a property.
- The decoders of the image crate: what they allocate besides the frames, how
  GIF frames are composed from the file. Their outcomes are in `Worker`, their
  budget is the half of the limit that `ImageBudget` leaves to them.
- An eye-catch with a duration of zero, which is loaded and never shown.
- Numbers near the end of u64 in the sizes of the buffers (`config.rs:188`,
  `mod.rs:88`): the models compute exactly, no panel is near that size. Wrapping is modelled where
  the code's own limits bound it, in `Picture`.
- Paths and intervals of the configuration, logging setup, argument parsing.
- Of the deployment: downloads and checks on the controller, permissions, owners
  and enablement of the unit, a reboot of the device. Of the monitor: the tasks
  that install it.
- The scripts of releases and CI (`scripts/`): decisions on the answers of an
  external service, with no state of their own. Section 2, item 3.
- Build files, generated gRPC code and vendored data: no behaviour of the
  service.
