------------------------------ MODULE ClientCall ------------------------------
(***************************************************************************)
(* Calls of SendImage from the caller to the display queue. The callers are *)
(* led-client, the probe led-server --check, and any other program; the    *)
(* server may be upgraded, rolled back, stopped or stuck between two steps *)
(* of a call, and every caller may give up first.                          *)
(***************************************************************************)
EXTENDS Integers, Sequences

CONSTANTS
    Callers,     \* processes that make one call each
    Args,        \* what clap lets through to each of them, as records
    Requests,    \* what each may send that is neither led-client nor the probe
    Capacity     \* of the display queue

Gifs == {"image/gif", "IMAGE/GIF"}         \* eq_ignore_ascii_case
Ppms == {"image/x-portable-pixmap"}        \* is_ppm
Modes == {"Unspecified", "Static", "Scroll"}

\* Each file name is one of these kinds; `cycles` is 0 when the option is absent.
IsArgs(a) ==
    /\ a.file \in {"unreadable", "empty", "data"}
    /\ a.extension \in {"ppm", "gif", "png", "other"}
    /\ a.mode \in {"none", "Static", "Scroll"}
    /\ a.duration \in Nat \ {0}
    /\ a.cycles \in Nat /\ a.minimum \in Nat

ASSUME ClientCallAssumption ==
    /\ \A c \in Callers : \A a \in Args[c] : IsArgs(a)
    /\ Capacity \in Nat \ {0}

VARIABLES
    server,    \* what listens at the address
    queue,     \* the display requests admitted and not yet taken
    kind,      \* which program each caller is
    args,      \* the command line of each client
    request,   \* the message of each call
    pc,        \* where each caller is
    reply,     \* the status or transport error on its way to each caller
    exit,      \* what each caller tells its user
    admitted   \* history: how often a request of each caller entered the queue

vars == <<server, queue, kind, args, request, pc, reply, exit, admitted>>

Statuses == {"ok", "image_required", "INVALID_ARGUMENT", "RESOURCE_EXHAUSTED", "UNAVAILABLE"}

NoArgs == [file |-> "unreadable"]

\* SendImageRequest::default()
DefaultRequest ==
    [image |-> "missing", mime |-> "empty", mode |-> "Unspecified", duration |-> 0,
     cycles |-> 0, minimum |-> 0]

Init ==
    /\ server = "current"
    /\ queue = <<>>
    /\ kind = [c \in Callers |-> "none"]
    /\ args = [c \in Callers |-> NoArgs]
    /\ request = [c \in Callers |-> DefaultRequest]
    /\ pc = [c \in Callers |-> "idle"]
    /\ reply = [c \in Callers |-> "none"]
    /\ exit = [c \in Callers |-> "none"]
    /\ admitted = [c \in Callers |-> 0]

Clients == {c \in Callers : kind[c] = "client"}
Probes == {c \in Callers : kind[c] = "probe"}

Step(c, from, to) == pc[c] = from /\ pc' = [pc EXCEPT ![c] = to]

\* The caller ends, and what it reports.
Exit(c, from, verdict) ==
    /\ Step(c, from, "done")
    /\ exit' = [exit EXCEPT ![c] = verdict]

-----------------------------------------------------------------------------
(* led-client.                                                             *)

\* detect_mime, and the guess for an unknown extension
DetectMime(extension) ==
    CASE extension = "ppm" -> "image/x-portable-pixmap"
      [] extension = "gif" -> "image/gif"
      [] OTHER             -> "image/png"

MimeType(a) == IF a.mime = "none" THEN DetectMime(a.extension) ELSE a.mime

\* Mutation: the type is compared as it is spelled.
ValidExactSpelling(a) ==
    /\ a.minimum > 0 => a.cycles > 0
    /\ a.cycles > 0 => MimeType(a) # "image/gif" /\ a.mode # "Static"

\* validate_scroll_options
ValidScrollOptions(a) ==
    /\ a.minimum > 0 => a.cycles > 0
    /\ a.cycles > 0 => MimeType(a) \notin Gifs /\ a.mode # "Static"

DisplayModeOf(a) ==
    CASE a.mode # "none" -> a.mode
      [] a.mode = "none" /\ a.cycles > 0 -> "Scroll"
      [] OTHER -> "Unspecified"

\* The duration is sent along with the cycles, for a server that knows only it.
ClientRequest(a) ==
    [image |-> a.file, mime |-> MimeType(a), mode |-> DisplayModeOf(a),
     duration |-> a.duration, cycles |-> a.cycles, minimum |-> a.minimum]

StartClient(c) ==
    /\ Step(c, "idle", "started")
    /\ kind' = [kind EXCEPT ![c] = "client"]
    /\ \E a \in Args[c] : args' = [args EXCEPT ![c] = a]
    /\ UNCHANGED <<server, queue, request, reply, exit, admitted>>

\* The file is read and the options are validated before anything is sent.
PrepareClient(c) ==
    LET a == args[c] IN
    IF a.file # "unreadable" /\ ValidScrollOptions(a)
      THEN /\ Step(c, "started", "ready")
           /\ request' = [request EXCEPT ![c] = ClientRequest(a)]
           /\ UNCHANGED <<server, queue, kind, args, reply, exit, admitted>>
      ELSE /\ Exit(c, "started", "failure")
           /\ UNCHANGED <<server, queue, kind, args, request, reply, admitted>>

-----------------------------------------------------------------------------
(* The probe, and programs that speak the API themselves.                  *)

ProbeRequest == DefaultRequest

StartProbe(c) ==
    /\ Step(c, "idle", "ready")
    /\ kind' = [kind EXCEPT ![c] = "probe"]
    /\ request' = [request EXCEPT ![c] = ProbeRequest]
    /\ UNCHANGED <<server, queue, args, reply, exit, admitted>>

StartOther(c) ==
    /\ Step(c, "idle", "ready")
    /\ kind' = [kind EXCEPT ![c] = "other"]
    /\ \E r \in Requests[c] : request' = [request EXCEPT ![c] = r]
    /\ UNCHANGED <<server, queue, args, reply, exit, admitted>>

-----------------------------------------------------------------------------
(* The connection.                                                         *)

Connect(c) ==
    /\ server # "down"
    /\ Step(c, "ready", "sent")
    /\ UNCHANGED <<server, queue, kind, args, request, reply, exit, admitted>>

ConnectFails(c) ==
    /\ Exit(c, "ready", "failure")
    /\ UNCHANGED <<server, queue, kind, args, request, reply, admitted>>

\* request_timeout of the client, the 3 s of the probe, or a lost connection: the
\* call may already have been handled, or still be.
GiveUp(c) ==
    /\ Step(c, "sent", "gone")
    /\ exit' = [exit EXCEPT ![c] = "failure"]
    /\ UNCHANGED <<server, queue, kind, args, request, reply, admitted>>

\* What each caller takes for success.
Success(c) == IF c \in Probes THEN reply[c] = "image_required" ELSE reply[c] = "ok"

Finish(c) ==
    /\ reply[c] # "none"
    /\ Exit(c, "sent", IF Success(c) THEN "success" ELSE "failure")
    /\ UNCHANGED <<server, queue, kind, args, request, reply, admitted>>

-----------------------------------------------------------------------------
(* The server.                                                             *)

\* resolve_display_mode
Resolve(mode, mime) ==
    IF mode = "Scroll" \/ (mode = "Unspecified" /\ mime \in Ppms)
      THEN "ScrollHorizontal" ELSE "Static"

\* Mutation: the mode is taken as the caller wrote it.
CyclesPlayableUnresolved(r) ==
    /\ r.duration >= 0
    /\ r.mode \in Modes \ {"Static"}
    /\ r.mime \notin Gifs

\* The conditions on a request with scroll_cycles.
CyclesPlayable(r) ==
    /\ r.duration >= 0
    /\ r.mode \in Modes
    /\ r.mime \notin Gifs
    /\ Resolve(r.mode, r.mime) = "ScrollHorizontal"

DurationPlayable(r) == r.minimum = 0 /\ r.duration > 0

\* Mutation: the limits are validated before the image.
VerdictLimitsFirst(r) ==
    IF ~(IF r.cycles > 0 THEN CyclesPlayable(r) ELSE DurationPlayable(r)) THEN "INVALID_ARGUMENT"
    ELSE IF r.image = "missing" THEN "image_required"
    ELSE IF r.image = "empty" THEN "INVALID_ARGUMENT"
    ELSE "ok"

\* The validation of send_image, in its order as far as callers can tell.
Verdict(r) ==
    IF r.image = "missing" THEN "image_required"
    ELSE IF r.image = "empty" THEN "INVALID_ARGUMENT"
    ELSE IF IF r.cycles > 0 THEN CyclesPlayable(r) ELSE DurationPlayable(r) THEN "ok"
    ELSE "INVALID_ARGUMENT"

\* A server that predates cycles ignores the fields it does not know.
OlderView(r) == [r EXCEPT !.cycles = 0, !.minimum = 0]

\* The entry of the queue: one limit, and a mode that is known.
DisplayRequest(c, r) ==
    [from |-> c, mime |-> r.mime,
     mode |-> IF r.mode \in Modes THEN r.mode ELSE "Unspecified",
     cycles |-> r.cycles,
     minimum |-> IF r.cycles > 0 THEN r.minimum ELSE 0,
     duration |-> IF r.cycles > 0 THEN 0 ELSE r.duration]

\* Mutation: a full queue is only logged.
StatusWhenFull == "ok"

StatusFull == "RESOURCE_EXHAUSTED"

Full == Len(queue) = Capacity

\* The server has the call, or will have it, although nobody may wait for the answer.
Pending(c) == pc[c] \in {"sent", "gone"} /\ reply[c] = "none"

Respond(c, status) == reply' = [reply EXCEPT ![c] = status]

Refuse(c, status) ==
    /\ Respond(c, status)
    /\ UNCHANGED <<queue, admitted>>

\* send_image, on whichever version is installed.
Handle(c) ==
    LET r == IF server = "older" THEN OlderView(request[c]) ELSE request[c] IN
    /\ server \in {"current", "older", "stopping"}
    /\ Pending(c)
    /\ IF server = "stopping" THEN Refuse(c, "UNAVAILABLE")
       ELSE IF Verdict(r) # "ok" THEN Refuse(c, Verdict(r))
       ELSE IF Full THEN Refuse(c, StatusFull)
       ELSE /\ queue' = Append(queue, DisplayRequest(c, r))
            /\ admitted' = [admitted EXCEPT ![c] = @ + 1]
            /\ Respond(c, "ok")
    /\ UNCHANGED <<server, kind, args, request, pc, exit>>

\* The worker takes the next request.
Take ==
    /\ queue # <<>> /\ server # "down"
    /\ queue' = Tail(queue)
    /\ UNCHANGED <<server, kind, args, request, pc, reply, exit, admitted>>

\* The server is signalled, hangs, or its process ends: then the queue is gone
\* and the connections break.
Stop ==
    /\ server \in {"current", "older"}
    /\ server' \in {"stopping", "stuck"}
    /\ UNCHANGED <<queue, kind, args, request, pc, reply, exit, admitted>>

Die ==
    /\ server # "down"
    /\ server' = "down"
    /\ queue' = <<>>
    /\ reply' = [c \in Callers |-> IF Pending(c) THEN "lost" ELSE reply[c]]
    /\ UNCHANGED <<kind, args, request, pc, exit, admitted>>

\* An upgrade, a rollback or a restart.
Install ==
    /\ server = "down"
    /\ server' \in {"current", "older"}
    /\ UNCHANGED <<queue, kind, args, request, pc, reply, exit, admitted>>

-----------------------------------------------------------------------------
Call(c) ==
    \/ StartClient(c) \/ PrepareClient(c) \/ StartProbe(c) \/ StartOther(c)
    \/ Connect(c) \/ ConnectFails(c) \/ GiveUp(c) \/ Finish(c)

Next == (\E c \in Callers : Call(c) \/ Handle(c)) \/ Take \/ Stop \/ Die \/ Install

Spec == Init /\ [][Next]_vars

-----------------------------------------------------------------------------
(* Safety.                                                                 *)

\* led-client sends nothing that either version of the server finds invalid,
\* except an empty file: its own validation and the server's agree, whatever the
\* spelling of the type and the combination of options (client.rs
\* validate_scroll_options against service.rs).
LetThroughIsValid ==
    \A c \in Clients : reply[c] = "INVALID_ARGUMENT" => args[c].file = "empty"

\* What is admitted can be played, as it was asked for: cycles only for pictures that
\* scroll and are no GIF, which the worker would refuse after its acknowledgement, and
\* otherwise a positive duration, also where an older server dropped the cycles; and a
\* picture keeps the mode its user gave or the help promises ("inferred from file type
\* -- PPM scrolls, others are static").
AdmittedAsAsked ==
    \A i \in 1..Len(queue) :
        LET d == queue[i]
            a == args[d.from]
            scrolls == \/ a.mode = "Scroll" \/ a.cycles > 0
                       \/ a.mode = "none" /\ MimeType(a) \in Ppms
            mode == Resolve(d.mode, d.mime)
        IN  /\ IF d.cycles > 0 THEN d.mime \notin Gifs /\ mode = "ScrollHorizontal"
               ELSE d.duration > 0
            /\ d.from \in Clients => mode = IF scrolls THEN "ScrollHorizontal" ELSE "Static"

\* A caller that is told success, or a status, is told the truth about the queue;
\* only one that gave up or lost its connection cannot know.
ReportHonest ==
    \A c \in Callers \ Probes :
        /\ exit[c] = "success" => admitted[c] = 1
        /\ reply[c] \in Statuses \ {"ok"} => admitted[c] = 0

\* The probe shows nothing ("without displaying an image"), and every server of either
\* version that answers it and is not stopping is found healthy, whatever its queue
\* holds: the message the probe waits for is the one its request meets first.
ProbeHonest ==
    \A c \in Probes :
        /\ admitted[c] = 0
        /\ reply[c] \in {"none", "lost", "UNAVAILABLE", "image_required"}
=============================================================================
