-------------------------------- MODULE Monitor --------------------------------
(***************************************************************************)
(* The availability check beside the service: a timer starts it, it asks   *)
(* systemd, the service and systemd again, one after the other, each with  *)
(* a timeout, and publishes what it has seen as one file. Time is counted  *)
(* in seconds; what does not wait for another process takes none.          *)
(***************************************************************************)
EXTENDS Integers

CONSTANTS
    Timeout,        \* of each command
    ProbeTimeout,   \* that led-server --check has of its own
    StartTimeout,   \* after which systemd kills the check
    Period,         \* of the timer
    Accuracy,       \* by which the timer may be late
    MaxRestarts     \* bound: restarts that systemd counts

ASSUME MonitorAssumption ==
    /\ {Timeout, ProbeTimeout, StartTimeout, Period, MaxRestarts} \subseteq Nat \ {0}
    /\ Accuracy \in Nat

VARIABLES
    service,     \* up, deaf (active, but without an answer) or down
    restarts,    \* NRestarts
    phase,       \* what the check is at
    since,       \* seconds since the timer last started it
    spent,       \* seconds the current command has taken
    sample,      \* what the check has seen
    temp,        \* its temporary file
    file,        \* the published file
    age,         \* seconds since the time that is published
    seen,        \* history: what was the case since the check began
    disturbance  \* history: why the last check has published nothing

checkVars == <<phase, since, spent, sample>>
fileVars == <<temp, file, age, disturbance>>
vars == <<service, restarts, phase, since, spent, sample, temp, file, age, seen, disturbance>>

Unread == -1
NoSample == [active |-> 0, grpc |-> 0, count |-> Unread]

\* What is true of the service now, and what a sample claims of it.
Facts ==
    (IF service # "down" THEN {<<"active", 1>>} ELSE {})
        \cup (IF service = "up" THEN {<<"grpc", 1>>} ELSE {})
        \cup {<<"count", restarts>>}
Claims ==
    {<<v, sample[v]>> : v \in DOMAIN sample}
        \ {<<"active", 0>>, <<"grpc", 0>>, <<"count", Unread>>}

Commands == {"isActive", "probe", "show"}
Publishing == {"create", "write", "replace", "unlink"}
Running == phase # "waiting"

\* Mutation: the probe waits for its answer as long as the script lets it.
LimitOfScript(command) == Timeout

\* How long a command can take.
Limit(command) == IF command = "probe" /\ ProbeTimeout < Timeout THEN ProbeTimeout ELSE Timeout

Init ==
    /\ service \in {"up", "down"} /\ restarts = 0
    /\ phase = "waiting" /\ since = Period /\ spent = 0 /\ sample = NoSample
    /\ temp = "none" /\ file = "none" /\ age = 0
    /\ seen = {} /\ disturbance = "none"

-----------------------------------------------------------------------------
(* The service.                                                            *)

\* It fails or stops answering; systemd starts it again and counts; or someone starts
\* it anew, and the count begins again.
Change ==
    /\ \/ service = "up" /\ service' \in {"deaf", "down"} /\ UNCHANGED restarts
       \/ service = "deaf" /\ service' \in {"up", "down"} /\ UNCHANGED restarts
       \/ service = "down" /\ service' \in {"up", "deaf"} /\ restarts < MaxRestarts
            /\ restarts' = restarts + 1
       \/ service = "down" /\ service' \in {"up", "deaf"} /\ restarts' = 0
    /\ seen' = IF Running THEN seen \cup Facts \cup Facts' ELSE seen
    /\ UNCHANGED checkVars /\ UNCHANGED fileVars

-----------------------------------------------------------------------------
(* The check.                                                              *)

Begin ==
    /\ phase = "waiting" /\ since >= Period
    /\ phase' = "isActive" /\ since' = 0 /\ spent' = 0
    /\ temp' = "none" /\ seen' = Facts
    /\ UNCHANGED <<service, restarts, sample, file, age, disturbance>>

Enter(next) == phase' = next /\ spent' = 0 /\ UNCHANGED since

\* succeeds: 0 unless the command ends with success in time.
IsActive ==
    /\ phase = "isActive"
    /\ \E answer \in 0..1 :
         /\ answer = 1 => service # "down"
         /\ sample' = [sample EXCEPT !.active = answer]
    /\ Enter("probe")
    /\ UNCHANGED <<service, restarts, seen>> /\ UNCHANGED fileVars

\* Mutation: without an answer there is nothing to publish.
ProbeOrEnd ==
    /\ phase = "probe"
    /\ IF service = "up" THEN sample' = [sample EXCEPT !.grpc = 1] /\ Enter("show")
       ELSE sample' = NoSample /\ Enter("waiting")
    /\ UNCHANGED <<service, restarts, seen>> /\ UNCHANGED fileVars

Probe ==
    /\ phase = "probe"
    /\ \E answer \in 0..1 :
         /\ answer = 1 => service = "up"
         /\ sample' = [sample EXCEPT !.grpc = answer]
    /\ Enter("show")
    /\ UNCHANGED <<service, restarts, seen>> /\ UNCHANGED fileVars

\* Mutation: a count that cannot be read is published as no restart at all.
ShowZero ==
    /\ phase = "show"
    /\ \E count \in {0, restarts} : sample' = [sample EXCEPT !.count = count]
    /\ Enter("create")
    /\ UNCHANGED <<service, restarts, seen>> /\ UNCHANGED fileVars

\* restarts: the count, if it can be read.
Show ==
    /\ phase = "show"
    /\ \E count \in {Unread, restarts} : sample' = [sample EXCEPT !.count = count]
    /\ Enter("create")
    /\ UNCHANGED <<service, restarts, seen>> /\ UNCHANGED fileVars

Create ==
    /\ phase = "create"
    /\ temp' = "empty"
    /\ Enter("write")
    /\ UNCHANGED <<service, restarts, sample, seen, file, age, disturbance>>

\* Mutation: the file is replaced while the text is still in the stream's buffer.
WriteBuffered ==
    /\ phase = "write"
    /\ Enter("replace")
    /\ UNCHANGED <<service, restarts, sample, seen>> /\ UNCHANGED fileVars

\* write, flush, and close on leaving the block
Write ==
    /\ phase = "write"
    /\ temp' = "whole"
    /\ Enter("replace")
    /\ UNCHANGED <<service, restarts, sample, seen, file, age, disturbance>>

\* os.replace takes the temporary file away.
Replace ==
    /\ phase = "replace"
    /\ file' = temp /\ temp' = "none" /\ age' = 0 /\ disturbance' = "none"
    /\ Enter("unlink")
    /\ UNCHANGED <<service, restarts, sample, seen>>

\* Any of them may raise an OSError; finally follows.
CannotPublish ==
    /\ phase \in {"create", "write", "replace"}
    /\ disturbance' = "failed"
    /\ Enter("unlink")
    /\ UNCHANGED <<service, restarts, sample, seen, temp, file, age>>

\* The check ends, whichever way.
End ==
    /\ phase' = "waiting" /\ spent' = 0 /\ sample' = NoSample /\ seen' = {}
    /\ UNCHANGED <<service, restarts, since>>

Unlink ==
    /\ phase = "unlink"
    /\ temp' = "none"
    /\ End
    /\ UNCHANGED <<file, age, disturbance>>

\* SIGTERM, at the start timeout or because someone stops the check: nothing follows.
Kill ==
    /\ Running
    /\ disturbance' = IF since >= StartTimeout THEN "timeout" ELSE "stopped"
    /\ End
    /\ UNCHANGED <<temp, file, age>>

Check ==
    \/ Begin \/ IsActive \/ Probe \/ Show \/ Create \/ Write \/ Replace \/ CannotPublish
    \/ Unlink \/ Kill

-----------------------------------------------------------------------------
(* Time.                                                                   *)

\* How long the commands may take together, and how old the published time can
\* become, from one check to the next.
Longest == Timeout + Limit("probe") + Timeout
Oldest == Period + Accuracy + Longest

\* A second passes while the timer or a command is waited for. Ages over the oldest
\* are the same.
Tick ==
    /\ \/ phase = "waiting" /\ since < Period + Accuracy /\ UNCHANGED spent
       \/ /\ phase \in Commands /\ spent < Limit(phase) /\ spent' = spent + 1
          /\ since < StartTimeout
    /\ since' = since + 1
    /\ age' = IF file # "none" /\ age <= Period + Accuracy + 3 * Timeout THEN age + 1 ELSE age
    /\ UNCHANGED <<service, restarts, phase, sample, temp, file, seen, disturbance>>

Next == Change \/ Check \/ Tick

Spec == Init /\ [][Next]_vars

-----------------------------------------------------------------------------
(* Properties.                                                             *)

\* Readers see the old complete snapshot or the new one, also when a check fails or is
\* killed between any two steps (led-service-check.py:59).
SnapshotComplete == file # "empty"

\* What is published was the case while the check was at it: a service that is gone is
\* not reported as active, and no restart count is older than the check, even where
\* systemd cannot be read ("keeps a stale counter from looking like a steady value",
\* led-service-check.py:22).
SampleFounded == phase \in Publishing => Claims \subseteq seen

\* The timeouts of the commands and of the probe, one after the other, leave the check
\* enough of its TimeoutStartSec: systemd never kills it for being late.
NeverTooLate == disturbance # "timeout" /\ (Running => since < StartTimeout)

\* While no check is stopped or fails to publish, the published time is never older
\* than a period and the longest check, whatever hangs ("the last completed check,
\* including failures", led-service-check.py:45).
NeverStale == file # "none" /\ disturbance = "none" => age <= Oldest
=============================================================================
